---------------------------- MODULE EscrowProofs ----------------------------
(***************************************************************************)
(* The contract implements BountyEscrow, for every instance: each reward   *)
(* and each bond is deposited once, then owed to one account, then paid to *)
(* it once, in the amount deposited, and no step moves two deposits.  And  *)
(* it is solvent: its balance is the sum of what its records owe.          *)
(***************************************************************************)
EXTENDS SettlementProofs, WellFoundedInduction

\* A deposit that is still in escrow, and one whose liability was recorded.
Held(amount) == [amount |-> amount, state |-> "held", payee |-> ZERO_ADDRESS]

Recorded(amount, liability, payee) ==
    [amount |-> amount, state |-> IF liability = "PENDING" THEN "due" ELSE "paid",
     payee |-> payee]

\* Where the reward of a bounty is, without reference to a liability that was
\* never recorded.
RewardForm(b) ==
    LET bounty == bounties[b]
        winner == submissions[bounty.winner_submission_id]
    IN
    /\ Owed(bounty.refund_status) =>
        RewardDeposit(b) = Recorded(bounty.refund_amount, bounty.refund_status, bounty.poster)
    /\ ~Owed(bounty.refund_status) /\ bounty.has_winner =>
        RewardDeposit(b) = Recorded(winner.reward_amount, winner.reward_status, winner.creator)
    /\ ~Owed(bounty.refund_status) /\ ~bounty.has_winner =>
        RewardDeposit(b) = Held(bounty.escrow_balance)

\* A refund status that is not owed is the empty one, by its type.
LEMMA RewardForms == Settled => \A b \in BountyIds : RewardForm(b)
<1> SUFFICES ASSUME Settled, NEW b \in BountyIds PROVE RewardForm(b)
    OBVIOUS
<1>1. bounties[b].refund_status \in LiabilityStatuses
    BY SettledParts, ZenonT(60) DEF TypeInv, TypeOK, Bounty
<1>2. bounties[b].refund_status = "" <=> ~Owed(bounties[b].refund_status)
    BY <1>1, Zenon DEF LiabilityStatuses, Owed
<1>3. ASSUME Owed(bounties[b].refund_status)
      PROVE  RewardDeposit(b) =
        Recorded(bounties[b].refund_amount, bounties[b].refund_status, bounties[b].poster)
    BY <1>2, <1>3, Zenon DEF RewardDeposit, Recorded
<1>4. ASSUME ~Owed(bounties[b].refund_status), bounties[b].has_winner
      PROVE  LET winner == submissions[bounties[b].winner_submission_id]
             IN  RewardDeposit(b) =
                    Recorded(winner.reward_amount, winner.reward_status, winner.creator)
    BY <1>2, <1>4, Zenon DEF RewardDeposit, Recorded
<1>5. ASSUME ~Owed(bounties[b].refund_status), ~bounties[b].has_winner
      PROVE  RewardDeposit(b) = Held(bounties[b].escrow_balance)
    BY <1>2, <1>5, Zenon DEF RewardDeposit, Held
<1> QED BY <1>3, <1>4, <1>5, Zenon DEF RewardForm

\* The same in the next state.
LEMMA RewardFormsNext == Settled' => (\A b \in BountyIds : RewardForm(b))'
    BY RewardForms, PTL

\* A bounty's reward stays where it is when neither the bounty's own
\* liabilities nor its winner's change.
LEMMA RewardKept ==
    ASSUME Settled, Settled', NEW b \in BountyIds, b \in BountyIds',
           bounties'[b].poster = bounties[b].poster, SameMoney(b), SameWinner(b),
           bounties[b].has_winner =>
            LET w == bounties[b].winner_submission_id
            IN  submissions'[w].creator = submissions[w].creator /\ SameReward(w)
    PROVE  RewardDeposit(b)' = RewardDeposit(b)
<1>1. RewardForm(b) /\ RewardForm(b)'
    BY RewardForms, RewardFormsNext
<1> QED BY <1>1 DEF RewardForm, SameMoney, SameWinner, SameReward

\* What a reward at work is: the posted amount, held.
LEMMA RewardHeld ==
    ASSUME Settled, NEW b \in BountyIds, bounties[b].status \in {"OPEN", "LOCKED"}
    PROVE  RewardDeposit(b) = Held(bounties[b].reward)
<1>1. /\ ~Owed(bounties[b].refund_status) /\ ~bounties[b].has_winner
      /\ bounties[b].escrow_balance = bounties[b].reward
    BY SettledParts DEF LiabilityInv, WinnerInv
<1> QED BY <1>1, RewardForms DEF RewardForm

\* The deposits of unchanged bounties and challenges.
LEMMA BondKept ==
    ASSUME NEW c, SameDispute(c), challenges'[c].bond_recipient = challenges[c].bond_recipient,
           challenges'[c].bond_status = challenges[c].bond_status
    PROVE  BondDeposit(c)' = BondDeposit(c)
    BY DEF BondDeposit, SameDispute

-----------------------------------------------------------------------------
\* The deposits as one function.

\* Its ids are those of the bounties and of the challenges.
LEMMA DepositsAre ==
    /\ DOMAIN Deposits = ({"reward"} \X BountyIds) \cup ({"bond"} \X ChallengeIds)
    /\ \A b \in BountyIds : Deposits[<<"reward", b>>] = RewardDeposit(b)
    /\ \A c \in ChallengeIds : Deposits[<<"bond", c>>] = BondDeposit(c)
    /\ Deposits = [d \in DOMAIN Deposits |-> Deposits[d]]
    BY DEF Deposits

\* The same in the next state.
LEMMA DepositsAreNext ==
    /\ DOMAIN Deposits' = ({"reward"} \X BountyIds') \cup ({"bond"} \X ChallengeIds')
    /\ \A b \in BountyIds' : Deposits'[<<"reward", b>>] = RewardDeposit(b)'
    /\ \A c \in ChallengeIds' : Deposits'[<<"bond", c>>] = BondDeposit(c)'
    /\ Deposits' = [d \in DOMAIN Deposits' |-> Deposits'[d]]
    BY DEF Deposits

\* Nothing moves when every reward and every bond stays where it is.
LEMMA NothingMoves ==
    ASSUME BountyIds' = BountyIds, ChallengeIds' = ChallengeIds,
           \A b \in BountyIds : RewardDeposit(b)' = RewardDeposit(b),
           \A c \in ChallengeIds : BondDeposit(c)' = BondDeposit(c)
    PROVE  Deposits' = Deposits
    BY DEF Deposits

\* One deposit changes when one reward, or one bond, does.
LEMMA OneRewardMoves ==
    ASSUME BountyIds' = BountyIds, ChallengeIds' = ChallengeIds, NEW b \in BountyIds, NEW value,
           \A d \in BountyIds \ {b} : RewardDeposit(d)' = RewardDeposit(d),
           RewardDeposit(b)' = value,
           \A c \in ChallengeIds : BondDeposit(c)' = BondDeposit(c)
    PROVE  /\ <<"reward", b>> \in DOMAIN Deposits
           /\ Deposits' = [Deposits EXCEPT ![<<"reward", b>>] = value]
<1>1. DOMAIN Deposits' = DOMAIN Deposits
    BY DepositsAre, DepositsAreNext, Zenon
<1>2. \A d \in DOMAIN Deposits \ {<<"reward", b>>} : Deposits'[d] = Deposits[d]
    BY DepositsAre, DepositsAreNext
<1>3. <<"reward", b>> \in DOMAIN Deposits /\ Deposits'[<<"reward", b>>] = value
    BY DepositsAre, DepositsAreNext
<1> QED BY <1>1, <1>2, <1>3, DepositsAre, DepositsAreNext

\* The same of a bond.
LEMMA OneBondMoves ==
    ASSUME BountyIds' = BountyIds, ChallengeIds' = ChallengeIds, NEW c \in ChallengeIds, NEW value,
           \A b \in BountyIds : RewardDeposit(b)' = RewardDeposit(b),
           \A d \in ChallengeIds \ {c} : BondDeposit(d)' = BondDeposit(d),
           BondDeposit(c)' = value
    PROVE  /\ <<"bond", c>> \in DOMAIN Deposits
           /\ Deposits' = [Deposits EXCEPT ![<<"bond", c>>] = value]
<1>1. DOMAIN Deposits' = DOMAIN Deposits
    BY DepositsAre, DepositsAreNext, Zenon
<1>2. \A d \in DOMAIN Deposits \ {<<"bond", c>>} : Deposits'[d] = Deposits[d]
    BY DepositsAre, DepositsAreNext
<1>3. <<"bond", c>> \in DOMAIN Deposits /\ Deposits'[<<"bond", c>>] = value
    BY DepositsAre, DepositsAreNext
<1> QED BY <1>1, <1>2, <1>3, DepositsAre, DepositsAreNext

-----------------------------------------------------------------------------
\* The abstract steps, in terms of the function's values.

\* A step of the contract is one of BountyEscrow, or is not seen there.
EscrowStep == [Escrow!Next]_<<Deposits, balance, received>>

\* Recording a liability releases what was held.
LEMMA StepReleases ==
    ASSUME NEW d \in DOMAIN Deposits, NEW amount, NEW payee \in Addresses,
           Deposits[d].state = "held", Deposits[d].amount = amount,
           Deposits' = [Deposits EXCEPT ![d] = Recorded(amount, "PENDING", payee)],
           UNCHANGED moneyVars
    PROVE  EscrowStep
<1>1. Escrow!Release(d, payee)
    BY DEF Escrow!Release, Recorded, moneyVars
<1> QED BY <1>1 DEF Escrow!Next, EscrowStep

\* A withdrawal pays what was due to whom it was due.
LEMMA StepPays ==
    ASSUME NEW d \in DOMAIN Deposits, NEW amount, NEW payee,
           Deposits[d] = Recorded(amount, "PENDING", payee),
           Deposits' = [Deposits EXCEPT ![d] = Recorded(amount, "WITHDRAWN", payee)],
           EmitTransfer(payee, amount)
    PROVE  EscrowStep
<1>1. Escrow!Pay(d)
    BY DEF Escrow!Pay, Recorded, EmitTransfer
<1> QED BY <1>1 DEF Escrow!Next, EscrowStep

\* A new bounty or challenge brings its value in.
LEMMA StepDeposits ==
    ASSUME NEW d \in ({"reward"} \X (0..(MaxBounties - 1))) \cup ({"bond"} \X (1..MaxChallenges)),
           NEW amount \in Rewards \cup {ChallengeBond(reward) : reward \in Rewards},
           d \notin DOMAIN Deposits, DOMAIN Deposits' = DOMAIN Deposits \cup {d},
           \A e \in DOMAIN Deposits : Deposits'[e] = Deposits[e],
           Deposits'[d] = Held(amount),
           balance' = balance + amount, UNCHANGED received
    PROVE  EscrowStep
<1>1. Deposits' = [e \in DOMAIN Deposits \cup {d} |->
                        IF e = d THEN Held(amount) ELSE Deposits[e]]
    BY DepositsAreNext
<1>2. Escrow!Deposit(d, amount)
    BY <1>1 DEF Escrow!Deposit, Held
<1> QED BY <1>2 DEF Escrow!Next, EscrowStep

\* The other methods are not seen.
LEMMA StepStutters ==
    ASSUME Deposits' = Deposits, UNCHANGED moneyVars PROVE EscrowStep
    BY DEF EscrowStep, moneyVars

-----------------------------------------------------------------------------
\* Method by method.

\* Every reward stays where it is while no liability of a bounty or of its
\* submissions changes.
LEMMA RewardsKept ==
    ASSUME Settled, Settled', NEW B, B \subseteq BountyIds, B \subseteq BountyIds',
           \A b \in B :
            /\ bounties'[b].poster = bounties[b].poster
            /\ SameMoney(b) /\ SameWinner(b)
            /\ \A s \in SubmissionsOf(b) : submissions[s].status = "APPROVED" =>
                submissions'[s].creator = submissions[s].creator /\ SameReward(s)
    PROVE  \A b \in B : RewardDeposit(b)' = RewardDeposit(b)
<1> SUFFICES ASSUME NEW b \in B PROVE RewardDeposit(b)' = RewardDeposit(b)
    OBVIOUS
<1>1. bounties[b].has_winner =>
        LET w == bounties[b].winner_submission_id
        IN  submissions'[w].creator = submissions[w].creator /\ SameReward(w)
    BY SettledParts DEF WinnerInv
<1> QED BY <1>1, RewardKept

\* A challenge that is as it was has its bond where it was.
LEMMA UnchangedBonds ==
    ASSUME UNCHANGED challengeVars
    PROVE  /\ ChallengeIds' = ChallengeIds
           /\ \A c \in ChallengeIds : BondDeposit(c)' = BondDeposit(c)
    BY DEF challengeVars, ChallengeIds, BondDeposit

\* A posted reward is deposited.
LEMMA PostBountyDeposits ==
    ASSUME Settled, Settled', NEW sender \in Addresses, NEW value \in Rewards,
           NEW sw \in SubmissionWindows, NEW eg \in EvaluationGraces, NEW cw \in ChallengeWindows,
           PostBounty(sender, value, sw, eg, cw)
    PROVE  EscrowStep
<1> SUFFICES ASSUME NEW n, n = bounty_count PROVE EscrowStep
    OBVIOUS
<1> DEFINE d == <<"reward", n>>
<1>1. /\ bounty_count < MaxBounties
      /\ n \notin BountyIds
      /\ BountyIds' = BountyIds \cup {n}
      /\ UNCHANGED <<submissionVars, challengeVars, received>>
      /\ balance' = balance + value
      /\ \A b \in BountyIds : bounties'[b] = bounties[b]
      /\ bounties'[n].status = "OPEN"
      /\ bounties'[n].reward = value
    BY SettledParts, PostBountyEffect
<1>2. \A b \in BountyIds : RewardDeposit(b)' = RewardDeposit(b)
    BY <1>1, RewardsKept DEF SameMoney, SameWinner, SameReward, submissionVars
<1>3. RewardDeposit(n)' = Held(value)
    <2>1. /\ ~Owed(bounties'[n].refund_status) /\ ~bounties'[n].has_winner
          /\ bounties'[n].escrow_balance = value
        BY <1>1 DEF Settled, SettlementInv, LiabilityInv, WinnerInv
    <2> QED BY <1>1, <2>1, RewardFormsNext DEF RewardForm
<1>4. /\ ChallengeIds' = ChallengeIds
      /\ \A c \in ChallengeIds : BondDeposit(c)' = BondDeposit(c)
    BY <1>1, UnchangedBonds
<1>5. d \in {"reward"} \X (0..(MaxBounties - 1))
    BY <1>1, SettledParts, BoundAssumption DEF TypeInv, TypeOK
<1>6. /\ d \notin DOMAIN Deposits
      /\ DOMAIN Deposits' = DOMAIN Deposits \cup {d}
      /\ \A e \in DOMAIN Deposits : Deposits'[e] = Deposits[e]
      /\ Deposits'[d] = Held(value)
    BY <1>1, <1>2, <1>3, <1>4, DepositsAre, DepositsAreNext
<1> QED BY <1>1, <1>5, <1>6, StepDeposits

\* A challenge's bond is deposited.
LEMMA ChallengeSubmissionDeposits ==
    ASSUME Settled, Settled', NEW sender \in Addresses, NEW s \in SubmissionIds,
           NEW reason \in ChallengeReasons, NEW digest \in Digests,
           ChallengeSubmission(sender, s, reason, digest)
    PROVE  EscrowStep
<1> SUFFICES ASSUME NEW c, c = challenge_count + 1,
                    NEW bond, bond = ChallengeBond(bounties[submissions[s].bounty_id].reward)
             PROVE  EscrowStep
    OBVIOUS
<1> DEFINE d == <<"bond", c>>
<1>1. /\ challenge_count < MaxChallenges
      /\ c \notin ChallengeIds
      /\ ChallengeIds' = ChallengeIds \cup {c}
      /\ UNCHANGED <<bountyVars, submission_count, received>>
      /\ balance' = balance + bond
      /\ OthersKept(s) /\ SameEntry(s) /\ SameReward(s)
      /\ \A e \in ChallengeIds : challenges'[e] = challenges[e]
      /\ challenges'[c].bond = bond
      /\ challenges'[c].bond_recipient = ZERO_ADDRESS
      /\ challenges'[c].bond_status = "ESCROWED"
    BY SettledParts, ChallengeSubmissionEffect
<1>2. /\ BountyIds' = BountyIds
      /\ \A b \in BountyIds : RewardDeposit(b)' = RewardDeposit(b)
    <2>1. BountyIds' = BountyIds
        BY <1>1 DEF bountyVars, BountyIds
    <2>2. \A t \in SubmissionIds : submissions'[t].creator = submissions[t].creator /\ SameReward(t)
        BY <1>1 DEF OthersKept, SameEntry, SameReward
    <2> QED
        BY <1>1, <2>1, <2>2, RewardsKept DEF SameMoney, SameWinner, bountyVars, SubmissionsOf
<1>3. /\ \A e \in ChallengeIds : BondDeposit(e)' = BondDeposit(e)
      /\ BondDeposit(c)' = Held(bond)
    BY <1>1 DEF BondDeposit, Held
<1>4. d \in {"bond"} \X (1..MaxChallenges)
    BY <1>1, SettledParts, BoundAssumption DEF TypeInv, TypeOK
<1>5. bond \in {ChallengeBond(reward) : reward \in Rewards}
    <2>1. bounties[submissions[s].bounty_id] \in Bounty
        BY SettledParts DEF TypeInv, TypeOK
    <2>2. bounties[submissions[s].bounty_id].reward \in Rewards
        BY <2>1, Zenon DEF Bounty
    <2> QED BY <2>2
<1>6. /\ d \notin DOMAIN Deposits
      /\ DOMAIN Deposits' = DOMAIN Deposits \cup {d}
      /\ \A e \in DOMAIN Deposits : Deposits'[e] = Deposits[e]
      /\ Deposits'[d] = Held(bond)
    BY <1>1, <1>2, <1>3, DepositsAre, DepositsAreNext
<1> QED BY <1>1, <1>4, <1>5, <1>6, StepDeposits

\* A submission moves no deposit.
LEMMA SubmitContentStutters ==
    ASSUME Settled, Settled', NEW sender \in Addresses, NEW b \in BountyIds,
           NEW digest \in Digests, SubmitContent(sender, b, digest)
    PROVE  EscrowStep
<1>1. /\ UNCHANGED <<bounty_count, challengeVars, moneyVars>>
      /\ \A s \in SubmissionIds : submissions'[s] = submissions[s]
      /\ OtherBountiesKept(b)
      /\ SameTerms(b) /\ SameWinner(b) /\ SameMoney(b)
    BY SettledParts, SubmitContentEffect
<1>2. BountyIds' = BountyIds
    BY <1>1, IdsKept
<1>3. \A d \in BountyIds : bounties'[d].poster = bounties[d].poster /\ SameMoney(d) /\ SameWinner(d)
    BY <1>1 DEF OtherBountiesKept, SameTerms, SameMoney, SameWinner
<1>4. \A d \in BountyIds : RewardDeposit(d)' = RewardDeposit(d)
    BY <1>1, <1>2, <1>3, RewardsKept DEF SameReward, SubmissionsOf
<1> QED BY <1>1, <1>2, <1>4, UnchangedBonds, NothingMoves, StepStutters

\* An evaluation records no liability.
LEMMA EvaluateSubmissionStutters ==
    ASSUME Settled, Settled', NEW s \in SubmissionIds, NEW result \in EvaluationResults,
           EvaluateSubmission(s, result)
    PROVE  EscrowStep
<1> DEFINE b == submissions[s].bounty_id
<1>1. /\ UNCHANGED <<bounty_count, challengeVars, moneyVars>>
      /\ OthersKept(s) /\ SameEntry(s) /\ SameReward(s)
      /\ \/ OtherBountiesKept(b) /\ SameTerms(b) /\ SameWinner(b) /\ SameMoney(b)
         \/ UNCHANGED bounties
    <2> HIDE DEF b
    <2> QED BY SettledParts, EvaluateSubmissionEffect, Zenon DEF b
<1>2. BountyIds' = BountyIds
    BY <1>1, IdsKept
<1>3. \A d \in BountyIds : bounties'[d].poster = bounties[d].poster /\ SameMoney(d) /\ SameWinner(d)
    BY <1>1 DEF OtherBountiesKept, SameTerms, SameMoney, SameWinner
<1>4. \A t \in SubmissionIds : submissions'[t].creator = submissions[t].creator /\ SameReward(t)
    BY <1>1 DEF OthersKept, SameEntry, SameReward
<1>5. \A d \in BountyIds : RewardDeposit(d)' = RewardDeposit(d)
    BY <1>2, <1>3, <1>4, RewardsKept DEF SubmissionsOf
<1> QED BY <1>1, <1>2, <1>5, UnchangedBonds, NothingMoves, StepStutters

\* Bounties and submissions that are as they were have their rewards where
\* they were.
LEMMA UnchangedRewards ==
    ASSUME Settled, Settled', UNCHANGED bountyVars,
           \A s \in SubmissionIds : submissions'[s].creator = submissions[s].creator /\ SameReward(s)
    PROVE  /\ BountyIds' = BountyIds
           /\ \A b \in BountyIds : RewardDeposit(b)' = RewardDeposit(b)
<1>1. BountyIds' = BountyIds /\ UNCHANGED bounties
    BY DEF bountyVars, BountyIds
<1> QED BY <1>1, RewardsKept DEF SameMoney, SameWinner, SubmissionsOf

\* A review leaves every bond in escrow.
LEMMA ReviewChallengeStutters ==
    ASSUME Settled, Settled', NEW c \in ChallengeIds, NEW result, ReviewChallenge(c, result)
    PROVE  EscrowStep
<1>1. /\ UNCHANGED <<bountyVars, submissionVars, challenge_count, moneyVars>>
      /\ OtherChallengesKept(c) /\ SameDispute(c)
      /\ challenges'[c].bond_recipient = challenges[c].bond_recipient
      /\ challenges'[c].bond_status = challenges[c].bond_status
    BY SettledParts, ReviewChallengeEffect
<1>2. ChallengeIds' = ChallengeIds
    BY <1>1, IdsKept
<1>3. \A d \in ChallengeIds : BondDeposit(d)' = BondDeposit(d)
    BY <1>1, BondKept DEF OtherChallengesKept, BondDeposit
<1>4. /\ BountyIds' = BountyIds
      /\ \A b \in BountyIds : RewardDeposit(b)' = RewardDeposit(b)
    BY <1>1, UnchangedRewards DEF SameReward, submissionVars
<1> QED BY <1>1, <1>2, <1>3, <1>4, NothingMoves, StepStutters

\* Closing a challenge releases its bond to whom the outcome names.
LEMMA ClosingReleases ==
    ASSUME Settled, NEW c \in ChallengeIds, challenges[c].status = "OPEN",
           UNCHANGED <<challenge_count, moneyVars>>,
           OtherChallengesKept(c), SameDispute(c),
           NEW payee \in Addresses, challenges'[c].bond_recipient = payee,
           challenges'[c].bond_status = "PENDING",
           BountyIds' = BountyIds,
           \A b \in BountyIds : RewardDeposit(b)' = RewardDeposit(b)
    PROVE  EscrowStep
<1>1. challenges[c].bond_status = "ESCROWED"
    BY DEF Settled, ChallengeInv, BondFollowsOutcome, BondMatchesOutcome
<1>2. /\ ChallengeIds' = ChallengeIds
      /\ \A d \in ChallengeIds \ {c} : BondDeposit(d)' = BondDeposit(d)
    BY IdsKept DEF OtherChallengesKept, BondDeposit
<1>3. BondDeposit(c)' = Recorded(challenges[c].bond, "PENDING", payee)
    BY DEF BondDeposit, Recorded, SameDispute
<1>4. /\ <<"bond", c>> \in DOMAIN Deposits
      /\ Deposits' = [Deposits EXCEPT ![<<"bond", c>>] =
                        Recorded(challenges[c].bond, "PENDING", payee)]
    BY <1>2, <1>3, OneBondMoves
<1>5. BondDeposit(c).state = "held" /\ BondDeposit(c).amount = challenges[c].bond
    BY <1>1 DEF BondDeposit
<1>6. Deposits[<<"bond", c>>] = BondDeposit(c)
    BY DepositsAre
<1> QED BY <1>4, <1>5, <1>6, StepReleases

\* An upheld challenge releases its bond to the challenger; the reward, which
\* was not awarded yet, stays in escrow.
LEMMA UpholdChallengeReleases ==
    ASSUME Settled, Settled', NEW c \in ChallengeIds, FinalizeChallenge(c), UpholdChallenge(c)
    PROVE  EscrowStep
<1> SUFFICES ASSUME NEW s, s = challenges[c].submission_id, NEW b, b = challenges[c].bounty_id
             PROVE  EscrowStep
    OBVIOUS
<1>1. /\ s \in SubmissionIds /\ b \in BountyIds
      /\ CanFinalize(c)
      /\ UNCHANGED <<bounty_count, submission_count, challenge_count, moneyVars>>
      /\ OtherChallengesKept(c) /\ SameDispute(c)
      /\ challenges'[c].bond_recipient = challenges[c].challenger
      /\ challenges'[c].bond_status = "PENDING"
      /\ OthersKept(s) /\ SameEntry(s) /\ SameReward(s)
      /\ OtherBountiesKept(b)
      /\ SameTerms(b) /\ SameMoney(b)
      /\ bounties'[b].has_winner = FALSE
    BY SettledParts, UpholdChallengeEffect
<1>2. BountyIds' = BountyIds
    BY <1>1, IdsKept
<1>3. challenges[c].status = "OPEN"
    BY <1>1 DEF CanFinalize
<1>4. submissions[s].active_challenge_id = c /\ c # 0
    BY <1>3, SettledParts DEF ChallengeLinks, ChallengeIds, TypeInv, TypeOK
<1>5. submissions[s].status = "APPROVED_PENDING" /\ b = submissions[s].bounty_id
    BY <1>1, <1>4, SettledParts DEF ChallengeLinks, UpheldInv
<1>6. bounties[b].status = "LOCKED"
    BY <1>1, <1>5, SettledParts DEF CandidateInv
<1>7. RewardDeposit(b)' = RewardDeposit(b)
    <2>1. /\ RewardForm(b) /\ RewardForm(b)'
          /\ ~Owed(bounties[b].refund_status) /\ ~bounties[b].has_winner
        BY <1>1, <1>2, <1>6, SettledParts, RewardForms, RewardFormsNext DEF LiabilityInv, WinnerInv
    <2> QED BY <1>1, <2>1 DEF RewardForm, SameMoney
<1>8. \A d \in BountyIds \ {b} : RewardDeposit(d)' = RewardDeposit(d)
    <2>1. \A d \in BountyIds \ {b} :
            bounties'[d].poster = bounties[d].poster /\ SameMoney(d) /\ SameWinner(d)
        BY <1>1 DEF OtherBountiesKept, SameMoney, SameWinner
    <2>2. \A t \in SubmissionIds : submissions'[t].creator = submissions[t].creator /\ SameReward(t)
        BY <1>1 DEF OthersKept, SameEntry, SameReward
    <2> QED BY <1>2, <2>1, <2>2, RewardsKept DEF SubmissionsOf
<1>9. challenges[c].challenger \in Addresses
    <2>1. challenges[c] \in Challenge
        BY SettledParts DEF TypeInv, TypeOK
    <2> QED BY <2>1, Zenon DEF Challenge
<1> QED BY <1>1, <1>2, <1>3, <1>7, <1>8, <1>9, ClosingReleases

\* So does a dismissed one to the creator, and a timed-out one to the
\* challenger.
LEMMA ChallengeClosedReleases ==
    ASSUME Settled, Settled', NEW c \in ChallengeIds,
           \/ FinalizeChallenge(c) /\ DismissChallenge(c)
           \/ TimeoutChallenge(c)
    PROVE  EscrowStep
<1> SUFFICES ASSUME NEW s, s = challenges[c].submission_id PROVE EscrowStep
    OBVIOUS
<1>1. /\ s \in SubmissionIds
      /\ challenges[c].status = "OPEN"
      /\ UNCHANGED <<bountyVars, challenge_count, moneyVars>>
      /\ OtherChallengesKept(c) /\ SameDispute(c)
      /\ challenges'[c].bond_recipient \in {submissions[s].creator, challenges[c].challenger}
      /\ challenges'[c].bond_status = "PENDING"
      /\ OthersKept(s) /\ SameEntry(s) /\ SameReward(s)
    BY SettledParts, ChallengeClosedEffect
<1>2. challenges[c].challenger \in Addresses /\ submissions[s].creator \in Addresses
    <2>1. challenges[c] \in Challenge /\ submissions[s] \in Submission
        BY <1>1, SettledParts DEF TypeInv, TypeOK
    <2> QED BY <2>1, Zenon DEF Challenge, Submission
<1>3. /\ BountyIds' = BountyIds
      /\ \A b \in BountyIds : RewardDeposit(b)' = RewardDeposit(b)
    BY <1>1, UnchangedRewards DEF OthersKept, SameEntry, SameReward
<1> QED BY <1>1, <1>2, <1>3, ClosingReleases

\* Recording what becomes of a bounty's reward releases it.
LEMMA RewardReleases ==
    ASSUME Settled, Settled', NEW b \in BountyIds, bounties[b].status \in {"OPEN", "LOCKED"},
           UNCHANGED <<bounty_count, challengeVars, moneyVars>>, NEW payee \in Addresses,
           OtherBountiesKept(b),
           \A s \in SubmissionIds : submissions[s].status = "APPROVED" =>
            submissions'[s].creator = submissions[s].creator /\ SameReward(s),
           RewardDeposit(b)' = Recorded(bounties[b].reward, "PENDING", payee)
    PROVE  EscrowStep
<1>1. BountyIds' = BountyIds
    BY IdsKept
<1>2. \A d \in BountyIds \ {b} : RewardDeposit(d)' = RewardDeposit(d)
    <2>1. \A d \in BountyIds \ {b} :
            bounties'[d].poster = bounties[d].poster /\ SameMoney(d) /\ SameWinner(d)
        BY DEF OtherBountiesKept, SameMoney, SameWinner
    <2> QED BY <1>1, <2>1, RewardsKept DEF SubmissionsOf
<1>3. /\ <<"reward", b>> \in DOMAIN Deposits
      /\ Deposits' = [Deposits EXCEPT ![<<"reward", b>>] =
                        Recorded(bounties[b].reward, "PENDING", payee)]
    BY <1>1, <1>2, UnchangedBonds, OneRewardMoves
<1>4. Deposits[<<"reward", b>>] = Held(bounties[b].reward)
    BY RewardHeld, DepositsAre
<1>5. Held(bounties[b].reward).state = "held" /\ Held(bounties[b].reward).amount = bounties[b].reward
    BY DEF Held
<1> QED BY <1>3, <1>4, <1>5, StepReleases

\* A claim releases the reward to the creator of what was approved.
LEMMA ClaimRewardReleases ==
    ASSUME Settled, Settled', NEW sender \in Addresses, NEW s \in SubmissionIds,
           ClaimReward(sender, s)
    PROVE  EscrowStep
<1> SUFFICES ASSUME NEW b, b = submissions[s].bounty_id PROVE EscrowStep
    OBVIOUS
<1>1. /\ b \in BountyIds
      /\ CanClaim(sender, s)
      /\ UNCHANGED <<bounty_count, challengeVars, moneyVars>>
      /\ \A t \in SubmissionIds \ {s} : SupersededIfUndecided(b, t)
      /\ SameEntry(s)
      /\ submissions'[s].reward_amount = bounties[b].reward
      /\ submissions'[s].reward_status = "PENDING"
      /\ OtherBountiesKept(b)
      /\ bounties'[b].status = "FILLED"
      /\ bounties'[b].has_winner
      /\ bounties'[b].winner_submission_id = s
    BY SettledParts, ClaimRewardEffect
<1>2. submissions[s].status = "APPROVED_PENDING" /\ bounties[b].status = "LOCKED"
    BY <1>1, Zenon DEF CanClaim
<1>3. b \in BountyIds'
    BY <1>1, IdsKept
<1>4. RewardDeposit(b)' = Recorded(bounties[b].reward, "PENDING", submissions[s].creator)
    <2>1. ~Owed(bounties'[b].refund_status) /\ RewardForm(b)'
        BY <1>1, <1>3, RewardFormsNext DEF Settled, SettlementInv, LiabilityInv
    <2> QED BY <1>1, <2>1 DEF RewardForm, SameEntry
<1>5. submissions[s].creator \in Addresses
    <2>1. submissions[s] \in Submission
        BY SettledParts DEF TypeInv, TypeOK
    <2> QED BY <2>1, Zenon DEF Submission
<1>6. \A t \in SubmissionIds : submissions[t].status = "APPROVED" =>
        submissions'[t].creator = submissions[t].creator /\ SameReward(t)
    BY <1>1, <1>2 DEF SupersededIfUndecided, SameReward
<1> QED BY <1>1, <1>2, <1>4, <1>5, <1>6, RewardReleases

\* A cancellation and an expiry release the reward to the poster.
LEMMA RefundReleases ==
    ASSUME Settled, Settled', NEW b \in BountyIds, bounties[b].status \in {"OPEN", "LOCKED"},
           UNCHANGED <<bounty_count, challengeVars, moneyVars>>, NEW status,
           RefundRecorded(b, status),
           \A s \in SubmissionIds : submissions[s].status = "APPROVED" =>
            submissions'[s].creator = submissions[s].creator /\ SameReward(s)
    PROVE  EscrowStep
<1>1. b \in BountyIds' /\ OtherBountiesKept(b)
    BY IdsKept DEF RefundRecorded
<1>2. RewardDeposit(b)' = Recorded(bounties[b].reward, "PENDING", bounties[b].poster)
    <2>1. RewardForm(b)'
        BY <1>1, RewardFormsNext
    <2> QED BY <2>1 DEF RewardForm, RefundRecorded, SameTerms, Owed
<1>3. bounties[b].poster \in Addresses
    <2>1. bounties[b] \in Bounty
        BY SettledParts DEF TypeInv, TypeOK
    <2> QED BY <2>1, Zenon DEF Bounty
<1> QED BY <1>1, <1>2, <1>3, RewardReleases

\* A cancellation does.
LEMMA CancelBountyReleases ==
    ASSUME Settled, Settled', NEW sender \in Addresses, NEW b \in BountyIds,
           CancelBounty(sender, b)
    PROVE  EscrowStep
<1>1. /\ CanCancel(sender, b)
      /\ UNCHANGED <<bounty_count, submissionVars, challengeVars, moneyVars>>
      /\ RefundRecorded(b, "CANCELLED")
    BY SettledParts, CancelBountyEffect
<1>2. bounties[b].status = "OPEN"
    BY <1>1, Zenon DEF CanCancel
<1> QED BY <1>1, <1>2, RefundReleases DEF SameReward, submissionVars

\* An expiry does, whatever it supersedes.
LEMMA ExpireBountyReleases ==
    ASSUME Settled, Settled', NEW b \in BountyIds, ExpireBounty(b)
    PROVE  EscrowStep
<1>1. /\ CanExpire(b)
      /\ UNCHANGED <<bounty_count, challengeVars, moneyVars>>
      /\ RefundRecorded(b, "EXPIRED")
      /\ \A s \in SubmissionIds : SupersededIfUndecided(b, s)
    BY SettledParts, ExpireBountyEffect
<1>2. bounties[b].status \in {"OPEN", "LOCKED"}
    BY <1>1, Zenon DEF CanExpire
<1>3. \A s \in SubmissionIds : submissions[s].status = "APPROVED" =>
        submissions'[s].creator = submissions[s].creator /\ SameReward(s)
    BY <1>1 DEF SupersededIfUndecided, SameReward
<1> QED BY <1>1, <1>2, <1>3, RefundReleases

\* A winner withdraws the reward of its own bounty, and of no other.
LEMMA WithdrawRewardPays ==
    ASSUME Settled, Settled', NEW sender \in Addresses, NEW s \in SubmissionIds,
           WithdrawReward(sender, s)
    PROVE  EscrowStep
<1> SUFFICES ASSUME NEW b, b = submissions[s].bounty_id,
                    NEW amount, amount = submissions[s].reward_amount,
                    NEW payee, payee = submissions[s].creator
             PROVE  EscrowStep
    OBVIOUS
<1>1. /\ CanWithdrawReward(sender, s)
      /\ UNCHANGED <<bountyVars, submission_count, challengeVars>>
      /\ EmitTransfer(payee, amount)
      /\ OthersKept(s) /\ SameEntry(s)
      /\ submissions'[s].reward_amount = amount
      /\ submissions'[s].reward_status = "WITHDRAWN"
    BY SettledParts, WithdrawRewardEffect
<1>2. BountyIds' = BountyIds /\ UNCHANGED bounties /\ b \in BountyIds
    BY <1>1, SettledParts DEF bountyVars, BountyIds
<1>3. submissions[s].reward_status = "PENDING"
    BY <1>1 DEF CanWithdrawReward
<1>4. /\ bounties[b].has_winner /\ bounties[b].winner_submission_id = s
      /\ ~Owed(bounties[b].refund_status)
    BY <1>2, <1>3, SettledParts DEF LiabilityInv, WinnerInv, Owed
<1>5. RewardDeposit(b) = Recorded(amount, "PENDING", payee)
    BY <1>2, <1>3, <1>4, RewardForms DEF RewardForm
<1>6. RewardDeposit(b)' = Recorded(amount, "WITHDRAWN", payee)
    BY <1>1, <1>2, <1>4, RewardFormsNext DEF RewardForm, SameEntry
<1>7. \A d \in BountyIds \ {b} : RewardDeposit(d)' = RewardDeposit(d)
    BY <1>1, <1>2, RewardsKept
       DEF SameMoney, SameWinner, OthersKept, SameReward, SubmissionsOf
<1>8. /\ <<"reward", b>> \in DOMAIN Deposits
      /\ Deposits' = [Deposits EXCEPT ![<<"reward", b>>] = Recorded(amount, "WITHDRAWN", payee)]
    BY <1>1, <1>2, <1>6, <1>7, UnchangedBonds, OneRewardMoves
<1>9. Deposits[<<"reward", b>>] = Recorded(amount, "PENDING", payee)
    BY <1>2, <1>5, DepositsAre
<1> QED BY <1>1, <1>8, <1>9, StepPays

\* A poster withdraws the refund of its own bounty.
LEMMA WithdrawRefundPays ==
    ASSUME Settled, Settled', NEW sender \in Addresses, NEW b \in BountyIds,
           WithdrawRefund(sender, b)
    PROVE  EscrowStep
<1> SUFFICES ASSUME NEW amount, amount = bounties[b].refund_amount,
                    NEW payee, payee = bounties[b].poster
             PROVE  EscrowStep
    OBVIOUS
<1>1. /\ CanWithdrawRefund(sender, b)
      /\ UNCHANGED <<bounty_count, submissionVars, challengeVars>>
      /\ EmitTransfer(payee, amount)
      /\ OtherBountiesKept(b) /\ SameTerms(b)
      /\ bounties'[b].refund_amount = amount
      /\ bounties'[b].refund_status = "WITHDRAWN"
    BY SettledParts, WithdrawRefundEffect
<1>2. BountyIds' = BountyIds
    BY <1>1, IdsKept
<1>3. bounties[b].refund_status = "PENDING"
    BY <1>1 DEF CanWithdrawRefund
<1>4. RewardDeposit(b) = Recorded(amount, "PENDING", payee)
    BY <1>3, RewardForms DEF RewardForm, Owed
<1>5. RewardDeposit(b)' = Recorded(amount, "WITHDRAWN", payee)
    BY <1>1, <1>2, RewardFormsNext DEF RewardForm, SameTerms, Owed
<1>6. \A d \in BountyIds \ {b} : RewardDeposit(d)' = RewardDeposit(d)
    BY <1>1, <1>2, RewardsKept
       DEF SameMoney, SameWinner, OtherBountiesKept, SameReward, SubmissionsOf, submissionVars
<1>7. /\ <<"reward", b>> \in DOMAIN Deposits
      /\ Deposits' = [Deposits EXCEPT ![<<"reward", b>>] = Recorded(amount, "WITHDRAWN", payee)]
    BY <1>1, <1>2, <1>5, <1>6, UnchangedBonds, OneRewardMoves
<1>8. Deposits[<<"reward", b>>] = Recorded(amount, "PENDING", payee)
    BY <1>4, DepositsAre
<1> QED BY <1>1, <1>7, <1>8, StepPays

\* Whoever a bond was routed to withdraws it.
LEMMA WithdrawBondPays ==
    ASSUME Settled, Settled', NEW sender \in Addresses, NEW c \in ChallengeIds,
           WithdrawBond(sender, c)
    PROVE  EscrowStep
<1> SUFFICES ASSUME NEW amount, amount = challenges[c].bond,
                    NEW payee, payee = challenges[c].bond_recipient
             PROVE  EscrowStep
    OBVIOUS
<1>1. /\ CanWithdrawBond(sender, c)
      /\ UNCHANGED <<bountyVars, submissionVars, challenge_count>>
      /\ EmitTransfer(payee, amount)
      /\ OtherChallengesKept(c) /\ SameDispute(c)
      /\ challenges'[c].bond_recipient = payee
      /\ challenges'[c].bond_status = "WITHDRAWN"
    BY SettledParts, WithdrawBondEffect
<1>2. challenges[c].bond_status = "PENDING"
    BY <1>1 DEF CanWithdrawBond
<1>3. BondDeposit(c) = Recorded(amount, "PENDING", payee)
    BY <1>2 DEF BondDeposit, Recorded
<1>4. BondDeposit(c)' = Recorded(amount, "WITHDRAWN", payee)
    BY <1>1 DEF BondDeposit, Recorded, SameDispute
<1>5. /\ ChallengeIds' = ChallengeIds
      /\ \A d \in ChallengeIds \ {c} : BondDeposit(d)' = BondDeposit(d)
    BY <1>1, IdsKept DEF OtherChallengesKept, BondDeposit
<1>6. /\ BountyIds' = BountyIds
      /\ \A b \in BountyIds : RewardDeposit(b)' = RewardDeposit(b)
    BY <1>1, UnchangedRewards DEF SameReward, submissionVars
<1>7. /\ <<"bond", c>> \in DOMAIN Deposits
      /\ Deposits' = [Deposits EXCEPT ![<<"bond", c>>] = Recorded(amount, "WITHDRAWN", payee)]
    BY <1>4, <1>5, <1>6, OneBondMoves
<1>8. Deposits[<<"bond", c>>] = Recorded(amount, "PENDING", payee)
    BY <1>3, DepositsAre
<1> QED BY <1>1, <1>7, <1>8, StepPays

\* Every step of the contract is a step of BountyEscrow or a stutter.
LEMMA EscrowStepHolds == Settled /\ Settled' /\ [Next]_vars => EscrowStep
<1> SUFFICES ASSUME Settled, Settled', [Next]_vars PROVE EscrowStep
    OBVIOUS
<1>1. ASSUME NEW sender \in Addresses, NEW value \in Rewards, NEW sw \in SubmissionWindows,
             NEW eg \in EvaluationGraces, NEW cw \in ChallengeWindows,
             PostBounty(sender, value, sw, eg, cw)
      PROVE  EscrowStep
    BY <1>1, PostBountyDeposits
<1>2. ASSUME NEW sender \in Addresses, NEW b \in BountyIds, NEW digest \in Digests,
             SubmitContent(sender, b, digest)
      PROVE  EscrowStep
    BY <1>2, SubmitContentStutters
<1>3. ASSUME NEW s \in SubmissionIds, NEW result \in EvaluationResults,
             EvaluateSubmission(s, result)
      PROVE  EscrowStep
    BY <1>3, EvaluateSubmissionStutters
<1>4. ASSUME NEW sender \in Addresses, NEW s \in SubmissionIds, NEW reason \in ChallengeReasons,
             NEW digest \in Digests, ChallengeSubmission(sender, s, reason, digest)
      PROVE  EscrowStep
    BY <1>4, ChallengeSubmissionDeposits
<1>5. ASSUME NEW c \in ChallengeIds, NEW result \in ReviewResults, ReviewChallenge(c, result)
      PROVE  EscrowStep
    BY <1>5, ReviewChallengeStutters
<1>6. ASSUME NEW c \in ChallengeIds, FinalizeChallenge(c) \/ TimeoutChallenge(c)
      PROVE  EscrowStep
    BY <1>6, UpholdChallengeReleases, ChallengeClosedReleases DEF FinalizeChallenge
<1>7. ASSUME NEW sender \in Addresses, NEW s \in SubmissionIds,
             ClaimReward(sender, s) \/ WithdrawReward(sender, s)
      PROVE  EscrowStep
    BY <1>7, ClaimRewardReleases, WithdrawRewardPays
<1>8. ASSUME NEW sender \in Addresses, NEW b \in BountyIds,
             CancelBounty(sender, b) \/ WithdrawRefund(sender, b)
      PROVE  EscrowStep
    BY <1>8, CancelBountyReleases, WithdrawRefundPays
<1>9. ASSUME NEW b \in BountyIds, ExpireBounty(b) PROVE EscrowStep
    BY <1>9, ExpireBountyReleases
<1>10. ASSUME NEW sender \in Addresses, NEW c \in ChallengeIds, WithdrawBond(sender, c)
       PROVE  EscrowStep
    BY <1>10, WithdrawBondPays
<1>11. CASE Tick \/ UNCHANGED vars
    <2>1. UNCHANGED <<bountyVars, submissionVars, challengeVars, moneyVars>>
        BY <1>11 DEF Tick, vars
    <2> QED
        BY <2>1, UnchangedRewards, UnchangedBonds, NothingMoves, StepStutters
           DEF SameReward, submissionVars
<1> QED BY <1>1, <1>2, <1>3, <1>4, <1>5, <1>6, <1>7, <1>8, <1>9, <1>10, <1>11 DEF Next

-----------------------------------------------------------------------------
\* Each reward and each bond is owed to one account, once, in full, and paid
\* at most once: no post, challenge, settlement, expiry or withdrawal, in any
\* order, moves value otherwise.
THEOREM EscrowImplemented == Spec => ImplementsEscrow
<1>1. Init => Escrow!Init
    <2> SUFFICES ASSUME Init PROVE Escrow!Init
        OBVIOUS
    <2>1. BountyIds = {} /\ ChallengeIds = {}
        BY DEF Init, BountyIds, ChallengeIds
    <2>2. Deposits = [d \in {} |-> {}]
        BY <2>1 DEF Deposits
    <2> QED BY <2>2 DEF Init, Escrow!Init
<1>2. Settled /\ Settled' /\ [Next]_vars => [Escrow!Next]_(Escrow!vars)
    BY EscrowStepHolds DEF EscrowStep, Escrow!vars
<1> QED BY <1>1, <1>2, SettledInvariant, PTL DEF Spec, ImplementsEscrow, Escrow!Spec

-----------------------------------------------------------------------------
(***************************************************************************)
(* Solvency.  The sums of Solvent are folds, defined by recursion over     *)
(* finite sets, so the first half is what a fold is: that its function     *)
(* exists, that the order of the elements makes no difference, and what    *)
(* happens to the sum when one weight changes or one element comes in.     *)
(* Induction over the size of a set is the choice of the least size at     *)
(* which a statement fails (LeastNatural).  The second half says how each  *)
(* method moves the balance and what is owed by the same amount.           *)
(***************************************************************************)

\* Sums over finite sets.

\* The element a fold over a set takes first.
One(s) == CHOOSE x \in s : TRUE

\* g[s] is the sum of the weights w over s, for every s in T, by the equation
\* that defines MapThenSumSet.
SumsUpTo(g, w, T) ==
    g = [s \in T |-> IF s = {} THEN 0 ELSE w[One(s)] + g[s \ {One(s)}]]

\* The sum of the weights w over D.
Total(w, D) == (CHOOSE g : SumsUpTo(g, w, SUBSET D))[D]

\* A set of natural numbers has a least element: induction without a predicate.
LEMMA LeastNatural ==
    ASSUME NEW T, T \subseteq Nat, T # {}
    PROVE  \E n \in T : \A m \in T : n <= m
<1>1. PICK n \in T : \A m \in T : ~(<<m, n>> \in OpToRel(<, Nat))
    BY WFMin, NatLessThanWellFounded, Zenon
<1>2. \A m \in T : ~(m < n)
    BY <1>1 DEF OpToRel
<1> QED BY <1>2

\* The subsets of D with at most n elements.
Smaller(D, n) == {s \in SUBSET D : Cardinality(s) <= n}

\* The recursive definition of a sum defines a function.  The least size of a
\* set that has no sum would be a contradiction.
LEMMA SumFunctionExists ==
    ASSUME NEW D, IsFiniteSet(D), NEW w
    PROVE  \E g : SumsUpTo(g, w, SUBSET D)
<1> DEFINE T == {n \in Nat : ~\E g : SumsUpTo(g, w, Smaller(D, n))}
<1>1. ASSUME NEW s \in SUBSET D, s # {}
      PROVE  /\ Cardinality(s) \in Nat \ {0}
             /\ s \ {One(s)} \in SUBSET D
             /\ Cardinality(s \ {One(s)}) = Cardinality(s) - 1
    <2>1. IsFiniteSet(s)
        BY FS_Subset
    <2>2. One(s) \in s
        BY <1>1 DEF One
    <2>3. Cardinality(s) \in Nat
        BY <2>1, FS_CardinalityType
    <2>4. Cardinality(s) # 0
        BY <2>1, <1>1, FS_EmptySet
    <2> QED BY <2>1, <2>2, <2>3, <2>4, FS_RemoveElement
<1>2. 0 \notin T
    <2>1. \A s \in Smaller(D, 0) : s = {}
        <3> SUFFICES ASSUME NEW s \in SUBSET D, s # {}
                     PROVE  ~(Cardinality(s) <= 0)
            BY DEF Smaller
        <3>1. Cardinality(s) \in Nat \ {0}
            BY <1>1
        <3> QED BY <3>1
    <2>2. SumsUpTo([s \in Smaller(D, 0) |-> 0], w, Smaller(D, 0))
        BY <2>1 DEF SumsUpTo
    <2> QED BY <2>2
<1>3. ASSUME NEW n \in Nat, n \notin T
      PROVE  n + 1 \notin T
    <2>1. PICK g : SumsUpTo(g, w, Smaller(D, n))
        BY <1>3
    <2> DEFINE h == [s \in Smaller(D, n + 1) |->
                        IF s = {} THEN 0 ELSE w[One(s)] + g[s \ {One(s)}]]
    <2>2. ASSUME NEW s \in Smaller(D, n)
          PROVE  g[s] = IF s = {} THEN 0 ELSE w[One(s)] + g[s \ {One(s)}]
        BY <2>1, Zenon DEF SumsUpTo
    <2>3. Smaller(D, n) \subseteq Smaller(D, n + 1)
        <3>1. \A s \in SUBSET D : Cardinality(s) <= n => Cardinality(s) <= n + 1
            <4> SUFFICES ASSUME NEW s \in SUBSET D
                         PROVE  Cardinality(s) \in Nat
                OBVIOUS
            <4> QED BY FS_Subset, FS_CardinalityType
        <3> QED BY <3>1 DEF Smaller
    <2>4. ASSUME NEW s \in Smaller(D, n)
          PROVE  h[s] = g[s]
        BY <2>2, <2>3, Zenon
    <2>5. ASSUME NEW s \in Smaller(D, n + 1), s # {}
          PROVE  g[s \ {One(s)}] = h[s \ {One(s)}]
        <3>1. s \ {One(s)} \in Smaller(D, n)
            BY <1>1, <2>5 DEF Smaller
        <3> QED BY <2>4, <3>1, Zenon
    <2>6. SumsUpTo(h, w, Smaller(D, n + 1))
        <3>1. h = [s \in Smaller(D, n + 1) |->
                        IF s = {} THEN 0 ELSE w[One(s)] + h[s \ {One(s)}]]
            <4> SUFFICES ASSUME NEW s \in Smaller(D, n + 1)
                         PROVE  (IF s = {} THEN 0 ELSE w[One(s)] + g[s \ {One(s)}])
                                = IF s = {} THEN 0 ELSE w[One(s)] + h[s \ {One(s)}]
                BY Zenon
            <4> HIDE DEF h
            <4> QED BY <2>5, Zenon
        <3> QED BY <3>1, Zenon DEF SumsUpTo
    <2> QED BY <2>6, Zenon
<1>4. T = {}
    <2> SUFFICES ASSUME T # {} PROVE FALSE
        OBVIOUS
    <2>1. PICK n \in T : \A m \in T : n <= m
        <3> HIDE DEF T
        <3>1. T \subseteq Nat
            BY DEF T
        <3> QED BY <3>1, LeastNatural, Zenon
    <2>2. n \in Nat /\ n # 0
        BY <2>1, <1>2
    <2>3. n - 1 \in Nat /\ n - 1 \notin T /\ n = (n - 1) + 1
        <3> HIDE DEF T
        <3> QED BY <2>1, <2>2
    <2> HIDE DEF T
    <2> QED BY <1>3, <2>1, <2>3
<1>5. Cardinality(D) \in Nat
    BY FS_CardinalityType
<1>6. Smaller(D, Cardinality(D)) = SUBSET D
    <2> SUFFICES ASSUME NEW s \in SUBSET D
                 PROVE  Cardinality(s) <= Cardinality(D)
        BY DEF Smaller
    <2> QED BY FS_Subset
<1>7. \E g : SumsUpTo(g, w, Smaller(D, Cardinality(D)))
    BY <1>4, <1>5
<1> QED BY <1>6, <1>7, Zenon

\* Its equation, at one set.
LEMMA SumsStep ==
    ASSUME NEW D, NEW w, NEW g, SumsUpTo(g, w, SUBSET D), NEW s \in SUBSET D
    PROVE  g[s] = IF s = {} THEN 0 ELSE w[One(s)] + g[s \ {One(s)}]
BY Zenon DEF SumsUpTo

\* Two such functions agree where they have the same weights.
LEMMA SumsAgree ==
    ASSUME NEW D, NEW E, NEW w, NEW v, NEW g, NEW h,
           SumsUpTo(g, w, SUBSET D), SumsUpTo(h, v, SUBSET E),
           NEW S, S \subseteq D, S \subseteq E, IsFiniteSet(S), \A x \in S : w[x] = v[x]
    PROVE  g[S] = h[S]
<1> DEFINE Bad == {s \in SUBSET S : g[s] # h[s]}
           T == {Cardinality(s) : s \in Bad}
<1>1. SUFFICES ASSUME g[S] # h[S] PROVE FALSE
    OBVIOUS
<1>2. S \in Bad
    BY <1>1
<1>3. \A s \in SUBSET S : IsFiniteSet(s) /\ Cardinality(s) \in Nat
    BY FS_Subset, FS_CardinalityType
<1>4. T \subseteq Nat /\ T # {}
    BY <1>2, <1>3
<1>5. PICK n \in T : \A m \in T : n <= m
    <2> HIDE DEF T
    <2> QED BY <1>4, LeastNatural, Zenon
<1>6. PICK s \in Bad : Cardinality(s) = n
    OBVIOUS
<1>7. s # {}
    <2> SUFFICES ASSUME s = {} PROVE FALSE
        OBVIOUS
    <2>1. {} \in SUBSET D /\ {} \in SUBSET E
        OBVIOUS
    <2>2. g[{}] = 0 /\ h[{}] = 0
        BY <2>1, SumsStep, Zenon
    <2> QED BY <2>2
<1>8. One(s) \in s
    BY <1>7 DEF One
<1> DEFINE r == s \ {One(s)}
<1>9. r \in SUBSET S /\ Cardinality(r) = Cardinality(s) - 1
    BY <1>3, <1>8, FS_RemoveElement
<1>10. g[r] = h[r]
    <2> SUFFICES ASSUME r \in Bad PROVE FALSE
        BY <1>9
    <2>1. n <= Cardinality(r)
        BY <1>5
    <2>2. Cardinality(s) \in Nat
        BY <1>3
    <2> HIDE DEF T, Bad, r
    <2> QED BY <2>1, <2>2, <1>6, <1>9
<1>11. s \in SUBSET D /\ s \in SUBSET E /\ w[One(s)] = v[One(s)]
    BY <1>8
<1>12. g[s] = w[One(s)] + g[r]
    BY <1>7, <1>11, SumsStep
<1>14. h[s] = v[One(s)] + h[r]
    BY <1>7, <1>11, SumsStep
<1>13. g[s] = h[s]
    <2> HIDE DEF T, Bad, r
    <2> QED BY <1>10, <1>11, <1>12, <1>14
<1> QED BY <1>13

\* Total is a value of such a function.
LEMMA TotalIsASum ==
    ASSUME NEW D, IsFiniteSet(D), NEW w
    PROVE  \E g : SumsUpTo(g, w, SUBSET D) /\ Total(w, D) = g[D]
<1> DEFINE h == CHOOSE f : SumsUpTo(f, w, SUBSET D)
<1>1. SumsUpTo(h, w, SUBSET D)
    BY SumFunctionExists, Zenon
<1>2. Total(w, D) = h[D]
    BY Zenon DEF Total
<1> HIDE DEF h
<1> QED BY <1>1, <1>2

\* Total is the value of every such function.
LEMMA TotalIs ==
    ASSUME NEW D, IsFiniteSet(D), NEW w, NEW E, NEW g,
           SumsUpTo(g, w, SUBSET E), D \subseteq E
    PROVE  Total(w, D) = g[D]
<1>1. PICK h : SumsUpTo(h, w, SUBSET D) /\ Total(w, D) = h[D]
    BY TotalIsASum, Zenon
<1>2. D \subseteq D /\ \A x \in D : w[x] = w[x]
    OBVIOUS
<1>3. h[D] = g[D]
    BY <1>1, <1>2, SumsAgree
<1> QED BY <1>1, <1>3

\* Equal weights have equal totals.
LEMMA TotalAgrees ==
    ASSUME NEW D, IsFiniteSet(D), NEW w, NEW v, \A x \in D : w[x] = v[x]
    PROVE  Total(w, D) = Total(v, D)
<1>1. PICK g : SumsUpTo(g, w, SUBSET D) /\ Total(w, D) = g[D]
    BY TotalIsASum, Zenon
<1>2. PICK h : SumsUpTo(h, v, SUBSET D) /\ Total(v, D) = h[D]
    BY TotalIsASum, Zenon
<1>3. D \subseteq D
    OBVIOUS
<1>4. g[D] = h[D]
    BY <1>1, <1>2, <1>3, SumsAgree
<1> QED BY <1>1, <1>2, <1>4

\* Nothing sums to 0.
LEMMA TotalEmpty ==
    ASSUME NEW w
    PROVE  Total(w, {}) = 0
<1>1. PICK g : SumsUpTo(g, w, SUBSET {})
    BY SumFunctionExists, FS_EmptySet, Zenon
<1>2. g[{}] = 0
    <2>1. {} \in SUBSET {}
        OBVIOUS
    <2> QED BY <1>1, <2>1, SumsStep, Zenon
<1> QED BY <1>1, <1>2, TotalIs, FS_EmptySet, Zenon

\* One step of the fold.
LEMMA TotalOfOne ==
    ASSUME NEW D, IsFiniteSet(D), D # {}, NEW w
    PROVE  One(D) \in D /\ Total(w, D) = w[One(D)] + Total(w, D \ {One(D)})
<1>1. One(D) \in D
    BY DEF One
<1>2. IsFiniteSet(D \ {One(D)})
    BY FS_RemoveElement
<1>3. PICK g : SumsUpTo(g, w, SUBSET D)
    BY SumFunctionExists, Zenon
<1>4. D \in SUBSET D /\ D \ {One(D)} \subseteq D /\ D \subseteq D
    OBVIOUS
<1>5. Total(w, D) = g[D]
    BY <1>3, <1>4, TotalIs, Zenon
<1>6. Total(w, D \ {One(D)}) = g[D \ {One(D)}]
    <2> DEFINE r == D \ {One(D)}
    <2>1. IsFiniteSet(r) /\ r \subseteq D
        BY <1>2, <1>4
    <2> HIDE DEF r
    <2>2. Total(w, r) = g[r]
        BY <1>3, <2>1, TotalIs, Zenon
    <2> QED BY <2>2 DEF r
<1>7. g[D] = w[One(D)] + g[D \ {One(D)}]
    BY <1>3, <1>4, SumsStep
<1> QED BY <1>1, <1>5, <1>6, <1>7, Zenon

\* A total is an integer, and any element may be taken out of it first.
TotalTakesOut(w, D) ==
    /\ Total(w, D) \in Int
    /\ \A d \in D : Total(w, D) = w[d] + Total(w, D \ {d})

\* The order in which a fold takes the elements makes no difference.
LEMMA TotalTakeOut ==
    ASSUME NEW S, IsFiniteSet(S), NEW w, \A x \in S : w[x] \in Int
    PROVE  TotalTakesOut(w, S)
<1> DEFINE Bad == {s \in SUBSET S : ~TotalTakesOut(w, s)}
           T == {Cardinality(s) : s \in Bad}
<1>1. SUFFICES ASSUME S \in Bad PROVE FALSE
    OBVIOUS
<1>3. \A s \in SUBSET S : IsFiniteSet(s) /\ Cardinality(s) \in Nat
    BY FS_Subset, FS_CardinalityType
<1>4. T \subseteq Nat /\ T # {}
    BY <1>1, <1>3
<1>5. PICK n \in T : \A m \in T : n <= m
    <2> HIDE DEF T
    <2> QED BY <1>4, LeastNatural, Zenon
<1>6. PICK s \in Bad : Cardinality(s) = n
    OBVIOUS
<1>7. ASSUME NEW r \in SUBSET S, Cardinality(r) < Cardinality(s)
      PROVE  TotalTakesOut(w, r)
    <2> SUFFICES ASSUME r \in Bad PROVE FALSE
        BY <1>7
    <2>1. n <= Cardinality(r)
        BY <1>5
    <2>2. Cardinality(s) \in Nat /\ Cardinality(r) \in Nat
        BY <1>3
    <2> HIDE DEF T, Bad
    <2> QED BY <2>1, <2>2, <1>6, <1>7
<1>8. IsFiniteSet(s) /\ s \subseteq S
    BY <1>3
<1>9. ASSUME NEW r \in SUBSET s, NEW x \in r
      PROVE  /\ r \ {x} \in SUBSET S
             /\ Cardinality(r \ {x}) = Cardinality(r) - 1
             /\ Cardinality(r) <= Cardinality(s)
             /\ Cardinality(r) \in Nat /\ Cardinality(s) \in Nat
    BY <1>3, <1>8, FS_RemoveElement, FS_Subset
<1>10. ASSUME s = {}
      PROVE  TotalTakesOut(w, s)
    BY <1>10, TotalEmpty DEF TotalTakesOut
<1>11. ASSUME s # {}
      PROVE  TotalTakesOut(w, s)
    <2> DEFINE x == One(s)
    <2>1. x \in s /\ Total(w, s) = w[x] + Total(w, s \ {x})
        BY <1>8, <1>11, TotalOfOne, Zenon
    <2> HIDE DEF x, Bad
    <2>2. \A r \in SUBSET s : \A y \in r : TotalTakesOut(w, r \ {y})
        <3> SUFFICES ASSUME NEW r \in SUBSET s, NEW y \in r
                     PROVE  TotalTakesOut(w, r \ {y})
            OBVIOUS
        <3>1. Cardinality(r \ {y}) < Cardinality(s)
            BY <1>9
        <3>2. r \ {y} \in SUBSET S
            BY <1>9
        <3> QED BY <3>1, <3>2, <1>7, Zenon
    <2>3. w[x] \in Int /\ TotalTakesOut(w, s \ {x})
        BY <2>1, <2>2, <1>8
    <2>4. Total(w, s) \in Int
        BY <2>1, <2>3 DEF TotalTakesOut
    <2>5. ASSUME NEW d \in s
          PROVE  Total(w, s) = w[d] + Total(w, s \ {d})
        <3>1. CASE d = x
            BY <3>1, <2>1
        <3>2. CASE d # x
            <4>1. d \in s \ {x} /\ x \in s \ {d} /\ w[d] \in Int
                BY <2>1, <3>2, <1>8
            <4>2. Total(w, s \ {x}) = w[d] + Total(w, (s \ {x}) \ {d})
                BY <4>1, <2>3, Zenon DEF TotalTakesOut
            <4>3. TotalTakesOut(w, s \ {d})
                BY <2>2
            <4>4. Total(w, s \ {d}) = w[x] + Total(w, (s \ {d}) \ {x})
                BY <4>1, <4>3, Zenon DEF TotalTakesOut
            <4>5. (s \ {d}) \ {x} = (s \ {x}) \ {d}
                OBVIOUS
            <4>6. TotalTakesOut(w, (s \ {x}) \ {d})
                BY <4>1, <2>2
            <4>7. Total(w, (s \ {x}) \ {d}) \in Int
                BY <4>6 DEF TotalTakesOut
            <4> DEFINE rest == Total(w, (s \ {x}) \ {d})
            <4>8. Total(w, s) = w[x] + (w[d] + rest)
                BY <2>1, <4>2, Zenon
            <4>9. Total(w, s \ {d}) = w[x] + rest
                BY <4>4, <4>5, Zenon
            <4>10. rest \in Int
                BY <4>7
            <4> HIDE DEF rest
            <4>11. w[x] + (w[d] + rest) = w[d] + (w[x] + rest)
                BY <2>3, <4>1, <4>10
            <4> QED BY <4>8, <4>9, <4>11, Zenon
        <3> QED BY <3>1, <3>2
    <2> QED BY <2>4, <2>5 DEF TotalTakesOut
<1>12. TotalTakesOut(w, s)
    BY <1>10, <1>11
<1> QED BY <1>12

\* Elements of weight 0 make no difference.
LEMMA TotalOfSome ==
    ASSUME NEW D, IsFiniteSet(D), NEW w, \A x \in D : w[x] \in Int,
           NEW S, S \subseteq D, \A x \in D \ S : w[x] = 0
    PROVE  Total(w, D) = Total(w, S)
<1> DEFINE Bad == {r \in SUBSET D : S \subseteq r /\ Total(w, r) # Total(w, S)}
           T == {Cardinality(r) : r \in Bad}
<1>1. SUFFICES ASSUME D \in Bad PROVE FALSE
    OBVIOUS
<1>2. \A r \in SUBSET D : IsFiniteSet(r) /\ Cardinality(r) \in Nat
    BY FS_Subset, FS_CardinalityType
<1>3. T \subseteq Nat /\ T # {}
    BY <1>1, <1>2
<1>4. PICK n \in T : \A m \in T : n <= m
    <2> HIDE DEF T
    <2> QED BY <1>3, LeastNatural, Zenon
<1>5. PICK r \in Bad : Cardinality(r) = n
    OBVIOUS
<1>6. PICK d \in r : d \notin S
    BY <1>5
<1>7. /\ IsFiniteSet(r) /\ Cardinality(r) \in Nat /\ w[d] = 0
      /\ r \ {d} \in SUBSET D /\ S \subseteq r \ {d}
    BY <1>2, <1>6
<1>8. Cardinality(r \ {d}) = Cardinality(r) - 1
    BY <1>6, <1>7, FS_RemoveElement
<1>9. Total(w, r \ {d}) = Total(w, S)
    <2> SUFFICES ASSUME r \ {d} \in Bad PROVE FALSE
        BY <1>7
    <2>1. n <= Cardinality(r \ {d})
        BY <1>4
    <2> HIDE DEF T, Bad
    <2> QED BY <2>1, <1>5, <1>7, <1>8
<1>10. \A x \in r : w[x] \in Int
    OBVIOUS
<1>11. TotalTakesOut(w, r)
    BY <1>7, <1>10, TotalTakeOut, Zenon
<1>12. Total(w, r) = w[d] + Total(w, r \ {d}) /\ Total(w, r) \in Int
    BY <1>6, <1>11, Zenon DEF TotalTakesOut
<1>13. \A x \in r \ {d} : w[x] \in Int
    OBVIOUS
<1>14. IsFiniteSet(r \ {d})
    BY <1>7, FS_RemoveElement
<1>15. Total(w, r \ {d}) \in Int
    <2> DEFINE q == r \ {d}
    <2>1. IsFiniteSet(q) /\ \A x \in q : w[x] \in Int
        BY <1>13, <1>14
    <2> HIDE DEF q
    <2>2. Total(w, q) \in Int
        BY <2>1, TotalTakeOut, Zenon DEF TotalTakesOut
    <2> QED BY <2>2 DEF q
<1>16. Total(w, r) = Total(w, S)
    <2> HIDE DEF T, Bad
    <2> QED BY <1>7, <1>9, <1>12, <1>15
<1> QED BY <1>16

\* A weight that changes changes the total by as much.
LEMMA TotalChanges ==
    ASSUME NEW D, IsFiniteSet(D), NEW w, NEW v, NEW d \in D,
           \A x \in D : w[x] \in Int /\ v[x] \in Int, \A x \in D : x # d => w[x] = v[x]
    PROVE  /\ Total(w, D) \in Int
           /\ Total(v, D) = Total(w, D) + (v[d] - w[d])
<1> DEFINE r == D \ {d}
<1>1. IsFiniteSet(r) /\ \A x \in r : w[x] = v[x] /\ w[x] \in Int /\ v[x] \in Int
    BY FS_RemoveElement
<1>2. w[d] \in Int /\ v[d] \in Int
    OBVIOUS
<1>3. TotalTakesOut(w, D) /\ TotalTakesOut(v, D)
    BY TotalTakeOut
<1>4. /\ Total(w, D) \in Int
      /\ Total(w, D) = w[d] + Total(w, r)
      /\ Total(v, D) = v[d] + Total(v, r)
    BY <1>3, Zenon DEF TotalTakesOut
<1> HIDE DEF r
<1>5. Total(w, r) = Total(v, r)
    BY <1>1, TotalAgrees
<1>6. Total(w, r) \in Int
    BY <1>1, TotalTakeOut DEF TotalTakesOut
<1> QED BY <1>2, <1>4, <1>5, <1>6

\* A new element adds its weight.
LEMMA TotalGrows ==
    ASSUME NEW D, IsFiniteSet(D), NEW w, NEW v, NEW d, d \notin D, NEW E, E = D \cup {d},
           \A x \in D : w[x] \in Int /\ w[x] = v[x], v[d] \in Int
    PROVE  /\ Total(w, D) \in Int
           /\ Total(v, E) = Total(w, D) + v[d]
<1>1. IsFiniteSet(E) /\ d \in E /\ E \ {d} = D /\ \A x \in E : v[x] \in Int
    BY FS_AddElement
<1>2. TotalTakesOut(v, E)
    BY <1>1, TotalTakeOut
<1>3. Total(v, E) = v[d] + Total(v, D)
    BY <1>1, <1>2 DEF TotalTakesOut
<1>4. Total(w, D) = Total(v, D)
    BY TotalAgrees
<1>5. Total(w, D) \in Int
    BY TotalTakeOut DEF TotalTakesOut
<1> QED BY <1>3, <1>4, <1>5

-----------------------------------------------------------------------------
\* What the contract owes, as four totals over its records.

Escrowed == [b \in BountyIds |-> bounties[b].escrow_balance]

RefundsDue ==
    [b \in BountyIds |-> IF bounties[b].refund_status = "PENDING"
                         THEN bounties[b].refund_amount ELSE 0]

RewardsDue ==
    [s \in SubmissionIds |-> IF submissions[s].reward_status = "PENDING"
                             THEN submissions[s].reward_amount ELSE 0]

BondsHeld ==
    [c \in ChallengeIds |-> IF challenges[c].bond_status \in {"ESCROWED", "PENDING"}
                            THEN challenges[c].bond ELSE 0]

\* get_escrow_accounting adds them up.
OwedOfBounties == Total(Escrowed, BountyIds) + Total(RefundsDue, BountyIds)

OwedToWinners == Total(RewardsDue, SubmissionIds)

OwedOfBonds == Total(BondsHeld, ChallengeIds)

Owes == OwedOfBounties + OwedToWinners + OwedOfBonds

\* There are finitely many records, and their amounts are integers.
LEMMA AmountTypes ==
    ASSUME TypeInv
    PROVE  /\ IsFiniteSet(BountyIds) /\ IsFiniteSet(SubmissionIds) /\ IsFiniteSet(ChallengeIds)
           /\ \A b \in BountyIds : Escrowed[b] \in Int /\ RefundsDue[b] \in Int
           /\ \A s \in SubmissionIds : RewardsDue[s] \in Int
           /\ \A c \in ChallengeIds : BondsHeld[c] \in Int
<1>1. IsFiniteSet(BountyIds) /\ IsFiniteSet(SubmissionIds) /\ IsFiniteSet(ChallengeIds)
    BY FS_Interval DEF TypeInv, TypeOK, BountyIds, SubmissionIds, ChallengeIds
<1>2. \A b \in BountyIds : bounties[b].escrow_balance \in Nat /\ bounties[b].refund_amount \in Nat
    <2> SUFFICES ASSUME NEW b \in BountyIds
                 PROVE  bounties[b].escrow_balance \in Nat /\ bounties[b].refund_amount \in Nat
        OBVIOUS
    <2>1. bounties[b] \in Bounty
        BY DEF TypeInv, TypeOK
    <2> QED BY <2>1, ZenonT(60) DEF Bounty
<1>3. \A s \in SubmissionIds : submissions[s].reward_amount \in Nat
    <2> SUFFICES ASSUME NEW s \in SubmissionIds PROVE submissions[s].reward_amount \in Nat
        OBVIOUS
    <2>1. submissions[s] \in Submission
        BY DEF TypeInv, TypeOK
    <2> QED BY <2>1, ZenonT(60) DEF Submission
<1>4. \A c \in ChallengeIds : challenges[c].bond \in Nat
    <2> SUFFICES ASSUME NEW c \in ChallengeIds PROVE challenges[c].bond \in Nat
        OBVIOUS
    <2>1. challenges[c] \in Challenge
        BY DEF TypeInv, TypeOK
    <2> QED BY <2>1, ZenonT(60) DEF Challenge
<1> QED BY <1>1, <1>2, <1>3, <1>4 DEF Escrowed, RefundsDue, RewardsDue, BondsHeld

\* The sums the view computes are those totals.
LEMMA OwesIsExpected ==
    ASSUME TypeInv
    PROVE  ExpectedNativeBalance = Owes
<1>1. MapThenSumSet(LAMBDA b : bounties[b].escrow_balance, BountyIds) = Total(Escrowed, BountyIds)
    <2>1. \A T \in SUBSET BountyIds : T # {} =>
            bounties[CHOOSE x \in T : TRUE].escrow_balance = Escrowed[One(T)]
        BY DEF Escrowed, One
    <2>2. \A f :
            [T \in SUBSET BountyIds |->
                IF T = {} THEN 0
                ELSE bounties[CHOOSE x \in T : TRUE].escrow_balance
                        + f[T \ {CHOOSE x \in T : TRUE}]]
            = [T \in SUBSET BountyIds |->
                IF T = {} THEN 0 ELSE Escrowed[One(T)] + f[T \ {One(T)}]]
        BY <2>1 DEF One
    <2> QED BY <2>2, Zenon DEF Total, SumsUpTo, MapThenSumSet, MapThenFoldSet
<1> DEFINE refunds == {b \in BountyIds : bounties[b].refund_status = "PENDING"}
           rewards == {s \in SubmissionIds : submissions[s].reward_status = "PENDING"}
           bonds == {c \in ChallengeIds : challenges[c].bond_status \in {"ESCROWED", "PENDING"}}
<1>2. MapThenSumSet(LAMBDA b : bounties[b].refund_amount, refunds) = Total(RefundsDue, BountyIds)
    <2>1. \A T \in SUBSET refunds : T # {} =>
            bounties[CHOOSE x \in T : TRUE].refund_amount = RefundsDue[One(T)]
        BY DEF RefundsDue, One
    <2>2. /\ refunds \subseteq BountyIds
          /\ \A b \in BountyIds \ refunds : RefundsDue[b] = 0
        BY DEF RefundsDue
    <2> HIDE DEF refunds
    <2>3. \A f :
            [T \in SUBSET refunds |->
                IF T = {} THEN 0
                ELSE bounties[CHOOSE x \in T : TRUE].refund_amount
                        + f[T \ {CHOOSE x \in T : TRUE}]]
            = [T \in SUBSET refunds |->
                IF T = {} THEN 0 ELSE RefundsDue[One(T)] + f[T \ {One(T)}]]
        BY <2>1 DEF One
    <2>4. MapThenSumSet(LAMBDA b : bounties[b].refund_amount, refunds) = Total(RefundsDue, refunds)
        BY <2>3, Zenon DEF Total, SumsUpTo, MapThenSumSet, MapThenFoldSet
    <2>5. Total(RefundsDue, BountyIds) = Total(RefundsDue, refunds)
        BY <2>2, AmountTypes, TotalOfSome, Zenon
    <2> QED BY <2>4, <2>5, Zenon
<1>3. MapThenSumSet(LAMBDA s : submissions[s].reward_amount, rewards)
        = Total(RewardsDue, SubmissionIds)
    <2>1. \A T \in SUBSET rewards : T # {} =>
            submissions[CHOOSE x \in T : TRUE].reward_amount = RewardsDue[One(T)]
        BY DEF RewardsDue, One
    <2>2. /\ rewards \subseteq SubmissionIds
          /\ \A s \in SubmissionIds \ rewards : RewardsDue[s] = 0
        BY DEF RewardsDue
    <2> HIDE DEF rewards
    <2>3. \A f :
            [T \in SUBSET rewards |->
                IF T = {} THEN 0
                ELSE submissions[CHOOSE x \in T : TRUE].reward_amount
                        + f[T \ {CHOOSE x \in T : TRUE}]]
            = [T \in SUBSET rewards |->
                IF T = {} THEN 0 ELSE RewardsDue[One(T)] + f[T \ {One(T)}]]
        BY <2>1 DEF One
    <2>4. MapThenSumSet(LAMBDA s : submissions[s].reward_amount, rewards)
            = Total(RewardsDue, rewards)
        BY <2>3, Zenon DEF Total, SumsUpTo, MapThenSumSet, MapThenFoldSet
    <2>5. Total(RewardsDue, SubmissionIds) = Total(RewardsDue, rewards)
        BY <2>2, AmountTypes, TotalOfSome, Zenon
    <2> QED BY <2>4, <2>5, Zenon
<1>4. MapThenSumSet(LAMBDA c : challenges[c].bond, bonds) = Total(BondsHeld, ChallengeIds)
    <2>1. \A T \in SUBSET bonds : T # {} =>
            challenges[CHOOSE x \in T : TRUE].bond = BondsHeld[One(T)]
        BY DEF BondsHeld, One
    <2>2. /\ bonds \subseteq ChallengeIds
          /\ \A c \in ChallengeIds \ bonds : BondsHeld[c] = 0
        BY DEF BondsHeld
    <2> HIDE DEF bonds
    <2>3. \A f :
            [T \in SUBSET bonds |->
                IF T = {} THEN 0
                ELSE challenges[CHOOSE x \in T : TRUE].bond + f[T \ {CHOOSE x \in T : TRUE}]]
            = [T \in SUBSET bonds |->
                IF T = {} THEN 0 ELSE BondsHeld[One(T)] + f[T \ {One(T)}]]
        BY <2>1 DEF One
    <2>4. MapThenSumSet(LAMBDA c : challenges[c].bond, bonds) = Total(BondsHeld, bonds)
        BY <2>3, Zenon DEF Total, SumsUpTo, MapThenSumSet, MapThenFoldSet
    <2>5. Total(BondsHeld, ChallengeIds) = Total(BondsHeld, bonds)
        BY <2>2, AmountTypes, TotalOfSome, Zenon
    <2> QED BY <2>4, <2>5, Zenon
<1> QED BY <1>1, <1>2, <1>3, <1>4, Zenon
   DEF ExpectedNativeBalance, Owes, OwedOfBounties, OwedToWinners, OwedOfBonds

\* The totals are integers.
LEMMA OwedTypes ==
    ASSUME TypeInv
    PROVE  OwedOfBounties \in Int /\ OwedToWinners \in Int /\ OwedOfBonds \in Int
<1>1. Total(Escrowed, BountyIds) \in Int /\ Total(RefundsDue, BountyIds) \in Int
    BY AmountTypes, TotalTakeOut DEF TotalTakesOut
<1>2. Total(RewardsDue, SubmissionIds) \in Int /\ Total(BondsHeld, ChallengeIds) \in Int
    BY AmountTypes, TotalTakeOut DEF TotalTakesOut
<1> QED BY <1>1, <1>2 DEF OwedOfBounties, OwedToWinners, OwedOfBonds

-----------------------------------------------------------------------------
\* How the totals change.

\* The amounts in the next state have their types there.
LEMMA AmountTypesNext ==
    TypeInv' =>
        (/\ IsFiniteSet(BountyIds) /\ IsFiniteSet(SubmissionIds) /\ IsFiniteSet(ChallengeIds)
         /\ \A b \in BountyIds : Escrowed[b] \in Int /\ RefundsDue[b] \in Int
         /\ \A s \in SubmissionIds : RewardsDue[s] \in Int
         /\ \A c \in ChallengeIds : BondsHeld[c] \in Int)'
    BY AmountTypes, PTL

\* Bounties whose money stays put.
LEMMA BountiesOweTheSame ==
    ASSUME TypeInv, BountyIds' = BountyIds, \A b \in BountyIds : SameMoney(b)
    PROVE  OwedOfBounties' = OwedOfBounties
<1>1. \A b \in BountyIds : Escrowed[b] = Escrowed'[b] /\ RefundsDue[b] = RefundsDue'[b]
    BY DEF Escrowed, RefundsDue, SameMoney
<1>2. /\ Total(Escrowed, BountyIds) = Total(Escrowed', BountyIds)
      /\ Total(RefundsDue, BountyIds) = Total(RefundsDue', BountyIds)
    BY <1>1, AmountTypes, TotalAgrees
<1> QED BY <1>2 DEF OwedOfBounties

\* One bounty's money moves.
LEMMA OneBountyOwes ==
    ASSUME TypeInv, TypeInv', BountyIds' = BountyIds, NEW b \in BountyIds, OtherBountiesKept(b)
    PROVE  OwedOfBounties' =
            OwedOfBounties + (Escrowed'[b] - Escrowed[b]) + (RefundsDue'[b] - RefundsDue[b])
<1>1. /\ \A d \in BountyIds : d # b => Escrowed[d] = Escrowed'[d]
      /\ \A d \in BountyIds : d # b => RefundsDue[d] = RefundsDue'[d]
    BY DEF Escrowed, RefundsDue, OtherBountiesKept
<1>2. /\ IsFiniteSet(BountyIds)
      /\ \A d \in BountyIds : Escrowed[d] \in Int /\ Escrowed'[d] \in Int
      /\ \A d \in BountyIds : RefundsDue[d] \in Int /\ RefundsDue'[d] \in Int
    BY AmountTypes, AmountTypesNext
<1>3. ASSUME NEW w, NEW v, \A d \in BountyIds : w[d] \in Int /\ v[d] \in Int,
             \A d \in BountyIds : d # b => w[d] = v[d]
      PROVE  /\ Total(w, BountyIds) \in Int
             /\ Total(v, BountyIds) = Total(w, BountyIds) + (v[b] - w[b])
    BY <1>2, <1>3, TotalChanges, Z3
<1>4. /\ Total(Escrowed, BountyIds) \in Int
      /\ Total(Escrowed', BountyIds) = Total(Escrowed, BountyIds) + (Escrowed'[b] - Escrowed[b])
      /\ Total(RefundsDue, BountyIds) \in Int
      /\ Total(RefundsDue', BountyIds) = Total(RefundsDue, BountyIds) + (RefundsDue'[b] - RefundsDue[b])
    BY <1>1, <1>2, <1>3
<1>5. /\ OwedOfBounties = Total(Escrowed, BountyIds) + Total(RefundsDue, BountyIds)
      /\ OwedOfBounties' = Total(Escrowed', BountyIds) + Total(RefundsDue', BountyIds)
    BY DEF OwedOfBounties
<1> QED BY <1>2, <1>3, <1>4, <1>5

\* Submissions whose rewards stay put.
LEMMA WinnersAreOwedTheSame ==
    ASSUME TypeInv, SubmissionIds' = SubmissionIds, \A s \in SubmissionIds : SameReward(s)
    PROVE  OwedToWinners' = OwedToWinners
<1>1. \A s \in SubmissionIds : RewardsDue[s] = RewardsDue'[s]
    BY DEF RewardsDue, SameReward
<1>2. Total(RewardsDue, SubmissionIds) = Total(RewardsDue', SubmissionIds)
    BY <1>1, AmountTypes, TotalAgrees
<1> QED BY <1>2 DEF OwedToWinners

\* One submission's reward moves.
LEMMA OneWinnerIsOwed ==
    ASSUME TypeInv, TypeInv', SubmissionIds' = SubmissionIds, NEW s \in SubmissionIds,
           \A t \in SubmissionIds \ {s} : SameReward(t)
    PROVE  OwedToWinners' = OwedToWinners + (RewardsDue'[s] - RewardsDue[s])
<1>1. \A t \in SubmissionIds : t # s => RewardsDue[t] = RewardsDue'[t]
    BY DEF RewardsDue, SameReward
<1>2. IsFiniteSet(SubmissionIds) /\ \A t \in SubmissionIds : RewardsDue[t] \in Int /\ RewardsDue'[t] \in Int
    BY AmountTypes, AmountTypesNext
<1>3. ASSUME NEW w, NEW v, \A t \in SubmissionIds : w[t] \in Int /\ v[t] \in Int,
             \A t \in SubmissionIds : t # s => w[t] = v[t]
      PROVE  Total(v, SubmissionIds) = Total(w, SubmissionIds) + (v[s] - w[s])
    BY <1>2, <1>3, TotalChanges, Z3
<1> QED BY <1>1, <1>2, <1>3 DEF OwedToWinners

\* Challenges whose bonds stay put.
LEMMA BondsOweTheSame ==
    ASSUME TypeInv, ChallengeIds' = ChallengeIds,
           \A c \in ChallengeIds : BondsHeld'[c] = BondsHeld[c]
    PROVE  OwedOfBonds' = OwedOfBonds
<1>1. Total(BondsHeld, ChallengeIds) = Total(BondsHeld', ChallengeIds)
    BY AmountTypes, TotalAgrees
<1> QED BY <1>1 DEF OwedOfBonds

\* A bond that is routed stays in the contract.
LEMMA RoutedBondsOweTheSame ==
    ASSUME TypeInv, ChallengeIds' = ChallengeIds, NEW c \in ChallengeIds,
           OtherChallengesKept(c), SameDispute(c),
           challenges[c].bond_status \in {"ESCROWED", "PENDING"},
           challenges'[c].bond_status \in {"ESCROWED", "PENDING"}
    PROVE  OwedOfBonds' = OwedOfBonds
    BY BondsOweTheSame DEF BondsHeld, OtherChallengesKept, SameDispute

\* One bond moves.
LEMMA OneBondIsOwed ==
    ASSUME TypeInv, TypeInv', ChallengeIds' = ChallengeIds, NEW c \in ChallengeIds,
           OtherChallengesKept(c)
    PROVE  OwedOfBonds' = OwedOfBonds + (BondsHeld'[c] - BondsHeld[c])
<1>1. \A d \in ChallengeIds : d # c => BondsHeld[d] = BondsHeld'[d]
    BY DEF BondsHeld, OtherChallengesKept
<1>2. IsFiniteSet(ChallengeIds) /\ \A d \in ChallengeIds : BondsHeld[d] \in Int /\ BondsHeld'[d] \in Int
    BY AmountTypes, AmountTypesNext
<1>3. ASSUME NEW w, NEW v, \A d \in ChallengeIds : w[d] \in Int /\ v[d] \in Int,
             \A d \in ChallengeIds : d # c => w[d] = v[d]
      PROVE  Total(v, ChallengeIds) = Total(w, ChallengeIds) + (v[c] - w[c])
    BY <1>2, <1>3, TotalChanges, Z3
<1> QED BY <1>1, <1>2, <1>3 DEF OwedOfBonds

\* A bounty is posted.
LEMMA NewBountyOwes ==
    ASSUME TypeInv, TypeInv', NEW b, b \notin BountyIds, BountyIds' = BountyIds \cup {b},
           \A d \in BountyIds : bounties'[d] = bounties[d]
    PROVE  OwedOfBounties' = OwedOfBounties + Escrowed'[b] + RefundsDue'[b]
<1>1. \A d \in BountyIds : Escrowed[d] = Escrowed'[d] /\ RefundsDue[d] = RefundsDue'[d]
    BY DEF Escrowed, RefundsDue
<1>2. /\ IsFiniteSet(BountyIds)
      /\ \A d \in BountyIds : Escrowed[d] \in Int /\ RefundsDue[d] \in Int
      /\ Escrowed'[b] \in Int /\ RefundsDue'[b] \in Int
    BY AmountTypes, AmountTypesNext
<1>3. ASSUME NEW w, NEW v, \A d \in BountyIds : w[d] \in Int /\ w[d] = v[d], v[b] \in Int
      PROVE  /\ Total(w, BountyIds) \in Int
             /\ Total(v, BountyIds') = Total(w, BountyIds) + v[b]
    BY <1>2, <1>3, TotalGrows
<1>4. /\ Total(Escrowed, BountyIds) \in Int
      /\ Total(Escrowed', BountyIds') = Total(Escrowed, BountyIds) + Escrowed'[b]
    BY <1>1, <1>2, <1>3
<1>5. /\ Total(RefundsDue, BountyIds) \in Int
      /\ Total(RefundsDue', BountyIds') = Total(RefundsDue, BountyIds) + RefundsDue'[b]
    BY <1>1, <1>2, <1>3
<1>6. /\ OwedOfBounties = Total(Escrowed, BountyIds) + Total(RefundsDue, BountyIds)
      /\ OwedOfBounties' = Total(Escrowed', BountyIds') + Total(RefundsDue', BountyIds')
    BY DEF OwedOfBounties
<1> QED BY <1>2, <1>4, <1>5, <1>6

\* A submission is made.
LEMMA NewSubmissionIsOwed ==
    ASSUME TypeInv, TypeInv', NEW s, s \notin SubmissionIds, SubmissionIds' = SubmissionIds \cup {s},
           \A t \in SubmissionIds : submissions'[t] = submissions[t]
    PROVE  OwedToWinners' = OwedToWinners + RewardsDue'[s]
<1>1. \A t \in SubmissionIds : RewardsDue[t] = RewardsDue'[t]
    BY DEF RewardsDue
<1>2. /\ IsFiniteSet(SubmissionIds)
      /\ \A t \in SubmissionIds : RewardsDue[t] \in Int
      /\ RewardsDue'[s] \in Int
    BY AmountTypes, AmountTypesNext
<1>3. ASSUME NEW w, NEW v, \A t \in SubmissionIds : w[t] \in Int /\ w[t] = v[t], v[s] \in Int
      PROVE  Total(v, SubmissionIds') = Total(w, SubmissionIds) + v[s]
    BY <1>2, <1>3, TotalGrows
<1> QED BY <1>1, <1>2, <1>3 DEF OwedToWinners

\* A challenge is made.
LEMMA NewBondIsOwed ==
    ASSUME TypeInv, TypeInv', NEW c, c \notin ChallengeIds, ChallengeIds' = ChallengeIds \cup {c},
           \A d \in ChallengeIds : challenges'[d] = challenges[d]
    PROVE  OwedOfBonds' = OwedOfBonds + BondsHeld'[c]
<1>1. \A d \in ChallengeIds : BondsHeld[d] = BondsHeld'[d]
    BY DEF BondsHeld
<1>2. /\ IsFiniteSet(ChallengeIds)
      /\ \A d \in ChallengeIds : BondsHeld[d] \in Int
      /\ BondsHeld'[c] \in Int
    BY AmountTypes, AmountTypesNext
<1>3. ASSUME NEW w, NEW v, \A d \in ChallengeIds : w[d] \in Int /\ w[d] = v[d], v[c] \in Int
      PROVE  Total(v, ChallengeIds') = Total(w, ChallengeIds) + v[c]
    BY <1>2, <1>3, TotalGrows
<1> QED BY <1>1, <1>2, <1>3 DEF OwedOfBonds

-----------------------------------------------------------------------------
\* What the methods do to the balance and to what is owed.

Balanced == balance = Owes

\* The next state has its types, and its challenges match their outcomes.
LEMMA SettledNext == Settled' => TypeInv'
    BY DEF Settled, ChallengeInv

\* Records that are not written are owed the same.
LEMMA UnwrittenOweTheSame ==
    ASSUME TypeInv
    PROVE  /\ UNCHANGED bountyVars => OwedOfBounties' = OwedOfBounties
           /\ UNCHANGED submissionVars => OwedToWinners' = OwedToWinners
           /\ UNCHANGED challengeVars => OwedOfBonds' = OwedOfBonds
<1>1. UNCHANGED bountyVars => OwedOfBounties' = OwedOfBounties
    BY BountiesOweTheSame DEF bountyVars, BountyIds, SameMoney
<1>2. UNCHANGED submissionVars => OwedToWinners' = OwedToWinners
    BY WinnersAreOwedTheSame DEF submissionVars, SubmissionIds, SameReward
<1>3. UNCHANGED challengeVars => OwedOfBonds' = OwedOfBonds
    BY BondsOweTheSame DEF challengeVars, ChallengeIds, BondsHeld
<1> QED BY <1>1, <1>2, <1>3

\* A post adds its value to both.
LEMMA PostBountyBalances ==
    ASSUME Settled, Settled', Balanced, NEW sender \in Addresses, NEW value \in Rewards,
           NEW sw \in SubmissionWindows, NEW eg \in EvaluationGraces, NEW cw \in ChallengeWindows,
           PostBounty(sender, value, sw, eg, cw)
    PROVE  Balanced'
<1> SUFFICES ASSUME NEW b, b = bounty_count PROVE Balanced'
    OBVIOUS
<1>1. /\ b \notin BountyIds
      /\ BountyIds' = BountyIds \cup {b}
      /\ UNCHANGED <<submissionVars, challengeVars>>
      /\ balance' = balance + value
      /\ \A d \in BountyIds : bounties'[d] = bounties[d]
      /\ bounties'[b].escrow_balance = value
      /\ ~Owed(bounties'[b].refund_status)
    BY PostBountyEffect, SettledParts
<1>2. Escrowed'[b] = value /\ RefundsDue'[b] = 0
    BY <1>1 DEF Escrowed, RefundsDue, Owed
<1>3. OwedOfBounties' = OwedOfBounties + value + 0
    BY <1>1, <1>2, SettledParts, SettledNext, NewBountyOwes
<1>4. OwedToWinners' = OwedToWinners /\ OwedOfBonds' = OwedOfBonds
    BY <1>1, SettledParts, UnwrittenOweTheSame
<1>5. value \in Int
    BY RewardAssumption
<1> QED BY <1>1, <1>3, <1>4, <1>5, SettledParts, OwedTypes DEF Balanced, Owes

\* A submission is owed nothing when it is made.
LEMMA SubmitContentBalances ==
    ASSUME Settled, Settled', Balanced, NEW sender \in Addresses, NEW b \in BountyIds,
           NEW digest \in Digests, SubmitContent(sender, b, digest)
    PROVE  Balanced'
<1> SUFFICES ASSUME NEW s, s = submission_count PROVE Balanced'
    OBVIOUS
<1>1. /\ s \notin SubmissionIds
      /\ SubmissionIds' = SubmissionIds \cup {s}
      /\ UNCHANGED <<bounty_count, challengeVars, moneyVars>>
      /\ \A t \in SubmissionIds : submissions'[t] = submissions[t]
      /\ ~Owed(submissions'[s].reward_status)
      /\ OtherBountiesKept(b) /\ SameMoney(b)
    BY SubmitContentEffect, SettledParts
<1>2. RewardsDue'[s] = 0
    BY <1>1 DEF RewardsDue, Owed
<1>3. OwedToWinners' = OwedToWinners + 0
    BY <1>1, <1>2, SettledParts, SettledNext, NewSubmissionIsOwed
<1>4. OwedOfBounties' = OwedOfBounties
    BY <1>1, SettledParts, IdsKept, BountiesOweTheSame DEF OtherBountiesKept, SameMoney
<1>5. OwedOfBonds' = OwedOfBonds
    BY <1>1, SettledParts, UnwrittenOweTheSame
<1> QED BY <1>1, <1>3, <1>4, <1>5, SettledParts, OwedTypes DEF Balanced, Owes, moneyVars

\* An evaluation moves no value.
LEMMA EvaluateSubmissionBalances ==
    ASSUME Settled, Settled', Balanced, NEW s \in SubmissionIds, NEW result \in EvaluationResults,
           EvaluateSubmission(s, result)
    PROVE  Balanced'
<1> SUFFICES ASSUME NEW b, b = submissions[s].bounty_id PROVE Balanced'
    OBVIOUS
<1>1. /\ b \in BountyIds
      /\ UNCHANGED <<bounty_count, submission_count, challengeVars, moneyVars>>
      /\ OthersKept(s) /\ SameReward(s)
      /\ (OtherBountiesKept(b) /\ SameMoney(b)) \/ UNCHANGED bounties
    BY EvaluateSubmissionEffect, SettledParts
<1>2. OwedToWinners' = OwedToWinners
    BY <1>1, SettledParts, IdsKept, WinnersAreOwedTheSame DEF OthersKept, SameReward
<1>3. OwedOfBounties' = OwedOfBounties
    BY <1>1, SettledParts, IdsKept, BountiesOweTheSame DEF OtherBountiesKept, SameMoney
<1>4. OwedOfBonds' = OwedOfBonds
    BY <1>1, SettledParts, UnwrittenOweTheSame
<1> QED BY <1>1, <1>2, <1>3, <1>4 DEF Balanced, Owes, moneyVars

\* A challenge adds its bond to both.
LEMMA ChallengeSubmissionBalances ==
    ASSUME Settled, Settled', Balanced, NEW sender \in Addresses, NEW s \in SubmissionIds,
           NEW reason \in ChallengeReasons, NEW digest \in Digests,
           ChallengeSubmission(sender, s, reason, digest)
    PROVE  Balanced'
<1> SUFFICES ASSUME NEW c, c = challenge_count + 1,
                    NEW bond, bond = ChallengeBond(bounties[submissions[s].bounty_id].reward)
             PROVE  Balanced'
    OBVIOUS
<1>1. /\ c \notin ChallengeIds
      /\ ChallengeIds' = ChallengeIds \cup {c}
      /\ UNCHANGED <<bountyVars, submission_count>>
      /\ balance' = balance + bond
      /\ OthersKept(s) /\ SameReward(s)
      /\ \A d \in ChallengeIds : challenges'[d] = challenges[d]
      /\ challenges'[c].bond = bond
      /\ challenges'[c].bond_status = "ESCROWED"
    BY ChallengeSubmissionEffect, SettledParts
<1>2. BondsHeld'[c] = bond
    BY <1>1 DEF BondsHeld
<1>3. OwedOfBonds' = OwedOfBonds + bond
    BY <1>1, <1>2, SettledParts, SettledNext, NewBondIsOwed
<1>4. OwedToWinners' = OwedToWinners
    BY <1>1, SettledParts, IdsKept, WinnersAreOwedTheSame DEF OthersKept, SameReward
<1>5. OwedOfBounties' = OwedOfBounties
    BY <1>1, SettledParts, UnwrittenOweTheSame
<1>6. bond \in Int
    BY <1>1, <1>2, SettledNext, AmountTypesNext
<1> QED BY <1>1, <1>3, <1>4, <1>5, <1>6, SettledParts, OwedTypes DEF Balanced, Owes

\* A review, a dismissal, a timeout and an upheld challenge leave the bond in
\* the contract, whoever it now belongs to.
LEMMA ReviewChallengeBalances ==
    ASSUME Settled, Settled', Balanced, NEW c \in ChallengeIds, NEW result, ReviewChallenge(c, result)
    PROVE  Balanced'
<1>1. /\ UNCHANGED <<bountyVars, submissionVars, challenge_count, moneyVars>>
      /\ OtherChallengesKept(c) /\ SameDispute(c)
      /\ challenges'[c].bond_status = challenges[c].bond_status
    BY SettledParts, ReviewChallengeEffect
<1>2. OwedOfBonds' = OwedOfBonds
    BY <1>1, SettledParts, IdsKept, BondsOweTheSame DEF BondsHeld, OtherChallengesKept, SameDispute
<1>3. OwedOfBounties' = OwedOfBounties /\ OwedToWinners' = OwedToWinners
    BY <1>1, SettledParts, UnwrittenOweTheSame
<1> QED BY <1>1, <1>2, <1>3 DEF Balanced, Owes, moneyVars

\* A routed bond is owed to its recipient and no longer in escrow.
LEMMA ChallengeClosedBalances ==
    ASSUME Settled, Settled', Balanced, NEW c \in ChallengeIds,
           \/ FinalizeChallenge(c) /\ DismissChallenge(c)
           \/ TimeoutChallenge(c)
    PROVE  Balanced'
<1> SUFFICES ASSUME NEW s, s = challenges[c].submission_id PROVE Balanced'
    OBVIOUS
<1>1. /\ s \in SubmissionIds
      /\ challenges[c].status = "OPEN"
      /\ UNCHANGED <<bountyVars, submission_count, challenge_count, moneyVars>>
      /\ OtherChallengesKept(c) /\ SameDispute(c)
      /\ challenges'[c].bond_status = "PENDING"
      /\ OthersKept(s) /\ SameReward(s)
    BY SettledParts, ChallengeClosedEffect
<1>2. challenges[c].bond_status = "ESCROWED"
    BY <1>1 DEF Settled, ChallengeInv, BondFollowsOutcome, BondMatchesOutcome
<1>3. OwedOfBonds' = OwedOfBonds
    BY <1>1, <1>2, SettledParts, IdsKept, RoutedBondsOweTheSame
<1>4. OwedToWinners' = OwedToWinners
    BY <1>1, SettledParts, IdsKept, WinnersAreOwedTheSame DEF OthersKept, SameReward
<1>5. OwedOfBounties' = OwedOfBounties
    BY <1>1, SettledParts, UnwrittenOweTheSame
<1> QED BY <1>1, <1>3, <1>4, <1>5 DEF Balanced, Owes, moneyVars

\* An upheld challenge owes its bond; the reward stays in escrow.
LEMMA UpholdChallengeBalances ==
    ASSUME Settled, Settled', Balanced, NEW c \in ChallengeIds,
           FinalizeChallenge(c), UpholdChallenge(c)
    PROVE  Balanced'
<1> SUFFICES ASSUME NEW s, s = challenges[c].submission_id, NEW b, b = challenges[c].bounty_id
             PROVE  Balanced'
    OBVIOUS
<1>1. /\ s \in SubmissionIds /\ b \in BountyIds
      /\ CanFinalize(c)
      /\ UNCHANGED <<bounty_count, submission_count, challenge_count, moneyVars>>
      /\ OtherChallengesKept(c) /\ SameDispute(c)
      /\ challenges'[c].bond_status = "PENDING"
      /\ OthersKept(s) /\ SameReward(s)
      /\ OtherBountiesKept(b) /\ SameMoney(b)
    BY SettledParts, UpholdChallengeEffect
<1>2. challenges[c].bond_status = "ESCROWED"
    BY <1>1 DEF CanFinalize, Settled, ChallengeInv, BondFollowsOutcome, BondMatchesOutcome
<1>3. OwedOfBonds' = OwedOfBonds
    BY <1>1, <1>2, SettledParts, IdsKept, RoutedBondsOweTheSame
<1>4. OwedToWinners' = OwedToWinners
    BY <1>1, SettledParts, IdsKept, WinnersAreOwedTheSame DEF OthersKept, SameReward
<1>5. OwedOfBounties' = OwedOfBounties
    BY <1>1, SettledParts, IdsKept, BountiesOweTheSame DEF OtherBountiesKept, SameMoney
<1> QED BY <1>1, <1>3, <1>4, <1>5 DEF Balanced, Owes, moneyVars

\* A claim turns the escrow of its bounty into a reward.
LEMMA ClaimRewardBalances ==
    ASSUME Settled, Settled', Balanced, NEW sender \in Addresses, NEW s \in SubmissionIds,
           ClaimReward(sender, s)
    PROVE  Balanced'
<1> SUFFICES ASSUME NEW b, b = submissions[s].bounty_id,
                    NEW reward, reward = bounties[b].reward
             PROVE  Balanced'
    OBVIOUS
<1>1. /\ b \in BountyIds
      /\ CanClaim(sender, s)
      /\ UNCHANGED <<bounty_count, submission_count, challengeVars, moneyVars>>
      /\ \A t \in SubmissionIds \ {s} : SupersededIfUndecided(b, t)
      /\ submissions'[s].reward_amount = reward
      /\ submissions'[s].reward_status = "PENDING"
      /\ OtherBountiesKept(b)
      /\ bounties'[b].escrow_balance = 0
      /\ bounties'[b].refund_amount = bounties[b].refund_amount
      /\ bounties'[b].refund_status = bounties[b].refund_status
    BY SettledParts, ClaimRewardEffect
<1>2. submissions[s].status = "APPROVED_PENDING" /\ bounties[b].status = "LOCKED"
    BY <1>1, Zenon DEF CanClaim
<1>3. bounties[b].escrow_balance = reward /\ ~Owed(submissions[s].reward_status)
    BY <1>1, <1>2, SettledParts DEF LiabilityInv
<1>4. BountyIds' = BountyIds /\ SubmissionIds' = SubmissionIds
    BY <1>1, IdsKept
<1>5. Escrowed[b] = reward /\ Escrowed'[b] = 0 /\ RefundsDue'[b] = RefundsDue[b]
    BY <1>1, <1>3, <1>4 DEF Escrowed, RefundsDue
<1>6. RewardsDue[s] = 0 /\ RewardsDue'[s] = reward
    BY <1>1, <1>3, <1>4 DEF RewardsDue, Owed
<1>7. reward \in Int /\ RefundsDue[b] \in Int
    BY <1>1, <1>5, SettledParts, AmountTypes
<1>8. OwedOfBounties' = OwedOfBounties + (0 - reward) + (RefundsDue[b] - RefundsDue[b])
    BY <1>1, <1>4, <1>5, SettledParts, SettledNext, OneBountyOwes
<1>9. \A t \in SubmissionIds \ {s} : SameReward(t)
    BY <1>1 DEF SupersededIfUndecided, SameReward
<1>10. OwedToWinners' = OwedToWinners + (reward - 0)
    BY <1>4, <1>6, <1>9, SettledParts, SettledNext, OneWinnerIsOwed
<1>11. OwedOfBonds' = OwedOfBonds
    BY <1>1, SettledParts, UnwrittenOweTheSame
<1> QED
    BY <1>1, <1>7, <1>8, <1>10, <1>11, SettledParts, OwedTypes DEF Balanced, Owes, moneyVars

\* A cancellation and an expiry turn it into a refund.
LEMMA RefundBalances ==
    ASSUME Settled, Settled', Balanced, NEW b \in BountyIds,
           bounties[b].status \in {"OPEN", "LOCKED"},
           UNCHANGED <<bounty_count, submission_count, challengeVars, moneyVars>>, NEW status,
           RefundRecorded(b, status), \A s \in SubmissionIds : SameReward(s)
    PROVE  Balanced'
<1> SUFFICES ASSUME NEW reward, reward = bounties[b].reward PROVE Balanced'
    OBVIOUS
<1>1. /\ OtherBountiesKept(b)
      /\ bounties'[b].escrow_balance = 0
      /\ bounties'[b].refund_amount = reward
      /\ bounties'[b].refund_status = "PENDING"
    BY DEF RefundRecorded
<1>2. bounties[b].escrow_balance = reward /\ ~Owed(bounties[b].refund_status)
    BY SettledParts DEF LiabilityInv
<1>3. BountyIds' = BountyIds /\ SubmissionIds' = SubmissionIds
    BY IdsKept
<1>4. /\ Escrowed[b] = reward /\ Escrowed'[b] = 0
      /\ RefundsDue[b] = 0 /\ RefundsDue'[b] = reward
    BY <1>1, <1>2, <1>3 DEF Escrowed, RefundsDue, Owed
<1>5. reward \in Int
    BY <1>4, SettledParts, AmountTypes
<1>6. OwedOfBounties' = OwedOfBounties + (0 - reward) + (reward - 0)
    BY <1>1, <1>3, <1>4, SettledParts, SettledNext, OneBountyOwes
<1>7. OwedToWinners' = OwedToWinners /\ OwedOfBonds' = OwedOfBonds
    BY <1>3, SettledParts, WinnersAreOwedTheSame, UnwrittenOweTheSame
<1> QED BY <1>5, <1>6, <1>7, SettledParts, OwedTypes DEF Balanced, Owes, moneyVars

\* A cancelled bounty owes its reward to the poster.
LEMMA CancelBountyBalances ==
    ASSUME Settled, Settled', Balanced, NEW sender \in Addresses, NEW b \in BountyIds,
           CancelBounty(sender, b)
    PROVE  Balanced'
<1>1. /\ CanCancel(sender, b)
      /\ UNCHANGED <<bounty_count, submissionVars, challengeVars, moneyVars>>
      /\ RefundRecorded(b, "CANCELLED")
    BY SettledParts, CancelBountyEffect
<1>2. bounties[b].status = "OPEN"
    BY <1>1, Zenon DEF CanCancel
<1> QED BY <1>1, <1>2, RefundBalances DEF SameReward, submissionVars

\* An expired bounty owes its reward to the poster.
LEMMA ExpireBountyBalances ==
    ASSUME Settled, Settled', Balanced, NEW b \in BountyIds, ExpireBounty(b)
    PROVE  Balanced'
<1>1. /\ CanExpire(b)
      /\ UNCHANGED <<bounty_count, submission_count, challengeVars, moneyVars>>
      /\ RefundRecorded(b, "EXPIRED")
      /\ \A s \in SubmissionIds : SupersededIfUndecided(b, s)
    BY SettledParts, ExpireBountyEffect
<1>2. bounties[b].status \in {"OPEN", "LOCKED"}
    BY <1>1, Zenon DEF CanExpire
<1>3. \A s \in SubmissionIds : SameReward(s)
    BY <1>1 DEF SupersededIfUndecided, SameReward
<1> QED BY <1>1, <1>2, <1>3, RefundBalances

\* A withdrawal takes what it pays off both.
LEMMA WithdrawRewardBalances ==
    ASSUME Settled, Settled', Balanced, NEW sender \in Addresses, NEW s \in SubmissionIds,
           WithdrawReward(sender, s)
    PROVE  Balanced'
<1> SUFFICES ASSUME NEW amount, amount = submissions[s].reward_amount PROVE Balanced'
    OBVIOUS
<1>1. /\ CanWithdrawReward(sender, s)
      /\ UNCHANGED <<bountyVars, submission_count, challengeVars>>
      /\ EmitTransfer(submissions[s].creator, amount)
      /\ OthersKept(s)
      /\ submissions'[s].reward_status = "WITHDRAWN"
    BY SettledParts, WithdrawRewardEffect
<1>2. submissions[s].reward_status = "PENDING"
    BY <1>1 DEF CanWithdrawReward
<1>3. SubmissionIds' = SubmissionIds
    BY <1>1, IdsKept
<1>4. RewardsDue[s] = amount /\ RewardsDue'[s] = 0
    BY <1>1, <1>2, <1>3 DEF RewardsDue
<1>5. amount \in Int
    BY <1>4, SettledParts, AmountTypes
<1>6. \A t \in SubmissionIds \ {s} : SameReward(t)
    BY <1>1 DEF OthersKept, SameReward
<1>7. OwedToWinners' = OwedToWinners + (0 - amount)
    BY <1>3, <1>4, <1>6, SettledParts, SettledNext, OneWinnerIsOwed
<1>8. OwedOfBounties' = OwedOfBounties /\ OwedOfBonds' = OwedOfBonds
    BY <1>1, SettledParts, UnwrittenOweTheSame
<1>9. balance' = balance - amount
    BY <1>1 DEF EmitTransfer
<1> QED BY <1>5, <1>7, <1>8, <1>9, SettledParts, OwedTypes DEF Balanced, Owes

\* A refund leaves the balance and the liabilities by the same amount.
LEMMA WithdrawRefundBalances ==
    ASSUME Settled, Settled', Balanced, NEW sender \in Addresses, NEW b \in BountyIds,
           WithdrawRefund(sender, b)
    PROVE  Balanced'
<1> SUFFICES ASSUME NEW amount, amount = bounties[b].refund_amount PROVE Balanced'
    OBVIOUS
<1>1. /\ CanWithdrawRefund(sender, b)
      /\ UNCHANGED <<bounty_count, submissionVars, challengeVars>>
      /\ EmitTransfer(bounties[b].poster, amount)
      /\ OtherBountiesKept(b)
      /\ bounties'[b].escrow_balance = bounties[b].escrow_balance
      /\ bounties'[b].refund_status = "WITHDRAWN"
    BY SettledParts, WithdrawRefundEffect
<1>2. bounties[b].refund_status = "PENDING"
    BY <1>1 DEF CanWithdrawRefund
<1>3. BountyIds' = BountyIds
    BY <1>1, IdsKept
<1>4. Escrowed'[b] = Escrowed[b] /\ RefundsDue[b] = amount /\ RefundsDue'[b] = 0
    BY <1>1, <1>2, <1>3 DEF Escrowed, RefundsDue
<1>5. amount \in Int /\ Escrowed[b] \in Int
    BY <1>4, SettledParts, AmountTypes
<1>6. OwedOfBounties' = OwedOfBounties + (Escrowed[b] - Escrowed[b]) + (0 - amount)
    BY <1>1, <1>3, <1>4, SettledParts, SettledNext, OneBountyOwes
<1>7. OwedToWinners' = OwedToWinners /\ OwedOfBonds' = OwedOfBonds
    BY <1>1, SettledParts, UnwrittenOweTheSame
<1>8. balance' = balance - amount
    BY <1>1 DEF EmitTransfer
<1> QED BY <1>5, <1>6, <1>7, <1>8, SettledParts, OwedTypes DEF Balanced, Owes

\* So does a bond.
LEMMA WithdrawBondBalances ==
    ASSUME Settled, Settled', Balanced, NEW sender \in Addresses, NEW c \in ChallengeIds,
           WithdrawBond(sender, c)
    PROVE  Balanced'
<1> SUFFICES ASSUME NEW amount, amount = challenges[c].bond PROVE Balanced'
    OBVIOUS
<1>1. /\ CanWithdrawBond(sender, c)
      /\ UNCHANGED <<bountyVars, submissionVars, challenge_count>>
      /\ EmitTransfer(challenges[c].bond_recipient, amount)
      /\ OtherChallengesKept(c)
      /\ challenges'[c].bond_status = "WITHDRAWN"
    BY SettledParts, WithdrawBondEffect
<1>2. challenges[c].bond_status = "PENDING"
    BY <1>1 DEF CanWithdrawBond
<1>3. ChallengeIds' = ChallengeIds
    BY <1>1, IdsKept
<1>4. BondsHeld[c] = amount /\ BondsHeld'[c] = 0
    BY <1>1, <1>2, <1>3 DEF BondsHeld
<1>5. amount \in Int
    BY <1>4, SettledParts, AmountTypes
<1>6. OwedOfBonds' = OwedOfBonds + (0 - amount)
    BY <1>1, <1>3, <1>4, SettledParts, SettledNext, OneBondIsOwed
<1>7. OwedOfBounties' = OwedOfBounties /\ OwedToWinners' = OwedToWinners
    BY <1>1, SettledParts, UnwrittenOweTheSame
<1>8. balance' = balance - amount
    BY <1>1 DEF EmitTransfer
<1> QED BY <1>5, <1>6, <1>7, <1>8, SettledParts, OwedTypes DEF Balanced, Owes

\* Whatever the contract does, its balance is what it owes afterwards.
LEMMA BalanceKept == Settled /\ Settled' /\ Balanced /\ [Next]_vars => Balanced'
<1> SUFFICES ASSUME Settled, Settled', Balanced, [Next]_vars PROVE Balanced'
    OBVIOUS
<1>1. ASSUME NEW sender \in Addresses, NEW value \in Rewards, NEW sw \in SubmissionWindows,
             NEW eg \in EvaluationGraces, NEW cw \in ChallengeWindows,
             PostBounty(sender, value, sw, eg, cw)
      PROVE  Balanced'
    BY <1>1, PostBountyBalances
<1>2. ASSUME NEW sender \in Addresses, NEW b \in BountyIds, NEW digest \in Digests,
             SubmitContent(sender, b, digest)
      PROVE  Balanced'
    BY <1>2, SubmitContentBalances
<1>3. ASSUME NEW s \in SubmissionIds, NEW result \in EvaluationResults,
             EvaluateSubmission(s, result)
      PROVE  Balanced'
    BY <1>3, EvaluateSubmissionBalances
<1>4. ASSUME NEW sender \in Addresses, NEW s \in SubmissionIds, NEW reason \in ChallengeReasons,
             NEW digest \in Digests, ChallengeSubmission(sender, s, reason, digest)
      PROVE  Balanced'
    BY <1>4, ChallengeSubmissionBalances
<1>5. ASSUME NEW c \in ChallengeIds, NEW result \in ReviewResults, ReviewChallenge(c, result)
      PROVE  Balanced'
    BY <1>5, ReviewChallengeBalances
<1>6. ASSUME NEW c \in ChallengeIds, FinalizeChallenge(c) \/ TimeoutChallenge(c)
      PROVE  Balanced'
    BY <1>6, UpholdChallengeBalances, ChallengeClosedBalances DEF FinalizeChallenge
<1>7. ASSUME NEW sender \in Addresses, NEW s \in SubmissionIds,
             ClaimReward(sender, s) \/ WithdrawReward(sender, s)
      PROVE  Balanced'
    BY <1>7, ClaimRewardBalances, WithdrawRewardBalances
<1>8. ASSUME NEW sender \in Addresses, NEW b \in BountyIds,
             CancelBounty(sender, b) \/ WithdrawRefund(sender, b)
      PROVE  Balanced'
    BY <1>8, CancelBountyBalances, WithdrawRefundBalances
<1>9. ASSUME NEW b \in BountyIds, ExpireBounty(b) PROVE Balanced'
    BY <1>9, ExpireBountyBalances
<1>10. ASSUME NEW sender \in Addresses, NEW c \in ChallengeIds, WithdrawBond(sender, c)
       PROVE  Balanced'
    BY <1>10, WithdrawBondBalances
<1>11. CASE Tick \/ UNCHANGED vars
    <2>1. UNCHANGED <<bountyVars, submissionVars, challengeVars, moneyVars>>
        BY <1>11 DEF Tick, vars
    <2> QED BY <2>1, SettledParts, UnwrittenOweTheSame DEF Balanced, Owes, moneyVars
<1> QED BY <1>1, <1>2, <1>3, <1>4, <1>5, <1>6, <1>7, <1>8, <1>9, <1>10, <1>11 DEF Next

\* The contract's native balance is, after every transaction, exactly the sum of
\* what its records say it holds or owes: rewards in escrow, rewards and refunds
\* not withdrawn yet, and bonds not withdrawn yet, as get_escrow_accounting adds
\* them up.
THEOREM ContractIsSolvent == Spec => []Solvent
<1>1. Init => Balanced
    <2> SUFFICES ASSUME Init PROVE Balanced
        OBVIOUS
    <2>1. BountyIds = {} /\ SubmissionIds = {} /\ ChallengeIds = {}
        BY DEF Init, BountyIds, SubmissionIds, ChallengeIds
    <2>2. /\ Total(Escrowed, {}) = 0 /\ Total(RefundsDue, {}) = 0
          /\ Total(RewardsDue, {}) = 0 /\ Total(BondsHeld, {}) = 0
        BY TotalEmpty
    <2>3. OwedOfBounties = 0 + 0 /\ OwedToWinners = 0 /\ OwedOfBonds = 0
        BY <2>1, <2>2 DEF OwedOfBounties, OwedToWinners, OwedOfBonds
    <2> QED BY <2>3 DEF Init, Balanced, Owes
<1>2. Settled /\ Balanced => Solvent
    BY SettledParts, OwesIsExpected DEF Balanced, Solvent
<1> QED BY <1>1, <1>2, BalanceKept, SettledInvariant, PTL DEF Spec
=============================================================================
