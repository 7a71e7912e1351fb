----------------------- MODULE ContentBountyProperties -----------------------
(***************************************************************************)
(* What the ContentBounty contract must get right, whatever is posted,     *)
(* submitted, judged, challenged and withdrawn, in whatever order.         *)
(***************************************************************************)
EXTENDS ContentBounty

SubmissionsOf(b) == {s \in SubmissionIds : submissions[s].bounty_id = b}

OpenChallengesOn(s) ==
    {c \in ChallengeIds : challenges[c].submission_id = s /\ challenges[c].status = "OPEN"}

\* Every variable has its type, and the indexes refer to records that exist;
\* in particular no evaluation or review counter passes its maximum.
TypeOK ==
    /\ clock \in Nat
    /\ bounty_count \in Nat
    /\ submission_count \in Nat
    /\ challenge_count \in Nat
    /\ bounties \in [BountyIds -> Bounty]
    /\ submissions \in [SubmissionIds -> Submission]
    /\ challenges \in [ChallengeIds -> Challenge]
    /\ creator_submission_ids \subseteq BountyIds \X Addresses
    /\ evidence_submission_ids \subseteq BountyIds \X Digests
    /\ challenge_fingerprints \subseteq SubmissionIds \X ChallengeReasonCodes \X Digests
    /\ balance \in Int
    /\ received \in [Addresses -> Int]

-----------------------------------------------------------------------------
\* Money.

\* The native balance is exactly what get_escrow_accounting publishes: no
\* sequence of posts, challenges, settlements and withdrawals leaves the
\* contract owing more than it holds, or holding value nobody can withdraw.
Solvent == balance = ExpectedNativeBalance

\* Where the reward of bounty b is, read off the liability fields the code
\* keeps: still in escrow, due to someone, or paid.
RewardDeposit(b) ==
    LET bounty == bounties[b]
        winner == submissions[bounty.winner_submission_id]
        stage(liability) == IF liability = "PENDING" THEN "due" ELSE "paid"
    IN
    IF bounty.refund_status # "" THEN
        [amount |-> bounty.refund_amount, state |-> stage(bounty.refund_status),
         payee |-> bounty.poster]
    ELSE IF bounty.has_winner THEN
        [amount |-> winner.reward_amount, state |-> stage(winner.reward_status),
         payee |-> winner.creator]
    ELSE [amount |-> bounty.escrow_balance, state |-> "held", payee |-> ZERO_ADDRESS]

BondDeposit(c) ==
    [amount |-> challenges[c].bond, payee |-> challenges[c].bond_recipient,
     state |-> IF challenges[c].bond_status = "ESCROWED" THEN "held"
               ELSE IF challenges[c].bond_status = "PENDING" THEN "due" ELSE "paid"]

Deposits ==
    [d \in ({"reward"} \X BountyIds) \cup ({"bond"} \X ChallengeIds) |->
        IF d[1] = "reward" THEN RewardDeposit(d[2]) ELSE BondDeposit(d[2])]

Escrow == INSTANCE BountyEscrow WITH
    DepositIds <- ({"reward"} \X (0..(MaxBounties - 1))) \cup ({"bond"} \X (1..MaxChallenges)),
    Amounts <- Rewards \cup {ChallengeBond(reward) : reward \in Rewards},
    Accounts <- Addresses, Nobody <- ZERO_ADDRESS,
    deposits <- Deposits, funds <- balance, paid <- received

\* Each reward and each bond is owed to one account, once, in full, and paid at
\* most once; no settlement step moves value and no withdrawal moves two
\* deposits: the contract implements BountyEscrow.
ImplementsEscrow == Escrow!Spec

-----------------------------------------------------------------------------
\* Lifecycle.

\* A bounty's has_provisional_winner flag is set exactly while one of its
\* submissions is APPROVED_PENDING, that one is the submission it names, and
\* the bounty is LOCKED: evaluations, upheld challenges and claims in any
\* order never leave two candidates for one reward.
ProvisionalWinnerIsUnique ==
    \A b \in BountyIds :
        LET approved == {s \in SubmissionsOf(b) : submissions[s].status = "APPROVED_PENDING"}
        IN IF bounties[b].has_provisional_winner
           THEN /\ approved = {bounties[b].provisional_submission_id}
                /\ bounties[b].status = "LOCKED"
           ELSE approved = {}

\* A submission's active_challenge_id names its one open challenge, or is 0
\* and it has none; only a provisional winner is under challenge.
ActiveChallengeIsTheOpenOne ==
    \A s \in SubmissionIds :
        IF submissions[s].active_challenge_id = 0
        THEN OpenChallengesOn(s) = {}
        ELSE /\ OpenChallengesOn(s) = {submissions[s].active_challenge_id}
             /\ submissions[s].status = "APPROVED_PENDING"

\* An OPEN bounty has no submission an evaluation could still approve and no
\* provisional winner: cancel_bounty and a reader of the status can rely on it.
OpenBountyHasNoWork ==
    \A b \in BountyIds : bounties[b].status = "OPEN" =>
        \A s \in SubmissionsOf(b) :
            /\ submissions[s].status # "APPROVED_PENDING"
            /\ Evaluable(submissions[s]) => clock > bounties[b].evaluation_deadline

\* A closed bounty leaves nothing undecided behind: no submission still to be
\* judged or claimed, no open challenge, and an APPROVED submission exactly
\* when it is FILLED.
ClosedBountyIsSettled ==
    \A b \in BountyIds : bounties[b].status \in {"FILLED", "CANCELLED", "EXPIRED"} =>
        /\ \A s \in SubmissionsOf(b) :
            /\ submissions[s].status \in {"APPROVED", "REJECTED", "SUPERSEDED"}
            /\ OpenChallengesOn(s) = {}
        /\ bounties[b].status = "FILLED" <=>
            \E s \in SubmissionsOf(b) : submissions[s].status = "APPROVED"

\* A reward goes only to an approval that stood: its dispute window is over,
\* every challenge to it was dismissed or timed out, and no other submission
\* of the bounty was approved.
WinnerWasNeverOverturned ==
    \A b \in BountyIds : bounties[b].has_winner =>
        LET winner == bounties[b].winner_submission_id
        IN
        /\ {s \in SubmissionsOf(b) : submissions[s].status = "APPROVED"} = {winner}
        /\ clock >= submissions[winner].challenge_deadline
        /\ \A c \in ChallengeIds : challenges[c].submission_id = winner =>
                challenges[c].status \in {"DISMISSED", "TIMED_OUT"}

\* Where the bond of challenge c is and whose it is agree with its status and
\* with the proposal that was finalised.
BondMatchesOutcome(c) ==
    LET challenge == challenges[c]
        creator == submissions[challenge.submission_id].creator
    IN
    /\ challenge.status = "OPEN" =>
        challenge.bond_status = "ESCROWED" /\ ~challenge.bond_released
    /\ challenge.status # "OPEN" =>
        /\ challenge.bond_released
        /\ challenge.bond_status \in {"PENDING", "WITHDRAWN"}
        /\ challenge.bond_recipient =
            IF challenge.status = "DISMISSED" THEN creator ELSE challenge.challenger
    /\ challenge.status = "UPHELD" <=>
        /\ challenge.status # "OPEN"
        /\ challenge.proposed_outcome = "UPHOLD"

\* A bond ends where the challenge's own outcome sends it: back to the
\* challenger when upheld or timed out, to the creator when dismissed, and it
\* stays in escrow while the challenge is open.
BondFollowsOutcome == \A c \in ChallengeIds : BondMatchesOutcome(c)

\* The verdict a submission publishes agrees with its status and its history:
\* an approval has every criterion met, an overturned approval keeps no score,
\* and the verdict CHALLENGE_UPHELD is there exactly when a challenge was upheld.
VerdictMatchesHistory ==
    \A s \in SubmissionIds :
        LET submission == submissions[s]
        IN
        /\ submission.status \in {"APPROVED", "APPROVED_PENDING"} =>
            /\ submission.verdict_code = "ALL_CRITERIA_MET"
            /\ DOMAIN submission.criteria_bits = 1..CRITERION_COUNT
            /\ AllMet(submission.criteria_bits)
            /\ submission.score_bucket = 4
        /\ submission.status \notin {"APPROVED", "APPROVED_PENDING"} =>
            submission.verdict_code # "ALL_CRITERIA_MET" /\ submission.score_bucket < 4
        /\ submission.verdict_code = "CHALLENGE_UPHELD" <=>
            \E c \in ChallengeIds :
                challenges[c].submission_id = s /\ challenges[c].status = "UPHELD"

\* One creator and one digest appear at most once in a bounty, the bounty's own
\* index lists exactly its submissions, and no challenge repeats the reason and
\* evidence of an earlier one on the same submission.
EntriesAreUnique ==
    /\ \A s, t \in SubmissionIds :
        s # t /\ submissions[s].bounty_id = submissions[t].bounty_id =>
            /\ submissions[s].creator # submissions[t].creator
            /\ submissions[s].evidence_sha256 # submissions[t].evidence_sha256
    /\ \A b \in BountyIds :
        /\ bounties[b].submission_ids = SubmissionsOf(b)
        /\ bounties[b].submission_count = Cardinality(SubmissionsOf(b))
        /\ bounties[b].submission_count <= MAX_SUBMISSIONS_PER_BOUNTY
    /\ \A c, d \in ChallengeIds : c # d =>
        \/ challenges[c].submission_id # challenges[d].submission_id
        \/ challenges[c].reason_code # challenges[d].reason_code
        \/ challenges[c].evidence_sha256 # challenges[d].evidence_sha256

\* What is settled stays settled: a closed bounty keeps its status, winner and
\* refund, and a submission that was approved, rejected or superseded is never
\* judged again, whatever challenge or evaluation arrives late.
SettledStaysSettled ==
    [][/\ \A b \in BountyIds : bounties[b].status \in {"FILLED", "CANCELLED", "EXPIRED"} =>
            /\ bounties'[b].status = bounties[b].status
            /\ bounties'[b].has_winner = bounties[b].has_winner
            /\ bounties'[b].winner_submission_id = bounties[b].winner_submission_id
            /\ bounties'[b].refund_amount = bounties[b].refund_amount
       /\ \A s \in SubmissionIds : submissions[s].status \in {"APPROVED", "REJECTED", "SUPERSEDED"} =>
            /\ submissions'[s].status = submissions[s].status
            /\ submissions'[s].verdict_code = submissions[s].verdict_code
            /\ submissions'[s].criteria_bits = submissions[s].criteria_bits]_vars

\* Once a review proposes to uphold or to dismiss, only that outcome can close
\* the challenge: no later review replaces it and no timeout overtakes it.
ProposalIsBinding ==
    [][\A c \in ChallengeIds :
        challenges[c].status = "OPEN" /\ challenges[c].proposed_outcome \in {"UPHOLD", "DISMISS"} =>
            /\ challenges'[c].proposed_outcome = challenges[c].proposed_outcome
            /\ challenges'[c].proposed_reason_code = challenges[c].proposed_reason_code
            /\ challenges'[c].status \in
                {"OPEN", IF challenges[c].proposed_outcome = "UPHOLD" THEN "UPHELD" ELSE "DISMISSED"}
      ]_vars

-----------------------------------------------------------------------------
\* Progress, under Fairness.

\* No challenge stays open forever, so none can lock a reward: a proposal is
\* finalised, and disagreement or repeated inconclusive reviews time out.
EveryChallengeIsResolved ==
    \A c \in 1..MaxChallenges :
        (c \in ChallengeIds) ~> (c \in ChallengeIds /\ challenges[c].status # "OPEN")

\* Every posted bounty is eventually filled, cancelled or expired.
EveryBountyIsSettled ==
    \A b \in 0..(MaxBounties - 1) :
        (b \in BountyIds)
            ~> (b \in BountyIds /\ bounties[b].status \in {"FILLED", "CANCELLED", "EXPIRED"})

\* Every reward and every bond is eventually paid out to someone.
EveryDepositIsPaidOut ==
    \A d \in ({"reward"} \X (0..(MaxBounties - 1))) \cup ({"bond"} \X (1..MaxChallenges)) :
        (d \in DOMAIN Deposits) ~> (d \in DOMAIN Deposits /\ Deposits[d].state = "paid")
=============================================================================
