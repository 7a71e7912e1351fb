--------------------------- MODULE StatusActions ---------------------------
(***************************************************************************)
(* What the interface offers (frontend/src/lib/statusActions.ts), read     *)
(* against the contract it is meant to mirror.  availableActions is a      *)
(* second, independent statement of the contract's preconditions, over     *)
(* what the browser has loaded: the selected bounty, all its submissions,  *)
(* and of the challenges only the latest one of each submission            *)
(* (frontend/src/App.vue).  Every set of actions is a record with one      *)
(* Boolean per button.                                                     *)
(*                                                                         *)
(* The comparison is made with everything loaded at the same instant and   *)
(* with the browser's clock equal to the contract's; module Session says   *)
(* what may be on the screen while loads overlap.                          *)
(***************************************************************************)
EXTENDS ContentBounty

\* Hex case does not tell addresses apart in the model.  A disconnected
\* wallet is no address and is not compared.
SameAddress(left, right) == left = right

\* readSubmissionsForBounty pages through all of them.
LoadedSubmissions(b) == {s \in SubmissionIds : submissions[s].bounty_id = b}

\* loadChallengeDetails.
LoadedChallenges(b) ==
    {submissions[s].latest_challenge_id : s \in LoadedSubmissions(b)} \ {0}

BountyOffers(now, wallet, b) ==
    LET bounty == bounties[b]
        activeChallenge == \E s \in LoadedSubmissions(b) : submissions[s].active_challenge_id # 0
        creatorSubmitted ==
            \E s \in LoadedSubmissions(b) : SameAddress(submissions[s].creator, wallet)
        isPoster == SameAddress(bounty.poster, wallet)
    IN
    [submit |->
        /\ bounty.status \in {"OPEN", "LOCKED"}
        /\ now <= bounty.submission_deadline
        /\ bounty.submission_count < MAX_SUBMISSIONS_PER_BOUNTY
        /\ ~creatorSubmitted,
     cancel |->
        /\ isPoster
        /\ bounty.status = "OPEN"
        /\ bounty.submission_count = 0
        /\ ~bounty.has_provisional_winner
        /\ ~activeChallenge
        /\ bounty.refund_status = "",
     expire |->
        /\ bounty.status \in {"OPEN", "LOCKED"}
        /\ now > bounty.evaluation_deadline
        /\ ~bounty.has_winner
        /\ ~bounty.has_provisional_winner
        /\ ~activeChallenge
        /\ bounty.refund_status = "",
     withdraw_refund |->
        isPoster /\ bounty.refund_status = "PENDING" /\ bounty.refund_amount > 0]

\* Bug: goes by the dispute window alone and forgets a challenge still open.
Bug_SubmissionOffers(now, wallet, b, s) ==
    LET bounty == bounties[b]
        submission == submissions[s]
        isCreator == SameAddress(submission.creator, wallet)
        free == submission.status = "APPROVED_PENDING"
    IN
    [evaluate |->
        /\ submission.status \in {"PENDING", "INCONCLUSIVE"}
        /\ submission.attempt_count < MAX_EVALUATION_ATTEMPTS
        /\ bounty.status \in {"OPEN", "LOCKED"}
        /\ now <= bounty.evaluation_deadline
        /\ bounty.has_provisional_winner => bounty.provisional_submission_id = s,
     challenge |-> free /\ now < submission.challenge_deadline /\ ~isCreator,
     claim |-> free /\ isCreator /\ now >= submission.challenge_deadline,
     withdraw_reward |-> isCreator /\ submission.reward_status = "PENDING"]

SubmissionOffers(now, wallet, b, s) ==
    LET bounty == bounties[b]
        submission == submissions[s]
        isCreator == SameAddress(submission.creator, wallet)
    IN
    [evaluate |->
        /\ submission.status \in {"PENDING", "INCONCLUSIVE"}
        /\ submission.attempt_count < MAX_EVALUATION_ATTEMPTS
        /\ bounty.status \in {"OPEN", "LOCKED"}
        /\ now <= bounty.evaluation_deadline
        /\ bounty.has_provisional_winner => bounty.provisional_submission_id = s,
     challenge |->
        /\ submission.status = "APPROVED_PENDING"
        /\ submission.active_challenge_id = 0
        /\ now < submission.challenge_deadline
        /\ ~isCreator,
     claim |->
        /\ isCreator
        /\ submission.status = "APPROVED_PENDING"
        /\ now >= submission.challenge_deadline
        /\ submission.active_challenge_id = 0
        /\ ~submission.reward_claimed
        /\ submission.reward_status = ""
        /\ bounty.status = "LOCKED"
        /\ bounty.has_provisional_winner
        /\ bounty.provisional_submission_id = s,
     withdraw_reward |->
        isCreator /\ submission.reward_status = "PENDING" /\ submission.reward_amount > 0]

ChallengeOffers(now, wallet, c) ==
    LET challenge == challenges[c]
        undecided == challenge.status = "OPEN" /\ challenge.proposed_outcome \in {"", "INCONCLUSIVE"}
    IN
    [review |->
        /\ undecided
        /\ now < challenge.review_deadline
        /\ challenge.attempt_count < MAX_CHALLENGE_ATTEMPTS,
     finalize |->
        challenge.status = "OPEN" /\ challenge.proposed_outcome \in {"UPHOLD", "DISMISS"},
     timeout |->
        /\ undecided
        /\ \/ challenge.attempt_count >= MAX_CHALLENGE_ATTEMPTS
           \/ now >= challenge.review_deadline,
     withdraw_bond |->
        /\ challenge.bond_status = "PENDING"
        /\ challenge.bond > 0
        /\ SameAddress(challenge.bond_recipient, wallet)]

\* availableActions for the selected bounty b and a connected wallet.
AvailableActions(now, wallet, b) ==
    [bounty |-> BountyOffers(now, wallet, b),
     submission |-> [s \in LoadedSubmissions(b) |-> SubmissionOffers(now, wallet, b, s)],
     challenge |-> [c \in LoadedChallenges(b) |-> ChallengeOffers(now, wallet, c)]]

-----------------------------------------------------------------------------

\* The two statements of the rules agree on every reachable state, every
\* account and every bounty: an action is offered exactly when the contract
\* would take it (statusActions.ts promises that each rule mirrors a
\* precondition).  Two differences are part of the design.  A page already
\* submitted by somebody else is found out only by the transaction, so submit
\* is compared for pages not used yet.  And a challenge that is not its
\* submission's latest is not loaded: all it could still offer is the
\* withdrawal of its bond, which the interface therefore does not show.
InterfaceMatchesContract ==
    \A b \in BountyIds, wallet \in Addresses :
        LET offered == AvailableActions(clock, wallet, b)
        IN
        /\ \A digest \in Digests : <<b, digest>> \notin evidence_submission_ids =>
              (offered.bounty.submit <=> CanSubmit(wallet, b, digest))
        /\ offered.bounty.cancel <=> CanCancel(wallet, b)
        /\ offered.bounty.expire <=> CanExpire(b)
        /\ offered.bounty.withdraw_refund <=> CanWithdrawRefund(wallet, b)
        /\ \A s \in SubmissionIds : submissions[s].bounty_id = b =>
              /\ offered.submission[s].evaluate <=> CanEvaluate(s)
              /\ offered.submission[s].challenge <=> CanChallenge(wallet, s)
              /\ offered.submission[s].claim <=> CanClaim(wallet, s)
              /\ offered.submission[s].withdraw_reward <=> CanWithdrawReward(wallet, s)
        /\ \A c \in ChallengeIds : challenges[c].bounty_id = b =>
              IF c \in DOMAIN offered.challenge
              THEN /\ offered.challenge[c].review <=> CanReview(c)
                   /\ offered.challenge[c].finalize <=> CanFinalize(c)
                   /\ offered.challenge[c].timeout <=> CanTimeout(c)
                   /\ offered.challenge[c].withdraw_bond <=> CanWithdrawBond(wallet, c)
              ELSE ~CanReview(c) /\ ~CanFinalize(c) /\ ~CanTimeout(c)
=============================================================================
