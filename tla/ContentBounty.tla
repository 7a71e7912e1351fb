--------------------------- MODULE ContentBounty ---------------------------
(***************************************************************************)
(* The ContentBounty contract (contracts/content_bounty.py): bounties,     *)
(* submissions, challenges and the money behind them.  One action per      *)
(* public write method.  A transaction is atomic: an assertion that fails  *)
(* reverts it, so each assertion is a guard and a refused call is no step. *)
(* Transactions run one at a time, in an order anyone may choose, and      *)
(* gl.message_raw["datetime"] is the clock they read.                      *)
(*                                                                         *)
(* What consensus returns is a parameter: a rendered page is the digest    *)
(* the validators agreed on, an evaluation is a member of                  *)
(* EvaluationResults and a review is a member of ReviewResults.  The       *)
(* modules EvidencePipeline and ConsensusRound say where those come from.  *)
(*                                                                         *)
(* An operator whose name begins with Bug_ is the one it is named after    *)
(* with a plausible mistake in it.  No definition uses them: they measure  *)
(* what the properties can see.                                            *)
(*                                                                         *)
(* Fields that are written and never read by a write method (title,        *)
(* description, the timestamps other than the deadlines) are left out.     *)
(***************************************************************************)
EXTENDS Protocol, FiniteSetsExt

CONSTANTS
    Addresses,                      \* accounts: any of them may play any role
    ZERO_ADDRESS,                   \* bond_recipient of a bond not routed yet
    Rewards,                        \* amounts a bounty may be posted with
    SubmissionWindows,              \* MIN_SUBMISSION_WINDOW_SECONDS .. MAX_...
    EvaluationGraces,               \* MIN_EVALUATION_GRACE_SECONDS .. MAX_...
    ChallengeWindows,               \* MIN_CHALLENGE_WINDOW_SECONDS .. MAX_...
    CHALLENGE_REVIEW_TIMEOUT,       \* seconds a challenge may be reviewed for
    MAX_SUBMISSIONS_PER_BOUNTY,
    MAX_EVALUATION_ATTEMPTS,
    MAX_CHALLENGE_ATTEMPTS,
    EvaluationResults,              \* what an agreed evaluation may be
    ReviewResults,                  \* what an agreed challenge review may be
    ChallengeReasons,               \* reason codes challengers state
    \* The next four bound the model and have no counterpart in the code.
    MaxBounties, MaxSubmissions, MaxChallenges, MaxTime

ASSUME AddressAssumption == ZERO_ADDRESS \notin Addresses

ASSUME RewardAssumption == Rewards \subseteq Nat \ {0}

ASSUME WindowAssumption ==
    /\ SubmissionWindows \subseteq Nat
    /\ EvaluationGraces \subseteq Nat
    /\ ChallengeWindows \subseteq Nat
    /\ CHALLENGE_REVIEW_TIMEOUT \in Nat

ASSUME LimitAssumption ==
    /\ MAX_SUBMISSIONS_PER_BOUNTY \in Nat \ {0}
    /\ MAX_EVALUATION_ATTEMPTS \in Nat \ {0}
    /\ MAX_CHALLENGE_ATTEMPTS \in Nat \ {0}

ASSUME ConsensusAssumption ==
    /\ \A result \in EvaluationResults : ValidEvaluationShape(result)
    /\ \A result \in ReviewResults : ValidChallengeReviewShape(result)
    /\ ChallengeReasons \subseteq ChallengeReasonCodes

ASSUME BoundAssumption ==
    /\ MaxBounties \in Nat
    /\ MaxSubmissions \in Nat
    /\ MaxChallenges \in Nat
    /\ MaxTime \in Nat

VARIABLES
    clock,                   \* the datetime of the next transaction
    bounty_count, bounties,              \* bounties[0 .. bounty_count - 1]
    submission_count, submissions,       \* submissions[0 .. submission_count - 1]
    challenge_count, challenges,         \* challenges[1 .. challenge_count]
    creator_submission_ids,  \* keys <<bounty, creator>> already used
    evidence_submission_ids, \* keys <<bounty, digest>> already used
    challenge_fingerprints,  \* keys <<submission, reason, digest>> already used
    balance,                 \* native balance of the contract
    received                 \* what each account has been transferred by it

bountyVars == <<bounty_count, bounties>>
submissionVars == <<submission_count, submissions>>
challengeVars == <<challenge_count, challenges>>
keyVars == <<creator_submission_ids, evidence_submission_ids, challenge_fingerprints>>
moneyVars == <<balance, received>>
vars == <<clock, bountyVars, submissionVars, challengeVars, keyVars, moneyVars>>

BountyIds == 0..(bounty_count - 1)
SubmissionIds == 0..(submission_count - 1)
ChallengeIds == 1..challenge_count

LiabilityStatuses == {"", "PENDING", "WITHDRAWN"}

Bounty ==
    [poster: Addresses, reward: Rewards, submission_deadline: Nat,
     evaluation_deadline: Nat, challenge_window_seconds: Nat, status: BountyStatuses,
     submission_count: Nat, submission_ids: SUBSET Nat,
     has_winner: BOOLEAN, winner_submission_id: Nat,
     has_provisional_winner: BOOLEAN, provisional_submission_id: Nat,
     escrow_balance: Nat, refund_amount: Nat, refund_status: LiabilityStatuses]

Submission ==
    [bounty_id: Nat, creator: Addresses, evidence_sha256: Digests,
     status: SubmissionStatuses, attempt_count: 0..MAX_EVALUATION_ATTEMPTS,
     decision: Decisions \cup {""}, criteria_bits: CriteriaBits, score_bucket: 0..4,
     reason_code: EvaluationReasons \cup ChallengeReasonCodes
                    \cup {"", "ANOTHER_SUBMISSION_APPROVED", "BOUNTY_EXPIRED"},
     verdict_code: VerdictCodes, challenge_deadline: Nat,
     active_challenge_id: Nat, latest_challenge_id: Nat,
     reward_claimed: BOOLEAN, reward_amount: Nat, reward_status: LiabilityStatuses]

Challenge ==
    [submission_id: Nat, bounty_id: Nat, challenger: Addresses,
     reason_code: ChallengeReasonCodes, evidence_sha256: Digests, bond: Nat,
     status: ChallengeStatuses, review_deadline: Nat,
     attempt_count: 0..MAX_CHALLENGE_ATTEMPTS,
     proposed_outcome: ChallengeOutcomes \cup {""},
     proposed_reason_code: ChallengeReasonCodes \cup {""},
     proposed_error_class: ChallengeErrorClasses,
     bond_released: BOOLEAN, bond_recipient: Addresses \cup {ZERO_ADDRESS},
     bond_disposition: {"", "CHALLENGER", "CREATOR"},
     bond_status: {"ESCROWED", "PENDING", "WITHDRAWN"}]

Init ==
    /\ clock = 0
    /\ bounty_count = 0 /\ bounties = [b \in {} |-> {}]
    /\ submission_count = 0 /\ submissions = [s \in {} |-> {}]
    /\ challenge_count = 0 /\ challenges = [c \in {} |-> {}]
    /\ creator_submission_ids = {}
    /\ evidence_submission_ids = {}
    /\ challenge_fingerprints = {}
    /\ balance = 0
    /\ received = [a \in Addresses |-> 0]

-----------------------------------------------------------------------------
\* Helpers of the write methods.

\* DynArray.append
Appended(array, id, record) ==
    [i \in DOMAIN array \cup {id} |-> IF i = id THEN record ELSE array[i]]

\* Bug: looks at the latest challenge instead of the active one.
Bug_BountyHasActiveChallenge(b) ==
    \E s \in bounties[b].submission_ids : submissions[s].latest_challenge_id # 0

BountyHasActiveChallenge(b) ==
    \E s \in bounties[b].submission_ids : submissions[s].active_challenge_id # 0

\* Bug: allows one attempt too many.
Bug_Evaluable(submission) ==
    /\ submission.status \in {"PENDING", "INCONCLUSIVE"}
    /\ submission.attempt_count <= MAX_EVALUATION_ATTEMPTS

Evaluable(submission) ==
    /\ submission.status \in {"PENDING", "INCONCLUSIVE"}
    /\ submission.attempt_count < MAX_EVALUATION_ATTEMPTS

\* Bug: forgets that an inconclusive submission may be evaluated again.
Bug_HasEvaluableSubmission(b, excluded) ==
    /\ clock <= bounties[b].evaluation_deadline
    /\ \E s \in bounties[b].submission_ids \ {excluded} : submissions[s].status = "PENDING"

HasEvaluableSubmission(b, excluded) ==
    /\ clock <= bounties[b].evaluation_deadline
    /\ \E s \in bounties[b].submission_ids \ {excluded} : Evaluable(submissions[s])

\* Bug: forgets the inconclusive submissions.
Bug_Superseded(array, b, winner, reason) ==
    [s \in DOMAIN array |->
        IF s \in bounties[b].submission_ids \ {winner} /\ array[s].status = "PENDING"
        THEN [array[s] EXCEPT !.status = "SUPERSEDED", !.reason_code = reason]
        ELSE array[s]]

\* _supersede_other_submissions: every unsettled submission of b but winner.
Superseded(array, b, winner, reason) ==
    [s \in DOMAIN array |->
        IF /\ s \in bounties[b].submission_ids \ {winner}
           /\ array[s].status \in {"PENDING", "INCONCLUSIVE"}
        THEN [array[s] EXCEPT !.status = "SUPERSEDED", !.reason_code = reason]
        ELSE array[s]]

\* Bug: takes the bond for paid when it is only routed.
Bug_BondRouted(challenge, recipient, disposition) ==
    [challenge EXCEPT !.bond_released = TRUE, !.bond_recipient = recipient,
                      !.bond_disposition = disposition, !.bond_status = "WITHDRAWN"]

\* Bug: does not record whose the bond now is.
Bug_BondRoutedToNobody(challenge, recipient, disposition) ==
    [challenge EXCEPT !.bond_released = TRUE, !.bond_disposition = disposition,
                      !.bond_status = "PENDING"]

\* _route_challenge_bond: records who may withdraw, moves nothing.
BondRouted(challenge, recipient, disposition) ==
    [challenge EXCEPT !.bond_released = TRUE, !.bond_recipient = recipient,
                      !.bond_disposition = disposition, !.bond_status = "PENDING"]

\* Bug: keeps the score of the overturned approval.
Bug_Overturned(submission, reason) ==
    [submission EXCEPT !.status = "REJECTED", !.decision = "REJECT", !.reason_code = reason,
                       !.verdict_code = "CHALLENGE_UPHELD", !.active_challenge_id = 0]

\* What an upheld challenge does to the approval it overturns.
Overturned(submission, reason) ==
    [submission EXCEPT !.status = "REJECTED", !.decision = "REJECT",
                       !.reason_code = reason, !.criteria_bits = <<>>,
                       !.score_bucket = 0, !.verdict_code = "CHALLENGE_UPHELD",
                       !.active_challenge_id = 0]

\* emit_transfer(value=amount): the only way value leaves the contract.
EmitTransfer(recipient, amount) ==
    /\ balance' = balance - amount
    /\ received' = [received EXCEPT ![recipient] = @ + amount]

\* get_escrow_accounting: every liability the contract holds, added up.
ExpectedNativeBalance ==
    MapThenSumSet(LAMBDA b : bounties[b].escrow_balance, BountyIds)
      + MapThenSumSet(LAMBDA b : bounties[b].refund_amount,
                      {b \in BountyIds : bounties[b].refund_status = "PENDING"})
      + MapThenSumSet(LAMBDA s : submissions[s].reward_amount,
                      {s \in SubmissionIds : submissions[s].reward_status = "PENDING"})
      + MapThenSumSet(LAMBDA c : challenges[c].bond,
                      {c \in ChallengeIds : challenges[c].bond_status \in {"ESCROWED", "PENDING"}})

-----------------------------------------------------------------------------
\* What each method asserts before it changes anything.

\* Bug: does not look for the same page submitted by another creator.
Bug_NotYetSubmitted(b, sender, digest) == <<b, sender>> \notin creator_submission_ids

NotYetSubmitted(b, sender, digest) ==
    /\ <<b, sender>> \notin creator_submission_ids
    /\ <<b, digest>> \notin evidence_submission_ids

CanSubmit(sender, b, digest) ==
    /\ bounties[b].status \in {"OPEN", "LOCKED"}
    /\ clock <= bounties[b].submission_deadline
    /\ bounties[b].submission_count < MAX_SUBMISSIONS_PER_BOUNTY
    /\ NotYetSubmitted(b, sender, digest)

\* Bug: lets a second submission be approved while one is provisional.
Bug_NoOtherProvisionalWinner(b, s) == TRUE

NoOtherProvisionalWinner(b, s) ==
    bounties[b].has_provisional_winner => bounties[b].provisional_submission_id = s

CanEvaluate(s) ==
    LET b == submissions[s].bounty_id
    IN
    /\ Evaluable(submissions[s])
    /\ bounties[b].status \in {"OPEN", "LOCKED"}
    /\ clock <= bounties[b].evaluation_deadline
    /\ NoOtherProvisionalWinner(b, s)

\* Bug: takes a second challenge while one is open.
Bug_CanChallenge(sender, s) ==
    /\ submissions[s].status = "APPROVED_PENDING"
    /\ clock < submissions[s].challenge_deadline
    /\ submissions[s].creator # sender

CanChallenge(sender, s) ==
    /\ submissions[s].status = "APPROVED_PENDING"
    /\ submissions[s].active_challenge_id = 0
    /\ clock < submissions[s].challenge_deadline
    /\ submissions[s].creator # sender

CanReview(c) ==
    /\ challenges[c].status = "OPEN"
    /\ clock < challenges[c].review_deadline
    /\ challenges[c].attempt_count < MAX_CHALLENGE_ATTEMPTS
    /\ challenges[c].proposed_outcome \in {"", "INCONCLUSIVE"}

CanFinalize(c) ==
    /\ challenges[c].status = "OPEN"
    /\ challenges[c].proposed_outcome \in {"UPHOLD", "DISMISS"}
    /\ ~challenges[c].bond_released

\* Bug: times out a challenge that has a final proposal.
Bug_CanTimeout(c) ==
    /\ challenges[c].status = "OPEN"
    /\ \/ challenges[c].attempt_count >= MAX_CHALLENGE_ATTEMPTS
       \/ clock >= challenges[c].review_deadline
    /\ ~challenges[c].bond_released

\* Bug: a challenge that nobody reviewed can never time out.
Bug_CanTimeoutReviewed(c) ==
    /\ challenges[c].status = "OPEN"
    /\ challenges[c].proposed_outcome = "INCONCLUSIVE"
    /\ challenges[c].attempt_count >= MAX_CHALLENGE_ATTEMPTS
    /\ clock >= challenges[c].review_deadline

CanTimeout(c) ==
    /\ challenges[c].status = "OPEN"
    /\ challenges[c].proposed_outcome \in {"", "INCONCLUSIVE"}
    /\ \/ challenges[c].attempt_count >= MAX_CHALLENGE_ATTEMPTS
       \/ clock >= challenges[c].review_deadline
    /\ ~challenges[c].bond_released

\* Bug: an open challenge does not block the claim.
Bug_CanClaim(sender, s) ==
    LET b == submissions[s].bounty_id
    IN
    /\ submissions[s].creator = sender
    /\ submissions[s].status = "APPROVED_PENDING"
    /\ clock >= submissions[s].challenge_deadline
    /\ submissions[s].reward_status = ""
    /\ bounties[b].status = "LOCKED"
    /\ bounties[b].provisional_submission_id = s

CanClaim(sender, s) ==
    LET b == submissions[s].bounty_id
    IN
    /\ submissions[s].creator = sender
    /\ submissions[s].status = "APPROVED_PENDING"
    /\ clock >= submissions[s].challenge_deadline
    /\ submissions[s].active_challenge_id = 0
    /\ ~submissions[s].reward_claimed
    /\ submissions[s].reward_status = ""
    /\ bounties[b].status = "LOCKED"
    /\ bounties[b].has_provisional_winner
    /\ bounties[b].provisional_submission_id = s

CanCancel(sender, b) ==
    /\ bounties[b].poster = sender
    /\ bounties[b].status = "OPEN"
    /\ bounties[b].submission_count = 0
    /\ ~bounties[b].has_provisional_winner
    /\ ~BountyHasActiveChallenge(b)
    /\ bounties[b].refund_status = ""

\* Bug: expires a bounty under its provisional winner.
Bug_CanExpire(b) ==
    /\ bounties[b].status \in {"OPEN", "LOCKED"}
    /\ clock > bounties[b].evaluation_deadline
    /\ ~bounties[b].has_winner
    /\ ~BountyHasActiveChallenge(b)
    /\ bounties[b].refund_status = ""

CanExpire(b) ==
    /\ bounties[b].status \in {"OPEN", "LOCKED"}
    /\ clock > bounties[b].evaluation_deadline
    /\ ~bounties[b].has_winner
    /\ ~bounties[b].has_provisional_winner
    /\ ~BountyHasActiveChallenge(b)
    /\ bounties[b].refund_status = ""

CanWithdrawReward(sender, s) ==
    /\ submissions[s].creator = sender
    /\ submissions[s].reward_status = "PENDING"
    /\ submissions[s].reward_amount > 0

CanWithdrawRefund(sender, b) ==
    /\ bounties[b].poster = sender
    /\ bounties[b].refund_status = "PENDING"
    /\ bounties[b].refund_amount > 0

\* Bug: pays the bond again to whoever received it.
Bug_CanWithdrawBond(sender, c) ==
    /\ challenges[c].bond_status # "ESCROWED"
    /\ challenges[c].bond_recipient = sender

CanWithdrawBond(sender, c) ==
    /\ challenges[c].bond_status = "PENDING"
    /\ challenges[c].bond_recipient = sender
    /\ challenges[c].bond > 0

-----------------------------------------------------------------------------
\* Bounties and submissions.

\* The last conjunct bounds the model: everything the bounty can lead to ends
\* before MaxTime.
PostBounty(sender, value, submission_window, evaluation_grace, challenge_window) ==
    /\ bounty_count < MaxBounties
    /\ clock + submission_window + evaluation_grace + challenge_window
         + CHALLENGE_REVIEW_TIMEOUT < MaxTime
    /\ bounty_count' = bounty_count + 1
    /\ bounties' = Appended(bounties, bounty_count,
        [poster |-> sender, reward |-> value,
         submission_deadline |-> clock + submission_window,
         evaluation_deadline |-> clock + submission_window + evaluation_grace,
         challenge_window_seconds |-> challenge_window, status |-> "OPEN",
         submission_count |-> 0, submission_ids |-> {},
         has_winner |-> FALSE, winner_submission_id |-> 0,
         has_provisional_winner |-> FALSE, provisional_submission_id |-> 0,
         escrow_balance |-> value, refund_amount |-> 0, refund_status |-> ""])
    /\ balance' = balance + value
    /\ UNCHANGED <<clock, submissionVars, challengeVars, keyVars, received>>

\* digest is the commitment the validators agreed on; one that is not ok, or
\* that lacks the claim tag, fails the assertions and reverts.
SubmitContent(sender, b, digest) ==
    /\ submission_count < MaxSubmissions
    /\ CanSubmit(sender, b, digest)
    /\ submission_count' = submission_count + 1
    /\ submissions' = Appended(submissions, submission_count,
        [bounty_id |-> b, creator |-> sender, evidence_sha256 |-> digest,
         status |-> "PENDING", attempt_count |-> 0, decision |-> "",
         criteria_bits |-> <<>>, score_bucket |-> 0, reason_code |-> "",
         verdict_code |-> "", challenge_deadline |-> 0, active_challenge_id |-> 0,
         latest_challenge_id |-> 0, reward_claimed |-> FALSE, reward_amount |-> 0,
         reward_status |-> ""])
    /\ creator_submission_ids' = creator_submission_ids \cup {<<b, sender>>}
    /\ evidence_submission_ids' = evidence_submission_ids \cup {<<b, digest>>}
    /\ bounties' = [bounties EXCEPT ![b] =
        [@ EXCEPT !.submission_ids = bounties[b].submission_ids \cup {submission_count},
                  !.submission_count = bounties[b].submission_count + 1,
                  !.status = "LOCKED"]]
    /\ UNCHANGED <<clock, bounty_count, challengeVars, challenge_fingerprints, moneyVars>>

EvaluateSubmission(s, result) ==
    LET b == submissions[s].bounty_id
        judged == [submissions[s] EXCEPT
            !.attempt_count = @ + 1,
            !.decision = result.decision,
            !.criteria_bits = result.criteria_bits,
            !.score_bucket = result.score_bucket,
            !.reason_code = result.reason_code,
            !.verdict_code = VerdictCode(result.decision, result.reason_code)]
    IN
    /\ CanEvaluate(s)
    /\ \/ /\ result.decision = "APPROVE"
          /\ submissions' = [submissions EXCEPT ![s] =
                [judged EXCEPT !.status = "APPROVED_PENDING",
                               !.challenge_deadline = clock + bounties[b].challenge_window_seconds]]
          /\ bounties' = [bounties EXCEPT ![b] =
                [@ EXCEPT !.status = "LOCKED", !.has_provisional_winner = TRUE,
                          !.provisional_submission_id = s]]
       \/ /\ result.decision = "REJECT"
          /\ submissions' = [submissions EXCEPT ![s] = [judged EXCEPT !.status = "REJECTED"]]
          /\ UNCHANGED bounties
       \/ /\ result.decision = "INCONCLUSIVE"
          /\ submissions' = [submissions EXCEPT ![s] = [judged EXCEPT !.status = "INCONCLUSIVE"]]
          /\ UNCHANGED bounties
    /\ UNCHANGED <<clock, bounty_count, submission_count, challengeVars, keyVars, moneyVars>>

-----------------------------------------------------------------------------
\* Challenges.

\* The call must carry exactly the bond; any other value reverts.
ChallengeSubmission(sender, s, reason, digest) ==
    LET submission == submissions[s]
        bond == ChallengeBond(bounties[submission.bounty_id].reward)
        id == challenge_count + 1
    IN
    /\ challenge_count < MaxChallenges
    /\ CanChallenge(sender, s)
    /\ <<s, reason, digest>> \notin challenge_fingerprints
    /\ challenge_count' = id
    /\ challenges' = Appended(challenges, id,
        [submission_id |-> s, bounty_id |-> submission.bounty_id, challenger |-> sender,
         reason_code |-> reason, evidence_sha256 |-> digest, bond |-> bond,
         status |-> "OPEN", review_deadline |-> clock + CHALLENGE_REVIEW_TIMEOUT,
         attempt_count |-> 0, proposed_outcome |-> "", proposed_reason_code |-> "",
         proposed_error_class |-> "", bond_released |-> FALSE,
         bond_recipient |-> ZERO_ADDRESS, bond_disposition |-> "",
         bond_status |-> "ESCROWED"])
    /\ challenge_fingerprints' = challenge_fingerprints \cup {<<s, reason, digest>>}
    /\ submissions' = [submissions EXCEPT ![s] =
        [@ EXCEPT !.active_challenge_id = id, !.latest_challenge_id = id]]
    /\ balance' = balance + bond
    /\ UNCHANGED <<clock, bountyVars, submission_count, creator_submission_ids,
                   evidence_submission_ids, received>>

ReviewChallenge(c, result) ==
    LET attempts == challenges[c].attempt_count
    IN
    /\ CanReview(c)
    /\ challenges' = [challenges EXCEPT ![c] =
        [@ EXCEPT !.attempt_count = IF result.outcome = "INCONCLUSIVE" THEN attempts + 1
                                    ELSE attempts,
                  !.proposed_outcome = result.outcome,
                  !.proposed_reason_code = result.reason_code,
                  !.proposed_error_class = result.error_class]]
    /\ UNCHANGED <<clock, bountyVars, submissionVars, challenge_count, keyVars, moneyVars>>

\* finalize_challenge on a proposal to uphold: the approval is overturned, the
\* bounty goes back to work and the bond to its challenger.
UpholdChallenge(c) ==
    LET s == challenges[c].submission_id
        b == challenges[c].bounty_id
    IN
    /\ challenges[c].proposed_outcome = "UPHOLD"
    /\ challenges' = [challenges EXCEPT ![c] =
        BondRouted([@ EXCEPT !.status = "UPHELD"], challenges[c].challenger, "CHALLENGER")]
    /\ submissions' = [submissions EXCEPT
        ![s] = Overturned(@, challenges[c].proposed_reason_code)]
    /\ bounties' = [bounties EXCEPT ![b] =
        [@ EXCEPT !.has_provisional_winner = FALSE, !.provisional_submission_id = 0,
                  !.has_winner = FALSE, !.winner_submission_id = 0,
                  !.status = IF HasEvaluableSubmission(b, s) THEN "LOCKED" ELSE "OPEN"]]

\* Bug: returns the bond to a challenger who lost.
Bug_DismissChallenge(c) ==
    /\ challenges[c].proposed_outcome = "DISMISS"
    /\ challenges' = [challenges EXCEPT ![c] =
        BondRouted([@ EXCEPT !.status = "DISMISSED"], challenges[c].challenger, "CHALLENGER")]
    /\ submissions' = [submissions EXCEPT ![challenges[c].submission_id].active_challenge_id = 0]
    /\ UNCHANGED bounties

\* finalize_challenge on a proposal to dismiss: the bond goes to the creator.
DismissChallenge(c) ==
    LET s == challenges[c].submission_id
    IN
    /\ challenges[c].proposed_outcome = "DISMISS"
    /\ challenges' = [challenges EXCEPT ![c] =
        BondRouted([@ EXCEPT !.status = "DISMISSED"], submissions[s].creator, "CREATOR")]
    /\ submissions' = [submissions EXCEPT ![s].active_challenge_id = 0]
    /\ UNCHANGED bounties

FinalizeChallenge(c) ==
    /\ CanFinalize(c)
    /\ UpholdChallenge(c) \/ DismissChallenge(c)
    /\ UNCHANGED <<clock, bounty_count, submission_count, challenge_count, keyVars, moneyVars>>

TimeoutChallenge(c) ==
    /\ CanTimeout(c)
    /\ challenges' = [challenges EXCEPT ![c] =
        BondRouted([@ EXCEPT !.status = "TIMED_OUT"], challenges[c].challenger, "CHALLENGER")]
    /\ submissions' = [submissions EXCEPT ![challenges[c].submission_id].active_challenge_id = 0]
    /\ UNCHANGED <<clock, bountyVars, submission_count, challenge_count, keyVars, moneyVars>>

-----------------------------------------------------------------------------
\* Settlement: recording what is owed.

ClaimReward(sender, s) ==
    LET b == submissions[s].bounty_id
    IN
    /\ CanClaim(sender, s)
    /\ submissions' = Superseded(
        [submissions EXCEPT ![s] =
            [@ EXCEPT !.reward_claimed = TRUE, !.status = "APPROVED",
                      !.reward_amount = bounties[b].reward, !.reward_status = "PENDING"]],
        b, s, "ANOTHER_SUBMISSION_APPROVED")
    /\ bounties' = [bounties EXCEPT ![b] =
        [@ EXCEPT !.has_winner = TRUE, !.winner_submission_id = s,
                  !.has_provisional_winner = FALSE, !.provisional_submission_id = 0,
                  !.status = "FILLED", !.escrow_balance = 0]]
    /\ UNCHANGED <<clock, bounty_count, submission_count, challengeVars, keyVars, moneyVars>>

\* Bug: records the refund and keeps the reward in escrow as well.
Bug_CancelBounty(sender, b) ==
    /\ CanCancel(sender, b)
    /\ bounties' = [bounties EXCEPT ![b] =
        [@ EXCEPT !.status = "CANCELLED", !.refund_amount = bounties[b].reward,
                  !.refund_status = "PENDING"]]
    /\ UNCHANGED <<clock, bounty_count, submissionVars, challengeVars, keyVars, moneyVars>>

CancelBounty(sender, b) ==
    /\ CanCancel(sender, b)
    /\ bounties' = [bounties EXCEPT ![b] =
        [@ EXCEPT !.status = "CANCELLED", !.refund_amount = bounties[b].reward,
                  !.refund_status = "PENDING", !.escrow_balance = 0]]
    /\ UNCHANGED <<clock, bounty_count, submissionVars, challengeVars, keyVars, moneyVars>>

\* submission_count is no submission's id: nothing is excluded.
ExpireBounty(b) ==
    /\ CanExpire(b)
    /\ bounties' = [bounties EXCEPT ![b] =
        [@ EXCEPT !.status = "EXPIRED", !.refund_amount = bounties[b].reward,
                  !.refund_status = "PENDING", !.escrow_balance = 0]]
    /\ submissions' = Superseded(submissions, b, submission_count, "BOUNTY_EXPIRED")
    /\ UNCHANGED <<clock, bounty_count, submission_count, challengeVars, keyVars, moneyVars>>

-----------------------------------------------------------------------------
\* Settlement: paying it out.

\* Bug: pays and does not record that it paid.
Bug_WithdrawReward(sender, s) ==
    /\ CanWithdrawReward(sender, s)
    /\ EmitTransfer(submissions[s].creator, submissions[s].reward_amount)
    /\ UNCHANGED <<clock, bountyVars, submissionVars, challengeVars, keyVars>>

WithdrawReward(sender, s) ==
    /\ CanWithdrawReward(sender, s)
    /\ submissions' = [submissions EXCEPT ![s].reward_status = "WITHDRAWN"]
    /\ EmitTransfer(submissions[s].creator, submissions[s].reward_amount)
    /\ UNCHANGED <<clock, bountyVars, submission_count, challengeVars, keyVars>>

WithdrawRefund(sender, b) ==
    /\ CanWithdrawRefund(sender, b)
    /\ bounties' = [bounties EXCEPT ![b].refund_status = "WITHDRAWN"]
    /\ EmitTransfer(bounties[b].poster, bounties[b].refund_amount)
    /\ UNCHANGED <<clock, bounty_count, submissionVars, challengeVars, keyVars>>

WithdrawBond(sender, c) ==
    /\ CanWithdrawBond(sender, c)
    /\ challenges' = [challenges EXCEPT ![c].bond_status = "WITHDRAWN"]
    /\ EmitTransfer(challenges[c].bond_recipient, challenges[c].bond)
    /\ UNCHANGED <<clock, bountyVars, submissionVars, challenge_count, keyVars>>

\* Time passes between transactions; it never goes back.
Tick ==
    /\ clock < MaxTime
    /\ clock' = clock + 1
    /\ UNCHANGED <<bountyVars, submissionVars, challengeVars, keyVars, moneyVars>>

Next ==
    \/ \E sender \in Addresses, value \in Rewards, submission_window \in SubmissionWindows,
          evaluation_grace \in EvaluationGraces, challenge_window \in ChallengeWindows :
          PostBounty(sender, value, submission_window, evaluation_grace, challenge_window)
    \/ \E sender \in Addresses, b \in BountyIds, digest \in Digests :
          SubmitContent(sender, b, digest)
    \/ \E s \in SubmissionIds, result \in EvaluationResults : EvaluateSubmission(s, result)
    \/ \E sender \in Addresses, s \in SubmissionIds, reason \in ChallengeReasons,
          digest \in Digests : ChallengeSubmission(sender, s, reason, digest)
    \/ \E c \in ChallengeIds, result \in ReviewResults : ReviewChallenge(c, result)
    \/ \E c \in ChallengeIds : FinalizeChallenge(c)
    \/ \E c \in ChallengeIds : TimeoutChallenge(c)
    \/ \E sender \in Addresses, s \in SubmissionIds : ClaimReward(sender, s)
    \/ \E sender \in Addresses, b \in BountyIds : CancelBounty(sender, b)
    \/ \E b \in BountyIds : ExpireBounty(b)
    \/ \E sender \in Addresses, s \in SubmissionIds : WithdrawReward(sender, s)
    \/ \E sender \in Addresses, b \in BountyIds : WithdrawRefund(sender, b)
    \/ \E sender \in Addresses, c \in ChallengeIds : WithdrawBond(sender, c)
    \/ Tick

Spec == Init /\ [][Next]_vars

(***************************************************************************)
(* The datetime of transactions advances.  finalize_challenge,             *)
(* timeout_challenge and expire_bounty may be called by anyone, so each is *)
(* assumed to be called once it stays available.  claim_reward and the     *)
(* withdrawals are open to one account, which is assumed to want its       *)
(* money.  Nothing is assumed of posters, submitters, evaluators,          *)
(* challengers or reviewers.                                               *)
(***************************************************************************)
Fairness ==
    /\ WF_vars(Tick)
    /\ \A c \in 1..MaxChallenges :
        /\ WF_vars(c \in ChallengeIds /\ FinalizeChallenge(c))
        /\ WF_vars(c \in ChallengeIds /\ TimeoutChallenge(c))
        /\ WF_vars(c \in ChallengeIds /\ \E sender \in Addresses : WithdrawBond(sender, c))
    /\ \A b \in 0..(MaxBounties - 1) :
        /\ WF_vars(b \in BountyIds /\ ExpireBounty(b))
        /\ WF_vars(b \in BountyIds /\ \E sender \in Addresses : WithdrawRefund(sender, b))
    /\ \A s \in 0..(MaxSubmissions - 1) :
        /\ WF_vars(s \in SubmissionIds /\ \E sender \in Addresses : ClaimReward(sender, s))
        /\ WF_vars(s \in SubmissionIds /\ \E sender \in Addresses : WithdrawReward(sender, s))

FairSpec == Spec /\ Fairness
=============================================================================
