-------------------------- MODULE SettlementProofs --------------------------
(***************************************************************************)
(* One reward, one winner, for every instance of the contract: a bounty    *)
(* has at most one candidate, closes with nothing undecided, pays an       *)
(* approval that stood, and stays as it was settled.  The first part says  *)
(* what each method does, field by field; the second shows that every step *)
(* keeps SettlementInv; the third is about what the contract remembers and *)
(* the interface offers.                                                   *)
(***************************************************************************)
EXTENDS ContentBountyProofs, StatusActions, FiniteSetTheorems

\* The bounty's own index lists its submissions, and is empty while the count
\* that cancel_bounty reads is 0.
IndexInv ==
    \A b \in BountyIds :
        /\ bounties[b].submission_ids = SubmissionsOf(b)
        /\ bounties[b].submission_count = 0 => SubmissionsOf(b) = {}

\* The inductive form of ProvisionalWinnerIsUnique: a bounty and its candidate
\* name each other.
CandidateInv ==
    /\ \A b \in BountyIds : bounties[b].has_provisional_winner =>
        /\ bounties[b].status = "LOCKED"
        /\ bounties[b].provisional_submission_id \in SubmissionsOf(b)
        /\ submissions[bounties[b].provisional_submission_id].status = "APPROVED_PENDING"
    /\ \A s \in SubmissionIds : submissions[s].status = "APPROVED_PENDING" =>
        /\ bounties[submissions[s].bounty_id].has_provisional_winner
        /\ bounties[submissions[s].bounty_id].provisional_submission_id = s

\* A FILLED bounty and its approved submission name each other, and the
\* approval was out of its dispute window.
WinnerInv ==
    /\ \A b \in BountyIds :
        /\ bounties[b].has_winner <=> bounties[b].status = "FILLED"
        /\ bounties[b].has_winner =>
            /\ bounties[b].winner_submission_id \in SubmissionsOf(b)
            /\ submissions[bounties[b].winner_submission_id].status = "APPROVED"
    /\ \A s \in SubmissionIds : submissions[s].status = "APPROVED" =>
        /\ bounties[submissions[s].bounty_id].has_winner
        /\ bounties[submissions[s].bounty_id].winner_submission_id = s
        /\ clock >= submissions[s].challenge_deadline

\* A refund or a reward that was recorded, paid or not.
Owed(liability) == liability \in {"PENDING", "WITHDRAWN"}

\* Where the reward is, by the status of its bounty: in escrow while work goes
\* on, a refund after CANCELLED or EXPIRED, a reward of what was APPROVED.
LiabilityInv ==
    /\ \A b \in BountyIds :
        /\ Owed(bounties[b].refund_status) <=> bounties[b].status \in {"CANCELLED", "EXPIRED"}
        /\ bounties[b].status \in {"OPEN", "LOCKED"} =>
            bounties[b].escrow_balance = bounties[b].reward
    /\ \A s \in SubmissionIds :
        Owed(submissions[s].reward_status) <=> submissions[s].status = "APPROVED"

\* What is undecided belongs to a bounty at work, and to a LOCKED one while it
\* can still be evaluated.
UndecidedInv ==
    \A s \in SubmissionIds : submissions[s].status \in {"PENDING", "INCONCLUSIVE"} =>
        /\ bounties[submissions[s].bounty_id].status \in {"OPEN", "LOCKED"}
        /\ bounties[submissions[s].bounty_id].status = "OPEN" /\ Evaluable(submissions[s]) =>
            clock > bounties[submissions[s].bounty_id].evaluation_deadline

\* A challenge is about its submission's own bounty, and an upheld one left
\* the submission REJECTED for good.
UpheldInv ==
    \A c \in ChallengeIds :
        /\ challenges[c].bounty_id = submissions[challenges[c].submission_id].bounty_id
        /\ challenges[c].status = "UPHELD" =>
            submissions[challenges[c].submission_id].status = "REJECTED"

SettlementInv ==
    /\ IndexInv /\ CandidateInv /\ WinnerInv
    /\ LiabilityInv /\ UndecidedInv /\ UpheldInv

Settled == ChallengeInv /\ SettlementInv

-----------------------------------------------------------------------------
\* What each method does, field by field.  Groups of fields that a method
\* leaves alone have names.

\* What was submitted, and where.
SameEntry(s) ==
    /\ submissions'[s].bounty_id = submissions[s].bounty_id
    /\ submissions'[s].creator = submissions[s].creator
    /\ submissions'[s].evidence_sha256 = submissions[s].evidence_sha256

\* The judgment and the dispute window it opened.
SameJudgment(s) ==
    /\ submissions'[s].attempt_count = submissions[s].attempt_count
    /\ submissions'[s].criteria_bits = submissions[s].criteria_bits
    /\ submissions'[s].score_bucket = submissions[s].score_bucket
    /\ submissions'[s].verdict_code = submissions[s].verdict_code
    /\ submissions'[s].challenge_deadline = submissions[s].challenge_deadline

SameReward(s) ==
    /\ submissions'[s].reward_amount = submissions[s].reward_amount
    /\ submissions'[s].reward_status = submissions[s].reward_status

\* What the bounty was posted with.
SameTerms(b) ==
    /\ bounties'[b].poster = bounties[b].poster
    /\ bounties'[b].reward = bounties[b].reward
    /\ bounties'[b].evaluation_deadline = bounties[b].evaluation_deadline

SameIndex(b) ==
    /\ bounties'[b].submission_ids = bounties[b].submission_ids
    /\ bounties'[b].submission_count = bounties[b].submission_count

SameWinner(b) ==
    /\ bounties'[b].has_winner = bounties[b].has_winner
    /\ bounties'[b].winner_submission_id = bounties[b].winner_submission_id

SameCandidate(b) ==
    /\ bounties'[b].has_provisional_winner = bounties[b].has_provisional_winner
    /\ bounties'[b].provisional_submission_id = bounties[b].provisional_submission_id

SameMoney(b) ==
    /\ bounties'[b].escrow_balance = bounties[b].escrow_balance
    /\ bounties'[b].refund_amount = bounties[b].refund_amount
    /\ bounties'[b].refund_status = bounties[b].refund_status

\* What was challenged, by whom and for how much.
SameDispute(c) ==
    /\ challenges'[c].submission_id = challenges[c].submission_id
    /\ challenges'[c].bounty_id = challenges[c].bounty_id
    /\ challenges'[c].challenger = challenges[c].challenger
    /\ challenges'[c].reason_code = challenges[c].reason_code
    /\ challenges'[c].evidence_sha256 = challenges[c].evidence_sha256
    /\ challenges'[c].bond = challenges[c].bond

OthersKept(s) == \A t \in SubmissionIds \ {s} : submissions'[t] = submissions[t]

OtherBountiesKept(b) == \A d \in BountyIds \ {b} : bounties'[d] = bounties[d]

OtherChallengesKept(c) == \A d \in ChallengeIds \ {c} : challenges'[d] = challenges[d]

\* The ids of records that are not added to stay.
LEMMA IdsKept ==
    /\ UNCHANGED bounty_count => BountyIds' = BountyIds
    /\ UNCHANGED submission_count => SubmissionIds' = SubmissionIds
    /\ UNCHANGED challenge_count => ChallengeIds' = ChallengeIds
    BY DEF BountyIds, SubmissionIds, ChallengeIds

\* post_bounty adds an OPEN bounty that holds its reward.
LEMMA PostBountyEffect ==
    ASSUME TypeInv, NEW sender \in Addresses, NEW value \in Rewards,
           NEW sw \in SubmissionWindows, NEW eg \in EvaluationGraces, NEW cw \in ChallengeWindows,
           PostBounty(sender, value, sw, eg, cw)
    PROVE  /\ bounty_count < MaxBounties
           /\ bounty_count \notin BountyIds
           /\ BountyIds' = BountyIds \cup {bounty_count}
           /\ UNCHANGED <<clock, submissionVars, challengeVars, keyVars, received>>
           /\ balance' = balance + value
           /\ \A b \in BountyIds : bounties'[b] = bounties[b]
           /\ bounties'[bounty_count].status = "OPEN"
           /\ bounties'[bounty_count].poster = sender
           /\ bounties'[bounty_count].reward = value
           /\ bounties'[bounty_count].escrow_balance = value
           /\ bounties'[bounty_count].submission_ids = {}
           /\ bounties'[bounty_count].submission_count = 0
           /\ bounties'[bounty_count].has_winner = FALSE
           /\ bounties'[bounty_count].has_provisional_winner = FALSE
           /\ ~Owed(bounties'[bounty_count].refund_status)
<1> DEFINE record ==
        [poster |-> sender, reward |-> value,
         submission_deadline |-> clock + sw,
         evaluation_deadline |-> clock + sw + eg,
         challenge_window_seconds |-> cw, status |-> "OPEN",
         submission_count |-> 0, submission_ids |-> {},
         has_winner |-> FALSE, winner_submission_id |-> 0,
         has_provisional_winner |-> FALSE, provisional_submission_id |-> 0,
         escrow_balance |-> value, refund_amount |-> 0, refund_status |-> ""]
<1>1. /\ UNCHANGED <<clock, submissionVars, challengeVars, keyVars, received>>
      /\ bounty_count < MaxBounties
      /\ bounty_count' = bounty_count + 1
      /\ bounties' = Appended(bounties, bounty_count, record)
      /\ balance' = balance + value
    BY DEF PostBounty
<1>2. /\ record.status = "OPEN"
      /\ record.poster = sender
      /\ record.reward = value
      /\ record.escrow_balance = value
      /\ record.submission_ids = {}
      /\ record.submission_count = 0
      /\ record.has_winner = FALSE
      /\ record.has_provisional_winner = FALSE
      /\ ~Owed(record.refund_status)
    BY Zenon DEF Owed
<1> HIDE DEF record
<1>3. BountyIds' = BountyIds \cup {bounty_count} /\ bounty_count \notin BountyIds
    BY <1>1, NextBountyId DEF TypeInv, TypeOK, BountyIds
<1>4. /\ bounties'[bounty_count] = record
      /\ \A b \in BountyIds : bounties'[b] = bounties[b]
    BY <1>1, <1>3 DEF TypeInv, TypeOK, Appended
<1> QED BY <1>1, <1>2, <1>3, <1>4, Zenon

\* submit_content adds a PENDING submission to the index and locks the bounty.
LEMMA SubmitContentEffect ==
    ASSUME TypeInv, NEW sender \in Addresses, NEW b \in BountyIds, NEW digest \in Digests,
           SubmitContent(sender, b, digest)
    PROVE  /\ submission_count \notin SubmissionIds
           /\ SubmissionIds' = SubmissionIds \cup {submission_count}
           /\ UNCHANGED <<clock, bounty_count, challengeVars, challenge_fingerprints, moneyVars>>
           /\ creator_submission_ids' = creator_submission_ids \cup {<<b, sender>>}
           /\ evidence_submission_ids' = evidence_submission_ids \cup {<<b, digest>>}
           /\ CanSubmit(sender, b, digest)
           /\ \A s \in SubmissionIds : submissions'[s] = submissions[s]
           /\ submissions'[submission_count].bounty_id = b
           /\ submissions'[submission_count].creator = sender
           /\ submissions'[submission_count].evidence_sha256 = digest
           /\ submissions'[submission_count].status = "PENDING"
           /\ submissions'[submission_count].attempt_count = 0
           /\ submissions'[submission_count].verdict_code
                \notin {"ALL_CRITERIA_MET", "CHALLENGE_UPHELD"}
           /\ submissions'[submission_count].score_bucket = 0
           /\ submissions'[submission_count].active_challenge_id = 0
           /\ submissions'[submission_count].latest_challenge_id = 0
           /\ ~Owed(submissions'[submission_count].reward_status)
           /\ OtherBountiesKept(b)
           /\ SameTerms(b) /\ SameWinner(b) /\ SameCandidate(b) /\ SameMoney(b)
           /\ bounties'[b].status = "LOCKED"
           /\ bounties'[b].submission_ids = bounties[b].submission_ids \cup {submission_count}
           /\ bounties'[b].submission_count = bounties[b].submission_count + 1
<1> DEFINE record ==
        [bounty_id |-> b, creator |-> sender, evidence_sha256 |-> digest,
         status |-> "PENDING", attempt_count |-> 0, decision |-> "",
         criteria_bits |-> <<>>, score_bucket |-> 0, reason_code |-> "",
         verdict_code |-> "", challenge_deadline |-> 0, active_challenge_id |-> 0,
         latest_challenge_id |-> 0, reward_claimed |-> FALSE, reward_amount |-> 0,
         reward_status |-> ""]
           ids == bounties[b].submission_ids \cup {submission_count}
           count == bounties[b].submission_count + 1
           bounty == [bounties[b] EXCEPT !.submission_ids = ids, !.submission_count = count,
                                         !.status = "LOCKED"]
<1>1. /\ UNCHANGED <<clock, bounty_count, challengeVars, challenge_fingerprints, moneyVars>>
      /\ submission_count' = submission_count + 1
      /\ submissions' = Appended(submissions, submission_count, record)
      /\ creator_submission_ids' = creator_submission_ids \cup {<<b, sender>>}
      /\ evidence_submission_ids' = evidence_submission_ids \cup {<<b, digest>>}
      /\ bounties' = [bounties EXCEPT ![b] = bounty]
      /\ CanSubmit(sender, b, digest)
    BY DEF SubmitContent
<1>2. /\ record.bounty_id = b
      /\ record.creator = sender
      /\ record.evidence_sha256 = digest
      /\ record.status = "PENDING"
      /\ record.attempt_count = 0
      /\ record.verdict_code \notin {"ALL_CRITERIA_MET", "CHALLENGE_UPHELD"}
      /\ record.score_bucket = 0
      /\ record.active_challenge_id = 0
      /\ record.latest_challenge_id = 0
      /\ ~Owed(record.reward_status)
    BY Zenon DEF Owed
<1>3. bounties[b] \in Bounty
    BY DEF TypeInv, TypeOK
<1> HIDE DEF record, ids, count
<1>4. /\ bounty.status = "LOCKED"
      /\ bounty.submission_ids = ids
      /\ bounty.submission_count = count
      /\ bounty.poster = bounties[b].poster
      /\ bounty.reward = bounties[b].reward
      /\ bounty.evaluation_deadline = bounties[b].evaluation_deadline
      /\ bounty.has_winner = bounties[b].has_winner
      /\ bounty.winner_submission_id = bounties[b].winner_submission_id
      /\ bounty.has_provisional_winner = bounties[b].has_provisional_winner
      /\ bounty.provisional_submission_id = bounties[b].provisional_submission_id
      /\ bounty.escrow_balance = bounties[b].escrow_balance
      /\ bounty.refund_amount = bounties[b].refund_amount
      /\ bounty.refund_status = bounties[b].refund_status
    BY <1>3, ZenonT(60) DEF Bounty
<1> HIDE DEF bounty
<1>5. /\ SubmissionIds' = SubmissionIds \cup {submission_count}
      /\ submission_count \notin SubmissionIds
    BY <1>1, NextBountyId DEF TypeInv, TypeOK, SubmissionIds
<1>6. /\ submissions'[submission_count] = record
      /\ \A s \in SubmissionIds : submissions'[s] = submissions[s]
    BY <1>1, <1>5 DEF TypeInv, TypeOK, Appended
<1>7. bounties'[b] = bounty /\ OtherBountiesKept(b)
    BY <1>1 DEF TypeInv, TypeOK, OtherBountiesKept
<1>8. SameTerms(b) /\ SameWinner(b) /\ SameCandidate(b) /\ SameMoney(b)
    BY <1>4, <1>7, Zenon DEF SameTerms, SameWinner, SameCandidate, SameMoney
<1>9. /\ bounties'[b].status = "LOCKED"
      /\ bounties'[b].submission_ids = bounties[b].submission_ids \cup {submission_count}
      /\ bounties'[b].submission_count = bounties[b].submission_count + 1
    BY <1>4, <1>7 DEF ids, count
<1> QED BY <1>1, <1>2, <1>5, <1>6, <1>7, <1>8, <1>9, Zenon

\* An evaluation leaves all but its submission's judgment and status alone, and
\* only an approval reaches the bounty.
LEMMA EvaluateSubmissionEffect ==
    ASSUME TypeInv, NEW s \in SubmissionIds, NEW result \in EvaluationResults,
           EvaluateSubmission(s, result)
    PROVE  LET b == submissions[s].bounty_id
           IN
           /\ b \in BountyIds
           /\ CanEvaluate(s)
           /\ UNCHANGED <<clock, bounty_count, submission_count, challengeVars, keyVars, moneyVars>>
           /\ OthersKept(s)
           /\ SameEntry(s) /\ SameReward(s)
           /\ submissions'[s].active_challenge_id = submissions[s].active_challenge_id
           /\ submissions'[s].latest_challenge_id = submissions[s].latest_challenge_id
           /\ submissions'[s].attempt_count = submissions[s].attempt_count + 1
           /\ submissions'[s].criteria_bits = result.criteria_bits
           /\ submissions'[s].score_bucket = result.score_bucket
           /\ submissions'[s].verdict_code = VerdictCode(result.decision, result.reason_code)
           /\ \/ /\ result.decision = "APPROVE"
                 /\ submissions'[s].status = "APPROVED_PENDING"
                 /\ OtherBountiesKept(b)
                 /\ SameTerms(b) /\ SameIndex(b) /\ SameWinner(b) /\ SameMoney(b)
                 /\ bounties'[b].status = "LOCKED"
                 /\ bounties'[b].has_provisional_winner
                 /\ bounties'[b].provisional_submission_id = s
              \/ /\ result.decision = "REJECT"
                 /\ submissions'[s].status = "REJECTED"
                 /\ UNCHANGED bounties
              \/ /\ result.decision = "INCONCLUSIVE"
                 /\ submissions'[s].status = "INCONCLUSIVE"
                 /\ UNCHANGED bounties
<1> DEFINE b == submissions[s].bounty_id
           attempts == submissions[s].attempt_count + 1
           verdict == VerdictCode(result.decision, result.reason_code)
           deadline == clock + bounties[b].challenge_window_seconds
           judged == [submissions[s] EXCEPT
            !.attempt_count = attempts,
            !.decision = result.decision,
            !.criteria_bits = result.criteria_bits,
            !.score_bucket = result.score_bucket,
            !.reason_code = result.reason_code,
            !.verdict_code = verdict]
           approved == [judged EXCEPT !.status = "APPROVED_PENDING",
                                      !.challenge_deadline = deadline]
           rejected == [judged EXCEPT !.status = "REJECTED"]
           inconclusive == [judged EXCEPT !.status = "INCONCLUSIVE"]
           bounty == [bounties[b] EXCEPT !.status = "LOCKED", !.has_provisional_winner = TRUE,
                                         !.provisional_submission_id = s]
           Judged(r) ==
            /\ r.bounty_id = submissions[s].bounty_id
            /\ r.creator = submissions[s].creator
            /\ r.evidence_sha256 = submissions[s].evidence_sha256
            /\ r.reward_amount = submissions[s].reward_amount
            /\ r.reward_status = submissions[s].reward_status
            /\ r.active_challenge_id = submissions[s].active_challenge_id
            /\ r.latest_challenge_id = submissions[s].latest_challenge_id
            /\ r.attempt_count = attempts
            /\ r.criteria_bits = result.criteria_bits
            /\ r.score_bucket = result.score_bucket
            /\ r.verdict_code = verdict
<1>1. /\ UNCHANGED <<clock, bounty_count, submission_count, challengeVars, keyVars, moneyVars>>
      /\ CanEvaluate(s)
      /\ \/ /\ result.decision = "APPROVE"
            /\ submissions' = [submissions EXCEPT ![s] = approved]
            /\ bounties' = [bounties EXCEPT ![b] = bounty]
         \/ /\ result.decision = "REJECT"
            /\ submissions' = [submissions EXCEPT ![s] = rejected]
            /\ UNCHANGED bounties
         \/ /\ result.decision = "INCONCLUSIVE"
            /\ submissions' = [submissions EXCEPT ![s] = inconclusive]
            /\ UNCHANGED bounties
    BY DEF EvaluateSubmission
<1>2. submissions[s] \in Submission /\ b \in BountyIds /\ bounties[b] \in Bounty
    BY DEF TypeInv, TypeOK, References
<1> HIDE DEF attempts, verdict, deadline
<1>3. /\ Judged(approved) /\ approved.status = "APPROVED_PENDING"
      /\ Judged(rejected) /\ rejected.status = "REJECTED"
      /\ Judged(inconclusive) /\ inconclusive.status = "INCONCLUSIVE"
    BY <1>2, ZenonT(60) DEF Submission
<1>4. /\ bounty.status = "LOCKED"
      /\ bounty.has_provisional_winner = TRUE
      /\ bounty.provisional_submission_id = s
      /\ bounty.poster = bounties[b].poster
      /\ bounty.reward = bounties[b].reward
      /\ bounty.evaluation_deadline = bounties[b].evaluation_deadline
      /\ bounty.submission_ids = bounties[b].submission_ids
      /\ bounty.submission_count = bounties[b].submission_count
      /\ bounty.has_winner = bounties[b].has_winner
      /\ bounty.winner_submission_id = bounties[b].winner_submission_id
      /\ bounty.escrow_balance = bounties[b].escrow_balance
      /\ bounty.refund_amount = bounties[b].refund_amount
      /\ bounty.refund_status = bounties[b].refund_status
    <2> HIDE DEF b
    <2> QED BY <1>2, ZenonT(60) DEF Bounty
<1> HIDE DEF approved, rejected, inconclusive, bounty
<1>5. ASSUME NEW r, Judged(r), submissions' = [submissions EXCEPT ![s] = r]
      PROVE  /\ OthersKept(s)
             /\ submissions'[s] = r
    BY <1>5 DEF TypeInv, TypeOK, OthersKept
<1>6. ASSUME bounties' = [bounties EXCEPT ![b] = bounty]
      PROVE  bounties'[b] = bounty /\ OtherBountiesKept(b)
    BY <1>2, <1>6 DEF TypeInv, TypeOK, OtherBountiesKept
<1>7. /\ OthersKept(s)
      /\ Judged(submissions'[s])
      /\ \/ /\ result.decision = "APPROVE"
            /\ submissions'[s].status = "APPROVED_PENDING"
            /\ bounties'[b] = bounty
            /\ OtherBountiesKept(b)
         \/ /\ result.decision = "REJECT"
            /\ submissions'[s].status = "REJECTED"
            /\ UNCHANGED bounties
         \/ /\ result.decision = "INCONCLUSIVE"
            /\ submissions'[s].status = "INCONCLUSIVE"
            /\ UNCHANGED bounties
    <2> HIDE DEF Judged, b
    <2> QED BY <1>1, <1>3, <1>5, <1>6, Zenon
<1>8. SameEntry(s) /\ SameReward(s)
    BY <1>7 DEF SameEntry, SameReward
<1>9. ASSUME bounties'[b] = bounty
      PROVE  /\ SameTerms(b) /\ SameIndex(b) /\ SameWinner(b) /\ SameMoney(b)
             /\ bounties'[b].status = "LOCKED"
             /\ bounties'[b].has_provisional_winner
             /\ bounties'[b].provisional_submission_id = s
    <2> HIDE DEF b
    <2> QED BY <1>4, <1>9, Zenon DEF SameTerms, SameIndex, SameWinner, SameMoney
<1> QED BY <1>1, <1>2, <1>7, <1>8, <1>9, ZenonT(60) DEF attempts, verdict

\* A challenge takes its bond into escrow and marks its submission.
LEMMA ChallengeSubmissionEffect ==
    ASSUME TypeInv, NEW sender \in Addresses, NEW s \in SubmissionIds,
           NEW reason \in ChallengeReasons, NEW digest \in Digests,
           ChallengeSubmission(sender, s, reason, digest)
    PROVE  LET c == challenge_count + 1
               bond == ChallengeBond(bounties[submissions[s].bounty_id].reward)
           IN
           /\ challenge_count < MaxChallenges
           /\ c \notin ChallengeIds
           /\ ChallengeIds' = ChallengeIds \cup {c}
           /\ CanChallenge(sender, s)
           /\ <<s, reason, digest>> \notin challenge_fingerprints
           /\ challenge_fingerprints' = challenge_fingerprints \cup {<<s, reason, digest>>}
           /\ UNCHANGED <<clock, bountyVars, submission_count, creator_submission_ids,
                          evidence_submission_ids, received>>
           /\ balance' = balance + bond
           /\ OthersKept(s)
           /\ SameEntry(s) /\ SameJudgment(s) /\ SameReward(s)
           /\ submissions'[s].status = submissions[s].status
           /\ submissions'[s].active_challenge_id = c
           /\ submissions'[s].latest_challenge_id = c
           /\ \A d \in ChallengeIds : challenges'[d] = challenges[d]
           /\ challenges'[c].submission_id = s
           /\ challenges'[c].bounty_id = submissions[s].bounty_id
           /\ challenges'[c].reason_code = reason
           /\ challenges'[c].evidence_sha256 = digest
           /\ challenges'[c].bond = bond
           /\ challenges'[c].status = "OPEN"
           /\ challenges'[c].bond_recipient = ZERO_ADDRESS
           /\ challenges'[c].bond_status = "ESCROWED"
<1> DEFINE id == challenge_count + 1
           b == submissions[s].bounty_id
           bond == ChallengeBond(bounties[b].reward)
           record ==
        [submission_id |-> s, bounty_id |-> b, challenger |-> sender,
         reason_code |-> reason, evidence_sha256 |-> digest, bond |-> bond,
         status |-> "OPEN", review_deadline |-> clock + CHALLENGE_REVIEW_TIMEOUT,
         attempt_count |-> 0, proposed_outcome |-> "", proposed_reason_code |-> "",
         proposed_error_class |-> "", bond_released |-> FALSE,
         bond_recipient |-> ZERO_ADDRESS, bond_disposition |-> "",
         bond_status |-> "ESCROWED"]
           submission == [submissions[s] EXCEPT !.active_challenge_id = id,
                                                !.latest_challenge_id = id]
<1>1. /\ UNCHANGED <<clock, bountyVars, submission_count, creator_submission_ids,
                     evidence_submission_ids, received>>
      /\ challenge_count < MaxChallenges
      /\ CanChallenge(sender, s)
      /\ <<s, reason, digest>> \notin challenge_fingerprints
      /\ challenge_count' = id
      /\ challenges' = Appended(challenges, id, record)
      /\ challenge_fingerprints' = challenge_fingerprints \cup {<<s, reason, digest>>}
      /\ submissions' = [submissions EXCEPT ![s] = submission]
      /\ balance' = balance + bond
    BY DEF ChallengeSubmission
<1>2. /\ record.submission_id = s
      /\ record.bounty_id = b
      /\ record.reason_code = reason
      /\ record.evidence_sha256 = digest
      /\ record.bond = bond
      /\ record.status = "OPEN"
      /\ record.bond_recipient = ZERO_ADDRESS
      /\ record.bond_status = "ESCROWED"
    OBVIOUS
<1>3. submissions[s] \in Submission
    BY DEF TypeInv, TypeOK
<1> HIDE DEF record
<1>4. ChallengeIds' = ChallengeIds \cup {id} /\ id \notin ChallengeIds
    <2> HIDE DEF submission
    <2> QED BY <1>1, NextChallengeId DEF TypeInv, TypeOK, ChallengeIds
<1> HIDE DEF id
<1>5. /\ submission.bounty_id = submissions[s].bounty_id
      /\ submission.creator = submissions[s].creator
      /\ submission.evidence_sha256 = submissions[s].evidence_sha256
      /\ submission.status = submissions[s].status
      /\ submission.attempt_count = submissions[s].attempt_count
      /\ submission.criteria_bits = submissions[s].criteria_bits
      /\ submission.score_bucket = submissions[s].score_bucket
      /\ submission.verdict_code = submissions[s].verdict_code
      /\ submission.challenge_deadline = submissions[s].challenge_deadline
      /\ submission.active_challenge_id = id
      /\ submission.latest_challenge_id = id
      /\ submission.reward_amount = submissions[s].reward_amount
      /\ submission.reward_status = submissions[s].reward_status
    BY <1>3, ZenonT(60) DEF Submission
<1> HIDE DEF submission, bond
<1>6. submissions'[s] = submission /\ OthersKept(s)
    BY <1>1 DEF TypeInv, TypeOK, OthersKept
<1>7. SameEntry(s) /\ SameJudgment(s) /\ SameReward(s)
    BY <1>5, <1>6, Zenon DEF SameEntry, SameJudgment, SameReward
<1>8. /\ challenges'[id] = record
      /\ \A d \in ChallengeIds : challenges'[d] = challenges[d]
    BY <1>1, <1>4 DEF TypeInv, TypeOK, Appended
<1> QED BY <1>1, <1>2, <1>4, <1>5, <1>6, <1>7, <1>8, ZenonT(60) DEF id, bond

\* A review changes the proposal of an open challenge, nothing else.
LEMMA ReviewChallengeEffect ==
    ASSUME TypeInv, NEW c \in ChallengeIds, NEW result, ReviewChallenge(c, result)
    PROVE  /\ UNCHANGED <<clock, bountyVars, submissionVars, challenge_count, keyVars, moneyVars>>
           /\ OtherChallengesKept(c) /\ SameDispute(c)
           /\ challenges'[c].status = challenges[c].status
           /\ challenges'[c].bond_recipient = challenges[c].bond_recipient
           /\ challenges'[c].bond_status = challenges[c].bond_status
<1> DEFINE attempts == IF result.outcome = "INCONCLUSIVE" THEN challenges[c].attempt_count + 1
                       ELSE challenges[c].attempt_count
           record == [challenges[c] EXCEPT !.attempt_count = attempts,
                                           !.proposed_outcome = result.outcome,
                                           !.proposed_reason_code = result.reason_code,
                                           !.proposed_error_class = result.error_class]
<1>1. /\ challenges' = [challenges EXCEPT ![c] = record]
      /\ UNCHANGED <<clock, bountyVars, submissionVars, challenge_count, keyVars, moneyVars>>
    BY DEF ReviewChallenge
<1>2. challenges[c] \in Challenge
    BY DEF TypeInv, TypeOK
<1> HIDE DEF attempts
<1>3. /\ record.submission_id = challenges[c].submission_id
      /\ record.bounty_id = challenges[c].bounty_id
      /\ record.challenger = challenges[c].challenger
      /\ record.reason_code = challenges[c].reason_code
      /\ record.evidence_sha256 = challenges[c].evidence_sha256
      /\ record.bond = challenges[c].bond
      /\ record.status = challenges[c].status
      /\ record.bond_recipient = challenges[c].bond_recipient
      /\ record.bond_status = challenges[c].bond_status
    BY <1>2, ZenonT(60) DEF Challenge
<1> HIDE DEF record
<1>4. challenges'[c] = record /\ OtherChallengesKept(c)
    BY <1>1 DEF TypeInv, TypeOK, OtherChallengesKept
<1> QED BY <1>1, <1>3, <1>4, Zenon DEF SameDispute

\* Routing a bond says whose it is now.
LEMMA BondRoutedEffect ==
    ASSUME TypeInv, NEW c \in ChallengeIds, NEW status, NEW recipient, NEW disposition,
           challenges' = [challenges EXCEPT ![c] =
            BondRouted([challenges[c] EXCEPT !.status = status], recipient, disposition)]
    PROVE  /\ OtherChallengesKept(c) /\ SameDispute(c)
           /\ challenges'[c].status = status
           /\ challenges'[c].bond_recipient = recipient
           /\ challenges'[c].bond_status = "PENDING"
<1> DEFINE record == BondRouted([challenges[c] EXCEPT !.status = status], recipient, disposition)
<1>1. challenges[c] \in Challenge
    BY DEF TypeInv, TypeOK
<1>2. /\ record.submission_id = challenges[c].submission_id
      /\ record.bounty_id = challenges[c].bounty_id
      /\ record.challenger = challenges[c].challenger
      /\ record.reason_code = challenges[c].reason_code
      /\ record.evidence_sha256 = challenges[c].evidence_sha256
      /\ record.bond = challenges[c].bond
      /\ record.status = status
      /\ record.bond_recipient = recipient
      /\ record.bond_status = "PENDING"
    BY <1>1, ZenonT(60) DEF BondRouted, Challenge
<1> HIDE DEF record
<1>3. challenges'[c] = record /\ OtherChallengesKept(c)
    BY DEF record, TypeInv, TypeOK, OtherChallengesKept
<1> QED BY <1>2, <1>3, Zenon DEF SameDispute

\* Upholding overturns the approval and returns the bounty to work.
LEMMA UpholdChallengeEffect ==
    ASSUME TypeInv, NEW c \in ChallengeIds, FinalizeChallenge(c), UpholdChallenge(c)
    PROVE  LET s == challenges[c].submission_id
               b == challenges[c].bounty_id
           IN
           /\ s \in SubmissionIds /\ b \in BountyIds
           /\ CanFinalize(c)
           /\ UNCHANGED <<clock, bounty_count, submission_count, challenge_count, keyVars, moneyVars>>
           /\ OtherChallengesKept(c) /\ SameDispute(c)
           /\ challenges'[c].status = "UPHELD"
           /\ challenges'[c].bond_recipient = challenges[c].challenger
           /\ challenges'[c].bond_status = "PENDING"
           /\ OthersKept(s) /\ SameEntry(s) /\ SameReward(s)
           /\ submissions'[s].status = "REJECTED"
           /\ submissions'[s].attempt_count = submissions[s].attempt_count
           /\ submissions'[s].score_bucket = 0
           /\ submissions'[s].verdict_code = "CHALLENGE_UPHELD"
           /\ submissions'[s].active_challenge_id = 0
           /\ submissions'[s].latest_challenge_id = submissions[s].latest_challenge_id
           /\ OtherBountiesKept(b)
           /\ SameTerms(b) /\ SameIndex(b) /\ SameMoney(b)
           /\ bounties'[b].has_winner = FALSE
           /\ bounties'[b].has_provisional_winner = FALSE
           /\ bounties'[b].status = IF HasEvaluableSubmission(b, s) THEN "LOCKED" ELSE "OPEN"
<1> DEFINE s == challenges[c].submission_id
           b == challenges[c].bounty_id
           reason == challenges[c].proposed_reason_code
           status == IF HasEvaluableSubmission(b, s) THEN "LOCKED" ELSE "OPEN"
           submission == Overturned(submissions[s], reason)
           bounty == [bounties[b] EXCEPT
                !.has_provisional_winner = FALSE, !.provisional_submission_id = 0,
                !.has_winner = FALSE, !.winner_submission_id = 0, !.status = status]
<1>1. /\ UNCHANGED <<clock, bounty_count, submission_count, challenge_count, keyVars, moneyVars>>
      /\ CanFinalize(c)
      /\ challenges' = [challenges EXCEPT ![c] =
            BondRouted([challenges[c] EXCEPT !.status = "UPHELD"],
                       challenges[c].challenger, "CHALLENGER")]
      /\ submissions' = [submissions EXCEPT ![s] = submission]
      /\ bounties' = [bounties EXCEPT ![b] = bounty]
    BY DEF FinalizeChallenge, UpholdChallenge
<1>2. /\ s \in SubmissionIds /\ submissions[s] \in Submission
      /\ b \in BountyIds /\ bounties[b] \in Bounty
    BY DEF TypeInv, TypeOK, References
<1> HIDE DEF s, b, reason, status
<1>3. /\ submission.bounty_id = submissions[s].bounty_id
      /\ submission.creator = submissions[s].creator
      /\ submission.evidence_sha256 = submissions[s].evidence_sha256
      /\ submission.status = "REJECTED"
      /\ submission.attempt_count = submissions[s].attempt_count
      /\ submission.score_bucket = 0
      /\ submission.verdict_code = "CHALLENGE_UPHELD"
      /\ submission.active_challenge_id = 0
      /\ submission.latest_challenge_id = submissions[s].latest_challenge_id
      /\ submission.reward_amount = submissions[s].reward_amount
      /\ submission.reward_status = submissions[s].reward_status
    BY <1>2, ZenonT(60) DEF Overturned, Submission
<1>4. /\ bounty.status = status
      /\ bounty.has_winner = FALSE
      /\ bounty.has_provisional_winner = FALSE
      /\ bounty.poster = bounties[b].poster
      /\ bounty.reward = bounties[b].reward
      /\ bounty.evaluation_deadline = bounties[b].evaluation_deadline
      /\ bounty.submission_ids = bounties[b].submission_ids
      /\ bounty.submission_count = bounties[b].submission_count
      /\ bounty.escrow_balance = bounties[b].escrow_balance
      /\ bounty.refund_amount = bounties[b].refund_amount
      /\ bounty.refund_status = bounties[b].refund_status
    BY <1>2, ZenonT(60) DEF Bounty
<1> HIDE DEF submission, bounty
<1>5. submissions'[s] = submission /\ OthersKept(s)
    BY <1>1, <1>2 DEF TypeInv, TypeOK, OthersKept
<1>6. bounties'[b] = bounty /\ OtherBountiesKept(b)
    BY <1>1, <1>2 DEF TypeInv, TypeOK, OtherBountiesKept
<1>7. /\ OtherChallengesKept(c) /\ SameDispute(c)
      /\ challenges'[c].status = "UPHELD"
      /\ challenges'[c].bond_recipient = challenges[c].challenger
      /\ challenges'[c].bond_status = "PENDING"
    BY <1>1, BondRoutedEffect
<1>8. SameEntry(s) /\ SameReward(s)
    BY <1>3, <1>5, Zenon DEF SameEntry, SameReward
<1>9. SameTerms(b) /\ SameIndex(b) /\ SameMoney(b)
    BY <1>4, <1>6, Zenon DEF SameTerms, SameIndex, SameMoney
<1> QED
    BY <1>1, <1>2, <1>3, <1>4, <1>5, <1>6, <1>7, <1>8, <1>9, ZenonT(60) DEF s, b, status

\* A dismissed or timed-out challenge leaves the approval as it was.
LEMMA ChallengeClosedEffect ==
    ASSUME TypeInv, NEW c \in ChallengeIds,
           \/ FinalizeChallenge(c) /\ DismissChallenge(c)
           \/ TimeoutChallenge(c)
    PROVE  LET s == challenges[c].submission_id
           IN
           /\ s \in SubmissionIds
           /\ challenges[c].status = "OPEN"
           /\ UNCHANGED <<clock, bountyVars, submission_count, challenge_count, keyVars, moneyVars>>
           /\ OtherChallengesKept(c) /\ SameDispute(c)
           /\ challenges'[c].status \in {"DISMISSED", "TIMED_OUT"}
           /\ challenges'[c].bond_recipient \in {submissions[s].creator, challenges[c].challenger}
           /\ challenges'[c].bond_status = "PENDING"
           /\ OthersKept(s) /\ SameEntry(s) /\ SameJudgment(s) /\ SameReward(s)
           /\ submissions'[s].status = submissions[s].status
           /\ submissions'[s].active_challenge_id = 0
           /\ submissions'[s].latest_challenge_id = submissions[s].latest_challenge_id
<1> DEFINE s == challenges[c].submission_id
           submission == [submissions[s] EXCEPT !.active_challenge_id = 0]
<1>1. /\ UNCHANGED <<clock, bountyVars, submission_count, challenge_count, keyVars, moneyVars>>
      /\ challenges[c].status = "OPEN"
      /\ submissions' = [submissions EXCEPT ![s] = submission]
      /\ \/ challenges' = [challenges EXCEPT ![c] =
                BondRouted([challenges[c] EXCEPT !.status = "DISMISSED"],
                           submissions[s].creator, "CREATOR")]
         \/ challenges' = [challenges EXCEPT ![c] =
                BondRouted([challenges[c] EXCEPT !.status = "TIMED_OUT"],
                           challenges[c].challenger, "CHALLENGER")]
    BY DEF FinalizeChallenge, DismissChallenge, TimeoutChallenge, CanFinalize, CanTimeout, bountyVars
<1>2. s \in SubmissionIds /\ submissions[s] \in Submission
    BY DEF TypeInv, TypeOK, References
<1> HIDE DEF s
<1>3. /\ submission.bounty_id = submissions[s].bounty_id
      /\ submission.creator = submissions[s].creator
      /\ submission.evidence_sha256 = submissions[s].evidence_sha256
      /\ submission.status = submissions[s].status
      /\ submission.attempt_count = submissions[s].attempt_count
      /\ submission.criteria_bits = submissions[s].criteria_bits
      /\ submission.score_bucket = submissions[s].score_bucket
      /\ submission.verdict_code = submissions[s].verdict_code
      /\ submission.challenge_deadline = submissions[s].challenge_deadline
      /\ submission.active_challenge_id = 0
      /\ submission.latest_challenge_id = submissions[s].latest_challenge_id
      /\ submission.reward_amount = submissions[s].reward_amount
      /\ submission.reward_status = submissions[s].reward_status
    BY <1>2, ZenonT(60) DEF Submission
<1> HIDE DEF submission
<1>4. submissions'[s] = submission /\ OthersKept(s)
    BY <1>1, <1>2 DEF TypeInv, TypeOK, OthersKept
<1>5. SameEntry(s) /\ SameJudgment(s) /\ SameReward(s)
    BY <1>3, <1>4, Zenon DEF SameEntry, SameJudgment, SameReward
<1>6. /\ OtherChallengesKept(c) /\ SameDispute(c)
      /\ challenges'[c].status \in {"DISMISSED", "TIMED_OUT"}
      /\ challenges'[c].bond_recipient \in {submissions[s].creator, challenges[c].challenger}
      /\ challenges'[c].bond_status = "PENDING"
    BY <1>1, BondRoutedEffect
<1> QED BY <1>1, <1>2, <1>3, <1>4, <1>5, <1>6, ZenonT(60) DEF s

\* Superseding changes the status of what is undecided, and of nothing else.
LEMMA SupersededEffect ==
    ASSUME NEW Ids, NEW array \in [Ids -> Submission], NEW b, NEW winner, NEW reason, NEW s \in Ids,
           s \in bounties[b].submission_ids \ {winner},
           array[s].status \in {"PENDING", "INCONCLUSIVE"}
    PROVE  LET superseded == Superseded(array, b, winner, reason)[s]
           IN  /\ superseded.status = "SUPERSEDED"
               /\ superseded.bounty_id = array[s].bounty_id
               /\ superseded.creator = array[s].creator
               /\ superseded.evidence_sha256 = array[s].evidence_sha256
               /\ superseded.attempt_count = array[s].attempt_count
               /\ superseded.criteria_bits = array[s].criteria_bits
               /\ superseded.score_bucket = array[s].score_bucket
               /\ superseded.verdict_code = array[s].verdict_code
               /\ superseded.challenge_deadline = array[s].challenge_deadline
               /\ superseded.active_challenge_id = array[s].active_challenge_id
               /\ superseded.latest_challenge_id = array[s].latest_challenge_id
               /\ superseded.reward_amount = array[s].reward_amount
               /\ superseded.reward_status = array[s].reward_status
<1> DEFINE record == [array[s] EXCEPT !.status = "SUPERSEDED", !.reason_code = reason]
<1>1. Superseded(array, b, winner, reason)[s] = record
    BY DEF Superseded
<1>2. array[s] \in Submission
    OBVIOUS
<1>3. /\ record.status = "SUPERSEDED"
      /\ record.bounty_id = array[s].bounty_id
      /\ record.creator = array[s].creator
      /\ record.evidence_sha256 = array[s].evidence_sha256
      /\ record.attempt_count = array[s].attempt_count
      /\ record.criteria_bits = array[s].criteria_bits
      /\ record.score_bucket = array[s].score_bucket
      /\ record.verdict_code = array[s].verdict_code
      /\ record.challenge_deadline = array[s].challenge_deadline
      /\ record.active_challenge_id = array[s].active_challenge_id
      /\ record.latest_challenge_id = array[s].latest_challenge_id
      /\ record.reward_amount = array[s].reward_amount
      /\ record.reward_status = array[s].reward_status
    BY <1>2, ZenonT(60) DEF Submission
<1> HIDE DEF record
<1> QED BY <1>1, <1>3

SameLinks(s) ==
    /\ submissions'[s].active_challenge_id = submissions[s].active_challenge_id
    /\ submissions'[s].latest_challenge_id = submissions[s].latest_challenge_id

\* What settling bounty b does to a submission that is not its winner.
SupersededIfUndecided(b, s) ==
    IF s \in bounties[b].submission_ids /\ submissions[s].status \in {"PENDING", "INCONCLUSIVE"}
    THEN /\ SameEntry(s) /\ SameJudgment(s) /\ SameReward(s) /\ SameLinks(s)
         /\ submissions'[s].status = "SUPERSEDED"
    ELSE submissions'[s] = submissions[s]

\* Superseding an array that agrees with submissions on s.
LEMMA SupersededAgrees ==
    ASSUME NEW array \in [SubmissionIds -> Submission], NEW b, NEW winner, NEW reason,
           submissions' = Superseded(array, b, winner, reason),
           NEW s \in SubmissionIds \ {winner}, array[s] = submissions[s]
    PROVE  SupersededIfUndecided(b, s)
<1>1. CASE s \in bounties[b].submission_ids /\ submissions[s].status \in {"PENDING", "INCONCLUSIVE"}
    <2>1. LET superseded == submissions'[s]
          IN  /\ superseded.status = "SUPERSEDED"
              /\ superseded.bounty_id = submissions[s].bounty_id
              /\ superseded.creator = submissions[s].creator
              /\ superseded.evidence_sha256 = submissions[s].evidence_sha256
              /\ superseded.attempt_count = submissions[s].attempt_count
              /\ superseded.criteria_bits = submissions[s].criteria_bits
              /\ superseded.score_bucket = submissions[s].score_bucket
              /\ superseded.verdict_code = submissions[s].verdict_code
              /\ superseded.challenge_deadline = submissions[s].challenge_deadline
              /\ superseded.active_challenge_id = submissions[s].active_challenge_id
              /\ superseded.latest_challenge_id = submissions[s].latest_challenge_id
              /\ superseded.reward_amount = submissions[s].reward_amount
              /\ superseded.reward_status = submissions[s].reward_status
        BY <1>1, SupersededEffect
    <2> QED
        BY <1>1, <2>1
           DEF SupersededIfUndecided, SameEntry, SameJudgment, SameReward, SameLinks
<1>2. CASE ~(s \in bounties[b].submission_ids /\ submissions[s].status \in {"PENDING", "INCONCLUSIVE"})
    BY <1>2 DEF SupersededIfUndecided, Superseded
<1> QED BY <1>1, <1>2

\* A claim records the reward, fills the bounty and supersedes the undecided.
LEMMA ClaimRewardEffect ==
    ASSUME TypeInv, NEW sender \in Addresses, NEW s \in SubmissionIds, ClaimReward(sender, s)
    PROVE  LET b == submissions[s].bounty_id
           IN
           /\ b \in BountyIds
           /\ CanClaim(sender, s)
           /\ UNCHANGED <<clock, bounty_count, submission_count, challengeVars, keyVars, moneyVars>>
           /\ \A t \in SubmissionIds \ {s} : SupersededIfUndecided(b, t)
           /\ SameEntry(s) /\ SameJudgment(s) /\ SameLinks(s)
           /\ submissions'[s].status = "APPROVED"
           /\ submissions'[s].reward_amount = bounties[b].reward
           /\ submissions'[s].reward_status = "PENDING"
           /\ OtherBountiesKept(b)
           /\ SameTerms(b) /\ SameIndex(b)
           /\ bounties'[b].status = "FILLED"
           /\ bounties'[b].has_winner
           /\ bounties'[b].winner_submission_id = s
           /\ ~bounties'[b].has_provisional_winner
           /\ bounties'[b].escrow_balance = 0
           /\ bounties'[b].refund_amount = bounties[b].refund_amount
           /\ bounties'[b].refund_status = bounties[b].refund_status
<1> DEFINE b == submissions[s].bounty_id
           amount == bounties[b].reward
           reason == "ANOTHER_SUBMISSION_APPROVED"
           submission == [submissions[s] EXCEPT
                !.reward_claimed = TRUE, !.status = "APPROVED",
                !.reward_amount = amount, !.reward_status = "PENDING"]
           array == [submissions EXCEPT ![s] = submission]
           bounty == [bounties[b] EXCEPT
                !.has_winner = TRUE, !.winner_submission_id = s,
                !.has_provisional_winner = FALSE, !.provisional_submission_id = 0,
                !.status = "FILLED", !.escrow_balance = 0]
<1>1. /\ UNCHANGED <<clock, bounty_count, submission_count, challengeVars, keyVars, moneyVars>>
      /\ CanClaim(sender, s)
      /\ submissions' = Superseded(array, b, s, reason)
      /\ bounties' = [bounties EXCEPT ![b] = bounty]
    BY DEF ClaimReward
<1>2. /\ submissions[s] \in Submission
      /\ b \in BountyIds
      /\ bounties[b] \in Bounty
    BY DEF TypeInv, TypeOK, References
<1>3. amount \in Nat
    BY <1>2, RewardAssumption DEF Bounty
<1> HIDE DEF b, amount, reason
<1>4. submission \in Submission
    BY <1>2, <1>3, ZenonT(60) DEF Submission, SubmissionStatuses, LiabilityStatuses
<1>5. /\ submission.bounty_id = submissions[s].bounty_id
      /\ submission.creator = submissions[s].creator
      /\ submission.evidence_sha256 = submissions[s].evidence_sha256
      /\ submission.status = "APPROVED"
      /\ submission.attempt_count = submissions[s].attempt_count
      /\ submission.criteria_bits = submissions[s].criteria_bits
      /\ submission.score_bucket = submissions[s].score_bucket
      /\ submission.verdict_code = submissions[s].verdict_code
      /\ submission.challenge_deadline = submissions[s].challenge_deadline
      /\ submission.active_challenge_id = submissions[s].active_challenge_id
      /\ submission.latest_challenge_id = submissions[s].latest_challenge_id
      /\ submission.reward_amount = amount
      /\ submission.reward_status = "PENDING"
    BY <1>2, ZenonT(60) DEF Submission
<1>6. /\ bounty.status = "FILLED"
      /\ bounty.has_winner = TRUE
      /\ bounty.winner_submission_id = s
      /\ bounty.has_provisional_winner = FALSE
      /\ bounty.escrow_balance = 0
      /\ bounty.poster = bounties[b].poster
      /\ bounty.reward = bounties[b].reward
      /\ bounty.evaluation_deadline = bounties[b].evaluation_deadline
      /\ bounty.submission_ids = bounties[b].submission_ids
      /\ bounty.submission_count = bounties[b].submission_count
      /\ bounty.refund_amount = bounties[b].refund_amount
      /\ bounty.refund_status = bounties[b].refund_status
    BY <1>2, ZenonT(60) DEF Bounty
<1> HIDE DEF submission, bounty
<1>7. /\ array \in [SubmissionIds -> Submission]
      /\ array[s] = submission
      /\ \A t \in SubmissionIds \ {s} : array[t] = submissions[t]
    BY <1>4 DEF TypeInv, TypeOK
<1> HIDE DEF array
<1>8. submissions'[s] = submission
    BY <1>1, <1>7 DEF Superseded
<1>9. \A t \in SubmissionIds \ {s} : SupersededIfUndecided(b, t)
    BY <1>1, <1>7, SupersededAgrees
<1>10. SameEntry(s) /\ SameJudgment(s) /\ SameLinks(s)
    BY <1>5, <1>8, Zenon DEF SameEntry, SameJudgment, SameLinks
<1>11. bounties'[b] = bounty /\ OtherBountiesKept(b)
    BY <1>1, <1>2 DEF TypeInv, TypeOK, OtherBountiesKept
<1>12. SameTerms(b) /\ SameIndex(b)
    BY <1>6, <1>11, Zenon DEF SameTerms, SameIndex
<1> QED
    BY <1>1, <1>2, <1>5, <1>6, <1>8, <1>9, <1>10, <1>11, <1>12, ZenonT(60) DEF b, amount

\* Recording a refund of bounty b.
RefundRecorded(b, status) ==
    /\ OtherBountiesKept(b)
    /\ SameTerms(b) /\ SameIndex(b) /\ SameWinner(b) /\ SameCandidate(b)
    /\ bounties'[b].status = status
    /\ bounties'[b].escrow_balance = 0
    /\ bounties'[b].refund_amount = bounties[b].reward
    /\ bounties'[b].refund_status = "PENDING"

\* Cancellation and expiry record the refund alike.
LEMMA RefundRecordedEffect ==
    ASSUME TypeInv, NEW b \in BountyIds, NEW status,
           bounties' = [bounties EXCEPT ![b] =
            [bounties[b] EXCEPT !.status = status, !.refund_amount = bounties[b].reward,
                                !.refund_status = "PENDING", !.escrow_balance = 0]]
    PROVE  RefundRecorded(b, status)
<1> DEFINE amount == bounties[b].reward
           bounty == [bounties[b] EXCEPT !.status = status, !.refund_amount = amount,
                                         !.refund_status = "PENDING", !.escrow_balance = 0]
<1>1. bounties' = [bounties EXCEPT ![b] = bounty]
    OBVIOUS
<1>2. bounties[b] \in Bounty
    BY DEF TypeInv, TypeOK
<1> HIDE DEF amount
<1>3. /\ bounty.status = status
      /\ bounty.escrow_balance = 0
      /\ bounty.refund_amount = amount
      /\ bounty.refund_status = "PENDING"
      /\ bounty.has_winner = bounties[b].has_winner
      /\ bounty.winner_submission_id = bounties[b].winner_submission_id
      /\ bounty.has_provisional_winner = bounties[b].has_provisional_winner
      /\ bounty.provisional_submission_id = bounties[b].provisional_submission_id
      /\ bounty.poster = bounties[b].poster
      /\ bounty.reward = bounties[b].reward
      /\ bounty.evaluation_deadline = bounties[b].evaluation_deadline
      /\ bounty.submission_ids = bounties[b].submission_ids
      /\ bounty.submission_count = bounties[b].submission_count
    BY <1>2, ZenonT(60) DEF Bounty
<1> HIDE DEF bounty
<1>4. bounties'[b] = bounty /\ OtherBountiesKept(b)
    BY <1>1 DEF TypeInv, TypeOK, OtherBountiesKept
<1>5. SameTerms(b) /\ SameIndex(b) /\ SameWinner(b) /\ SameCandidate(b)
    BY <1>3, <1>4, Zenon DEF SameTerms, SameIndex, SameWinner, SameCandidate
<1> QED BY <1>3, <1>4, <1>5, Zenon DEF RefundRecorded, amount

\* A cancellation touches its bounty only.
LEMMA CancelBountyEffect ==
    ASSUME TypeInv, NEW sender \in Addresses, NEW b \in BountyIds, CancelBounty(sender, b)
    PROVE  /\ CanCancel(sender, b)
           /\ UNCHANGED <<clock, bounty_count, submissionVars, challengeVars, keyVars, moneyVars>>
           /\ RefundRecorded(b, "CANCELLED")
    BY RefundRecordedEffect DEF CancelBounty

\* An expiry supersedes whatever the bounty left undecided.
LEMMA ExpireBountyEffect ==
    ASSUME TypeInv, NEW b \in BountyIds, ExpireBounty(b)
    PROVE  /\ CanExpire(b)
           /\ UNCHANGED <<clock, bounty_count, submission_count, challengeVars, keyVars, moneyVars>>
           /\ RefundRecorded(b, "EXPIRED")
           /\ \A s \in SubmissionIds : SupersededIfUndecided(b, s)
<1>1. /\ CanExpire(b)
      /\ UNCHANGED <<clock, bounty_count, submission_count, challengeVars, keyVars, moneyVars>>
      /\ submissions' = Superseded(submissions, b, submission_count, "BOUNTY_EXPIRED")
      /\ bounties' = [bounties EXCEPT ![b] =
            [bounties[b] EXCEPT !.status = "EXPIRED", !.refund_amount = bounties[b].reward,
                                !.refund_status = "PENDING", !.escrow_balance = 0]]
    BY DEF ExpireBounty
<1>2. RefundRecorded(b, "EXPIRED")
    BY <1>1, RefundRecordedEffect
<1>3. submissions \in [SubmissionIds -> Submission] /\ submission_count \notin SubmissionIds
    BY DEF TypeInv, TypeOK, SubmissionIds
<1>4. \A s \in SubmissionIds : SupersededIfUndecided(b, s)
    BY <1>1, <1>3, SupersededAgrees
<1> QED BY <1>1, <1>2, <1>4

\* A withdrawal of a reward marks it and pays it.
LEMMA WithdrawRewardEffect ==
    ASSUME TypeInv, NEW sender \in Addresses, NEW s \in SubmissionIds, WithdrawReward(sender, s)
    PROVE  /\ CanWithdrawReward(sender, s)
           /\ UNCHANGED <<clock, bountyVars, submission_count, challengeVars, keyVars>>
           /\ EmitTransfer(submissions[s].creator, submissions[s].reward_amount)
           /\ OthersKept(s) /\ SameEntry(s) /\ SameJudgment(s) /\ SameLinks(s)
           /\ submissions'[s].status = submissions[s].status
           /\ submissions'[s].reward_amount = submissions[s].reward_amount
           /\ submissions'[s].reward_status = "WITHDRAWN"
<1> DEFINE submission == [submissions[s] EXCEPT !.reward_status = "WITHDRAWN"]
<1>1. /\ submissions' = [submissions EXCEPT ![s] = submission]
      /\ CanWithdrawReward(sender, s)
      /\ EmitTransfer(submissions[s].creator, submissions[s].reward_amount)
      /\ UNCHANGED <<clock, bountyVars, submission_count, challengeVars, keyVars>>
    BY DEF WithdrawReward
<1>2. submissions[s] \in Submission
    BY DEF TypeInv, TypeOK
<1>3. /\ submission.bounty_id = submissions[s].bounty_id
      /\ submission.creator = submissions[s].creator
      /\ submission.evidence_sha256 = submissions[s].evidence_sha256
      /\ submission.status = submissions[s].status
      /\ submission.attempt_count = submissions[s].attempt_count
      /\ submission.criteria_bits = submissions[s].criteria_bits
      /\ submission.score_bucket = submissions[s].score_bucket
      /\ submission.verdict_code = submissions[s].verdict_code
      /\ submission.challenge_deadline = submissions[s].challenge_deadline
      /\ submission.active_challenge_id = submissions[s].active_challenge_id
      /\ submission.latest_challenge_id = submissions[s].latest_challenge_id
      /\ submission.reward_amount = submissions[s].reward_amount
      /\ submission.reward_status = "WITHDRAWN"
    BY <1>2, ZenonT(60) DEF Submission
<1> HIDE DEF submission
<1>4. submissions'[s] = submission /\ OthersKept(s)
    BY <1>1 DEF TypeInv, TypeOK, OthersKept
<1>5. SameEntry(s) /\ SameJudgment(s) /\ SameLinks(s)
    BY <1>3, <1>4, Zenon DEF SameEntry, SameJudgment, SameLinks
<1> QED BY <1>1, <1>3, <1>4, <1>5, Zenon

\* A withdrawal of a refund marks it and pays it.
LEMMA WithdrawRefundEffect ==
    ASSUME TypeInv, NEW sender \in Addresses, NEW b \in BountyIds, WithdrawRefund(sender, b)
    PROVE  /\ CanWithdrawRefund(sender, b)
           /\ UNCHANGED <<clock, bounty_count, submissionVars, challengeVars, keyVars>>
           /\ EmitTransfer(bounties[b].poster, bounties[b].refund_amount)
           /\ OtherBountiesKept(b)
           /\ SameTerms(b) /\ SameIndex(b) /\ SameWinner(b) /\ SameCandidate(b)
           /\ bounties'[b].status = bounties[b].status
           /\ bounties'[b].escrow_balance = bounties[b].escrow_balance
           /\ bounties'[b].refund_amount = bounties[b].refund_amount
           /\ bounties'[b].refund_status = "WITHDRAWN"
<1> DEFINE bounty == [bounties[b] EXCEPT !.refund_status = "WITHDRAWN"]
<1>1. /\ bounties' = [bounties EXCEPT ![b] = bounty]
      /\ CanWithdrawRefund(sender, b)
      /\ EmitTransfer(bounties[b].poster, bounties[b].refund_amount)
      /\ UNCHANGED <<clock, bounty_count, submissionVars, challengeVars, keyVars>>
    BY DEF WithdrawRefund
<1>2. bounties[b] \in Bounty
    BY DEF TypeInv, TypeOK
<1>3. /\ bounty.status = bounties[b].status
      /\ bounty.escrow_balance = bounties[b].escrow_balance
      /\ bounty.refund_amount = bounties[b].refund_amount
      /\ bounty.refund_status = "WITHDRAWN"
      /\ bounty.has_winner = bounties[b].has_winner
      /\ bounty.winner_submission_id = bounties[b].winner_submission_id
      /\ bounty.has_provisional_winner = bounties[b].has_provisional_winner
      /\ bounty.provisional_submission_id = bounties[b].provisional_submission_id
      /\ bounty.poster = bounties[b].poster
      /\ bounty.reward = bounties[b].reward
      /\ bounty.evaluation_deadline = bounties[b].evaluation_deadline
      /\ bounty.submission_ids = bounties[b].submission_ids
      /\ bounty.submission_count = bounties[b].submission_count
    BY <1>2, ZenonT(60) DEF Bounty
<1> HIDE DEF bounty
<1>4. bounties'[b] = bounty /\ OtherBountiesKept(b)
    BY <1>1 DEF TypeInv, TypeOK, OtherBountiesKept
<1>5. SameTerms(b) /\ SameIndex(b) /\ SameWinner(b) /\ SameCandidate(b)
    BY <1>3, <1>4, Zenon DEF SameTerms, SameIndex, SameWinner, SameCandidate
<1> QED BY <1>1, <1>3, <1>4, <1>5, Zenon

\* A withdrawal of a bond marks it and pays it.
LEMMA WithdrawBondEffect ==
    ASSUME TypeInv, NEW sender \in Addresses, NEW c \in ChallengeIds, WithdrawBond(sender, c)
    PROVE  /\ CanWithdrawBond(sender, c)
           /\ UNCHANGED <<clock, bountyVars, submissionVars, challenge_count, keyVars>>
           /\ EmitTransfer(challenges[c].bond_recipient, challenges[c].bond)
           /\ OtherChallengesKept(c) /\ SameDispute(c)
           /\ challenges'[c].status = challenges[c].status
           /\ challenges'[c].bond_recipient = challenges[c].bond_recipient
           /\ challenges'[c].bond_status = "WITHDRAWN"
<1> DEFINE challenge == [challenges[c] EXCEPT !.bond_status = "WITHDRAWN"]
<1>1. /\ challenges' = [challenges EXCEPT ![c] = challenge]
      /\ CanWithdrawBond(sender, c)
      /\ EmitTransfer(challenges[c].bond_recipient, challenges[c].bond)
      /\ UNCHANGED <<clock, bountyVars, submissionVars, challenge_count, keyVars>>
    BY DEF WithdrawBond
<1>2. challenges[c] \in Challenge
    BY DEF TypeInv, TypeOK
<1>3. /\ challenge.submission_id = challenges[c].submission_id
      /\ challenge.bounty_id = challenges[c].bounty_id
      /\ challenge.challenger = challenges[c].challenger
      /\ challenge.reason_code = challenges[c].reason_code
      /\ challenge.evidence_sha256 = challenges[c].evidence_sha256
      /\ challenge.bond = challenges[c].bond
      /\ challenge.status = challenges[c].status
      /\ challenge.bond_recipient = challenges[c].bond_recipient
      /\ challenge.bond_status = "WITHDRAWN"
    BY <1>2, ZenonT(60) DEF Challenge
<1> HIDE DEF challenge
<1>4. challenges'[c] = challenge /\ OtherChallengesKept(c)
    BY <1>1 DEF TypeInv, TypeOK, OtherChallengesKept
<1> QED BY <1>1, <1>3, <1>4, Zenon DEF SameDispute

-----------------------------------------------------------------------------
\* What every step keeps: the invariant, and what is settled already.

ClosedStays(b) ==
    bounties[b].status \in {"FILLED", "CANCELLED", "EXPIRED"} =>
        /\ bounties'[b].status = bounties[b].status
        /\ bounties'[b].has_winner = bounties[b].has_winner
        /\ bounties'[b].winner_submission_id = bounties[b].winner_submission_id
        /\ bounties'[b].refund_amount = bounties[b].refund_amount

DecidedStays(s) ==
    submissions[s].status \in {"APPROVED", "REJECTED", "SUPERSEDED"} =>
        /\ submissions'[s].status = submissions[s].status
        /\ submissions'[s].verdict_code = submissions[s].verdict_code
        /\ submissions'[s].criteria_bits = submissions[s].criteria_bits

SettlementStep ==
    /\ SettlementInv'
    /\ \A b \in BountyIds : ClosedStays(b)
    /\ \A s \in SubmissionIds : DecidedStays(s)

\* The index of a bounty is the same when no submission comes or moves.
LEMMA SubmissionsOfKept ==
    ASSUME SubmissionIds' = SubmissionIds,
           \A s \in SubmissionIds : submissions'[s].bounty_id = submissions[s].bounty_id
    PROVE  \A b : SubmissionsOf(b)' = SubmissionsOf(b)
    BY DEF SubmissionsOf

\* Steps that change no status, candidate or winner: time passes, challenges
\* are made, reviewed, dismissed or timed out, and what is owed is paid.
SettlementFrame ==
    /\ clock <= clock' /\ clock' \in Nat
    /\ BountyIds' = BountyIds
    /\ \A b \in BountyIds :
        /\ SameTerms(b) /\ SameIndex(b) /\ SameWinner(b) /\ SameCandidate(b)
        /\ bounties'[b].status = bounties[b].status
        /\ bounties'[b].escrow_balance = bounties[b].escrow_balance
        /\ bounties'[b].refund_amount = bounties[b].refund_amount
        /\ Owed(bounties'[b].refund_status) <=> Owed(bounties[b].refund_status)
    /\ SubmissionIds' = SubmissionIds
    /\ \A s \in SubmissionIds :
        /\ SameEntry(s) /\ SameJudgment(s)
        /\ submissions'[s].status = submissions[s].status
        /\ Owed(submissions'[s].reward_status) <=> Owed(submissions[s].reward_status)
    /\ \A c \in ChallengeIds :
        /\ SameDispute(c)
        /\ challenges'[c].status = "UPHELD" => challenges[c].status = "UPHELD"
    /\ \A c \in ChallengeIds' \ ChallengeIds :
        /\ challenges'[c].submission_id \in SubmissionIds
        /\ challenges'[c].bounty_id = submissions[challenges'[c].submission_id].bounty_id
        /\ challenges'[c].status # "UPHELD"

\* Such steps keep the invariant.
LEMMA SettlementFrameKeeps ==
    ASSUME Settled, SettlementFrame PROVE SettlementStep
<1>1. \A b : SubmissionsOf(b)' = SubmissionsOf(b)
    BY SubmissionsOfKept DEF SettlementFrame, SameEntry
<1>2. /\ SubmissionIds' = SubmissionIds /\ BountyIds' = BountyIds
      /\ \A s \in SubmissionIds : submissions[s].bounty_id \in BountyIds
      /\ \A c \in ChallengeIds : challenges[c].submission_id \in SubmissionIds
    BY DEF SettlementFrame, Settled, ChallengeInv, TypeInv, References
<1>3. /\ IndexInv /\ CandidateInv /\ WinnerInv
      /\ LiabilityInv /\ UndecidedInv /\ UpheldInv
    BY DEF Settled, SettlementInv
<1>4. /\ clock \in Nat /\ clock <= clock' /\ clock' \in Nat
      /\ \A s \in SubmissionIds : submissions[s].challenge_deadline \in Nat
      /\ \A b \in BountyIds : bounties[b].evaluation_deadline \in Nat
    BY DEF Settled, ChallengeInv, TypeInv, TypeOK, Submission, Bounty, SettlementFrame
<1>5. ASSUME NEW b \in BountyIds
      PROVE  /\ SubmissionsOf(b)' = SubmissionsOf(b)
             /\ SubmissionsOf(b) \subseteq SubmissionIds
             /\ bounties'[b].reward = bounties[b].reward
             /\ bounties'[b].evaluation_deadline = bounties[b].evaluation_deadline
             /\ bounties'[b].submission_ids = bounties[b].submission_ids
             /\ bounties'[b].submission_count = bounties[b].submission_count
             /\ bounties'[b].has_winner = bounties[b].has_winner
             /\ bounties'[b].winner_submission_id = bounties[b].winner_submission_id
             /\ bounties'[b].has_provisional_winner = bounties[b].has_provisional_winner
             /\ bounties'[b].provisional_submission_id = bounties[b].provisional_submission_id
             /\ bounties'[b].status = bounties[b].status
             /\ bounties'[b].escrow_balance = bounties[b].escrow_balance
             /\ bounties'[b].refund_amount = bounties[b].refund_amount
             /\ Owed(bounties'[b].refund_status) <=> Owed(bounties[b].refund_status)
    BY <1>1 DEF SettlementFrame, SameTerms, SameIndex, SameWinner, SameCandidate, SubmissionsOf
<1>6. ASSUME NEW s \in SubmissionIds
      PROVE  /\ submissions'[s].bounty_id = submissions[s].bounty_id
             /\ submissions'[s].status = submissions[s].status
             /\ submissions'[s].attempt_count = submissions[s].attempt_count
             /\ submissions'[s].criteria_bits = submissions[s].criteria_bits
             /\ submissions'[s].verdict_code = submissions[s].verdict_code
             /\ submissions'[s].challenge_deadline = submissions[s].challenge_deadline
             /\ Owed(submissions'[s].reward_status) <=> Owed(submissions[s].reward_status)
    BY DEF SettlementFrame, SameEntry, SameJudgment
<1>7. IndexInv'
    BY <1>2, <1>3, <1>5 DEF IndexInv
<1>8. CandidateInv'
    BY <1>2, <1>3, <1>5, <1>6 DEF CandidateInv
<1>9. WinnerInv'
    BY <1>2, <1>3, <1>4, <1>5, <1>6 DEF WinnerInv
<1>10. LiabilityInv'
    BY <1>2, <1>3, <1>5, <1>6 DEF LiabilityInv
<1>11. UndecidedInv'
    BY <1>2, <1>3, <1>4, <1>5, <1>6 DEF UndecidedInv, Evaluable
<1>12. UpheldInv'
    <2>1. ASSUME NEW c \in ChallengeIds
          PROVE  /\ challenges'[c].bounty_id = submissions'[challenges'[c].submission_id].bounty_id
                 /\ challenges'[c].status = "UPHELD" =>
                    submissions'[challenges'[c].submission_id].status = "REJECTED"
        BY <1>2, <1>3, <1>6 DEF UpheldInv, SettlementFrame, SameDispute
    <2>2. ASSUME NEW c \in ChallengeIds' \ ChallengeIds
          PROVE  /\ challenges'[c].bounty_id = submissions'[challenges'[c].submission_id].bounty_id
                 /\ challenges'[c].status # "UPHELD"
        BY <1>6 DEF SettlementFrame
    <2> QED BY <2>1, <2>2 DEF UpheldInv
<1>13. /\ \A b \in BountyIds : ClosedStays(b)
       /\ \A s \in SubmissionIds : DecidedStays(s)
    BY <1>5, <1>6 DEF ClosedStays, DecidedStays
<1> QED
    BY <1>7, <1>8, <1>9, <1>10, <1>11, <1>12, <1>13 DEF SettlementStep, SettlementInv

\* Bounties that are left alone keep every field.
LEMMA UnchangedBountiesFrame ==
    ASSUME UNCHANGED bountyVars
    PROVE  /\ BountyIds' = BountyIds
           /\ \A b \in BountyIds :
                /\ SameTerms(b) /\ SameIndex(b) /\ SameWinner(b) /\ SameCandidate(b) /\ SameMoney(b)
                /\ bounties'[b].status = bounties[b].status
    BY IdsKept DEF bountyVars, SameTerms, SameIndex, SameWinner, SameCandidate, SameMoney

\* So do submissions.
LEMMA UnchangedSubmissionsEffect ==
    ASSUME UNCHANGED submissionVars
    PROVE  /\ SubmissionIds' = SubmissionIds
           /\ \A s \in SubmissionIds :
                /\ SameEntry(s) /\ SameJudgment(s) /\ SameReward(s) /\ SameLinks(s)
                /\ submissions'[s].status = submissions[s].status
    BY IdsKept DEF submissionVars, SameEntry, SameJudgment, SameReward, SameLinks

\* So do challenges.
LEMMA UnchangedChallengesEffect ==
    ASSUME UNCHANGED challengeVars
    PROVE  /\ ChallengeIds' = ChallengeIds
           /\ \A c \in ChallengeIds : challenges'[c] = challenges[c] /\ SameDispute(c)
    BY IdsKept DEF challengeVars, SameDispute

\* A submission that is one of several keeps its fields as the others do.
LEMMA OthersKeptFrame ==
    ASSUME NEW s \in SubmissionIds, OthersKept(s), SameEntry(s), SameJudgment(s),
           submissions'[s].status = submissions[s].status,
           Owed(submissions'[s].reward_status) <=> Owed(submissions[s].reward_status)
    PROVE  \A t \in SubmissionIds :
                /\ SameEntry(t) /\ SameJudgment(t)
                /\ submissions'[t].status = submissions[t].status
                /\ Owed(submissions'[t].reward_status) <=> Owed(submissions[t].reward_status)
    BY DEF OthersKept, SameEntry, SameJudgment

\* The methods that change no status, candidate or winner.
LEMMA QuietSettlement ==
    ASSUME Settled,
           \/ \E sender \in Addresses, s \in SubmissionIds, reason \in ChallengeReasons,
                 digest \in Digests : ChallengeSubmission(sender, s, reason, digest)
           \/ \E c \in ChallengeIds, result \in ReviewResults : ReviewChallenge(c, result)
           \/ \E c \in ChallengeIds : FinalizeChallenge(c) /\ DismissChallenge(c)
           \/ \E c \in ChallengeIds : TimeoutChallenge(c)
           \/ \E sender \in Addresses, s \in SubmissionIds : WithdrawReward(sender, s)
           \/ \E sender \in Addresses, b \in BountyIds : WithdrawRefund(sender, b)
           \/ \E sender \in Addresses, c \in ChallengeIds : WithdrawBond(sender, c)
           \/ Tick
           \/ UNCHANGED vars
    PROVE  SettlementFrame
<1>1. TypeInv /\ clock \in Nat
    BY DEF Settled, ChallengeInv, TypeInv, TypeOK
<1>2. ASSUME UNCHANGED clock PROVE clock <= clock' /\ clock' \in Nat
    BY <1>1, <1>2
<1>3. ASSUME NEW sender \in Addresses, NEW s \in SubmissionIds, NEW reason \in ChallengeReasons,
             NEW digest \in Digests, ChallengeSubmission(sender, s, reason, digest)
      PROVE  SettlementFrame
    <2> DEFINE c == challenge_count + 1
    <2>1. /\ UNCHANGED <<clock, bountyVars, submission_count>>
          /\ OthersKept(s) /\ SameEntry(s) /\ SameJudgment(s) /\ SameReward(s)
          /\ submissions'[s].status = submissions[s].status
          /\ ChallengeIds' = ChallengeIds \cup {c}
          /\ \A d \in ChallengeIds : challenges'[d] = challenges[d]
          /\ challenges'[c].submission_id = s
          /\ challenges'[c].bounty_id = submissions[s].bounty_id
          /\ challenges'[c].status = "OPEN"
        BY <1>1, <1>3, ChallengeSubmissionEffect
    <2> HIDE DEF c
    <2>2. Owed(submissions'[s].reward_status) <=> Owed(submissions[s].reward_status)
        BY <2>1 DEF SameReward
    <2>3. \A d \in ChallengeIds : SameDispute(d)
        BY <2>1 DEF SameDispute
    <2> QED
        BY <1>2, <2>1, <2>2, <2>3, IdsKept, OthersKeptFrame, UnchangedBountiesFrame
           DEF SettlementFrame, SameMoney
<1>4. ASSUME UNCHANGED <<clock, bountyVars, submissionVars, challenge_count>>,
             NEW c \in ChallengeIds, OtherChallengesKept(c), SameDispute(c),
             challenges'[c].status = challenges[c].status
      PROVE  SettlementFrame
    <2>1. \A d \in ChallengeIds : SameDispute(d) /\ challenges'[d].status = challenges[d].status
        BY <1>4 DEF OtherChallengesKept, SameDispute
    <2> QED
        BY <1>2, <1>4, <2>1, IdsKept, UnchangedBountiesFrame, UnchangedSubmissionsEffect
           DEF SettlementFrame, SameMoney, SameReward
<1>5. ASSUME NEW c \in ChallengeIds, NEW result \in ReviewResults, ReviewChallenge(c, result)
      PROVE  SettlementFrame
    BY <1>1, <1>4, <1>5, ReviewChallengeEffect
<1>6. ASSUME NEW c \in ChallengeIds,
             (FinalizeChallenge(c) /\ DismissChallenge(c)) \/ TimeoutChallenge(c)
      PROVE  SettlementFrame
    <2> DEFINE s == challenges[c].submission_id
    <2>1. /\ s \in SubmissionIds
          /\ UNCHANGED <<clock, bountyVars, submission_count, challenge_count>>
          /\ OtherChallengesKept(c) /\ SameDispute(c)
          /\ challenges'[c].status \in {"DISMISSED", "TIMED_OUT"}
          /\ OthersKept(s) /\ SameEntry(s) /\ SameJudgment(s) /\ SameReward(s)
          /\ submissions'[s].status = submissions[s].status
        BY <1>1, <1>6, ChallengeClosedEffect
    <2> HIDE DEF s
    <2>2. Owed(submissions'[s].reward_status) <=> Owed(submissions[s].reward_status)
        BY <2>1 DEF SameReward
    <2>3. \A d \in ChallengeIds :
            /\ SameDispute(d)
            /\ challenges'[d].status = "UPHELD" => challenges[d].status = "UPHELD"
        BY <2>1 DEF OtherChallengesKept, SameDispute
    <2> QED
        BY <1>2, <2>1, <2>2, <2>3, IdsKept, OthersKeptFrame, UnchangedBountiesFrame
           DEF SettlementFrame, SameMoney
<1>7. ASSUME NEW sender \in Addresses, NEW s \in SubmissionIds, WithdrawReward(sender, s)
      PROVE  SettlementFrame
    <2>1. /\ UNCHANGED <<clock, bountyVars, submission_count, challengeVars>>
          /\ submissions[s].reward_status = "PENDING"
          /\ OthersKept(s) /\ SameEntry(s) /\ SameJudgment(s)
          /\ submissions'[s].status = submissions[s].status
          /\ submissions'[s].reward_status = "WITHDRAWN"
        BY <1>1, <1>7, WithdrawRewardEffect DEF CanWithdrawReward
    <2>2. Owed(submissions'[s].reward_status) <=> Owed(submissions[s].reward_status)
        BY <2>1 DEF Owed
    <2> QED
        BY <1>2, <2>1, <2>2, IdsKept, OthersKeptFrame, UnchangedBountiesFrame,
           UnchangedChallengesEffect
           DEF SettlementFrame, SameMoney
<1>8. ASSUME NEW sender \in Addresses, NEW b \in BountyIds, WithdrawRefund(sender, b)
      PROVE  SettlementFrame
    <2>1. /\ UNCHANGED <<clock, bounty_count, submissionVars, challengeVars>>
          /\ bounties[b].refund_status = "PENDING"
          /\ OtherBountiesKept(b)
          /\ SameTerms(b) /\ SameIndex(b) /\ SameWinner(b) /\ SameCandidate(b)
          /\ bounties'[b].status = bounties[b].status
          /\ bounties'[b].escrow_balance = bounties[b].escrow_balance
          /\ bounties'[b].refund_amount = bounties[b].refund_amount
          /\ bounties'[b].refund_status = "WITHDRAWN"
        BY <1>1, <1>8, WithdrawRefundEffect DEF CanWithdrawRefund
    <2>2. \A d \in BountyIds :
            /\ SameTerms(d) /\ SameIndex(d) /\ SameWinner(d) /\ SameCandidate(d)
            /\ bounties'[d].status = bounties[d].status
            /\ bounties'[d].escrow_balance = bounties[d].escrow_balance
            /\ bounties'[d].refund_amount = bounties[d].refund_amount
            /\ Owed(bounties'[d].refund_status) <=> Owed(bounties[d].refund_status)
        BY <2>1 DEF OtherBountiesKept, SameTerms, SameIndex, SameWinner, SameCandidate, Owed
    <2> QED
        BY <1>2, <2>1, <2>2, IdsKept, UnchangedSubmissionsEffect, UnchangedChallengesEffect
           DEF SettlementFrame, SameReward
<1>9. ASSUME NEW sender \in Addresses, NEW c \in ChallengeIds, WithdrawBond(sender, c)
      PROVE  SettlementFrame
    BY <1>1, <1>4, <1>9, WithdrawBondEffect
<1>10. CASE Tick \/ UNCHANGED vars
    <2>1. /\ clock <= clock' /\ clock' \in Nat
          /\ UNCHANGED <<bountyVars, submissionVars, challengeVars>>
        BY <1>1, <1>10 DEF Tick, vars
    <2> QED
        BY <2>1, UnchangedBountiesFrame, UnchangedSubmissionsEffect, UnchangedChallengesEffect
           DEF SettlementFrame, SameMoney, SameReward
<1> QED BY <1>3, <1>5, <1>6, <1>7, <1>8, <1>9, <1>10

\* The parts of the invariant and the types that the steps below rely on.
LEMMA SettledParts ==
    ASSUME Settled
    PROVE  /\ IndexInv /\ CandidateInv /\ WinnerInv
           /\ LiabilityInv /\ UndecidedInv /\ UpheldInv
           /\ TypeInv /\ ChallengeLinks
           /\ clock \in Nat
           /\ \A s \in SubmissionIds : submissions[s].bounty_id \in BountyIds
           /\ \A s \in SubmissionIds : submissions[s].challenge_deadline \in Nat
           /\ \A c \in ChallengeIds : challenges[c].submission_id \in SubmissionIds
           /\ \A b \in BountyIds : bounties[b].evaluation_deadline \in Nat
           /\ \A b \in BountyIds : bounties[b].submission_count \in Nat
    BY DEF Settled, SettlementInv, ChallengeInv, TypeInv, TypeOK, References, Submission, Bounty

\* A new bounty has no submission, no candidate and no winner.
LEMMA PostBountySettles ==
    ASSUME Settled, NEW sender \in Addresses, NEW value \in Rewards,
           NEW sw \in SubmissionWindows, NEW eg \in EvaluationGraces, NEW cw \in ChallengeWindows,
           PostBounty(sender, value, sw, eg, cw)
    PROVE  SettlementStep
<1> DEFINE n == bounty_count
<1>1. /\ n \notin BountyIds
      /\ BountyIds' = BountyIds \cup {n}
      /\ UNCHANGED <<clock, submissionVars, challengeVars>>
      /\ \A b \in BountyIds : bounties'[b] = bounties[b]
      /\ bounties'[n].status = "OPEN"
      /\ bounties'[n].reward = value
      /\ bounties'[n].escrow_balance = value
      /\ bounties'[n].submission_ids = {}
      /\ bounties'[n].has_winner = FALSE
      /\ bounties'[n].has_provisional_winner = FALSE
      /\ ~Owed(bounties'[n].refund_status)
    BY PostBountyEffect, SettledParts
<1>2. /\ SubmissionIds' = SubmissionIds /\ UNCHANGED <<submissions, challenges>>
      /\ ChallengeIds' = ChallengeIds
    BY <1>1, IdsKept DEF submissionVars, challengeVars
<1> HIDE DEF n
<1>3. /\ \A b : SubmissionsOf(b)' = SubmissionsOf(b)
      /\ SubmissionsOf(n) = {}
      /\ \A b \in BountyIds : SubmissionsOf(b) \subseteq SubmissionIds
    BY <1>1, <1>2, SettledParts DEF SubmissionsOf
<1>4. IndexInv'
    BY <1>1, <1>3, SettledParts DEF IndexInv
<1>5. CandidateInv'
    BY <1>1, <1>2, <1>3, SettledParts DEF CandidateInv
<1>6. WinnerInv'
    BY <1>1, <1>2, <1>3, SettledParts DEF WinnerInv
<1>7. LiabilityInv'
    BY <1>1, <1>2, SettledParts DEF LiabilityInv
<1>8. UndecidedInv'
    BY <1>1, <1>2, SettledParts DEF UndecidedInv, Evaluable
<1>9. UpheldInv'
    BY <1>2, SettledParts DEF UpheldInv
<1>10. /\ \A b \in BountyIds : ClosedStays(b)
       /\ \A s \in SubmissionIds : DecidedStays(s)
    BY <1>1, <1>2 DEF ClosedStays, DecidedStays
<1> QED BY <1>4, <1>5, <1>6, <1>7, <1>8, <1>9, <1>10 DEF SettlementStep, SettlementInv

\* A new submission is undecided work of a bounty that is at work.
LEMMA SubmitContentSettles ==
    ASSUME Settled, NEW sender \in Addresses, NEW b \in BountyIds, NEW digest \in Digests,
           SubmitContent(sender, b, digest)
    PROVE  SettlementStep
<1> DEFINE n == submission_count
<1>1. /\ n \notin SubmissionIds
      /\ SubmissionIds' = SubmissionIds \cup {n}
      /\ UNCHANGED <<clock, bounty_count, challengeVars>>
      /\ bounties[b].status \in {"OPEN", "LOCKED"}
      /\ \A s \in SubmissionIds : submissions'[s] = submissions[s]
      /\ submissions'[n].bounty_id = b
      /\ submissions'[n].status = "PENDING"
      /\ ~Owed(submissions'[n].reward_status)
      /\ OtherBountiesKept(b)
      /\ SameTerms(b) /\ SameWinner(b) /\ SameCandidate(b) /\ SameMoney(b)
      /\ bounties'[b].status = "LOCKED"
      /\ bounties'[b].submission_ids = bounties[b].submission_ids \cup {n}
      /\ bounties'[b].submission_count = bounties[b].submission_count + 1
    BY SubmitContentEffect, SettledParts DEF CanSubmit
<1>2. BountyIds' = BountyIds /\ ChallengeIds' = ChallengeIds /\ UNCHANGED challenges
    BY <1>1, IdsKept DEF challengeVars
<1> HIDE DEF n
<1>3. /\ SubmissionsOf(b)' = SubmissionsOf(b) \cup {n}
      /\ \A d \in BountyIds \ {b} : SubmissionsOf(d)' = SubmissionsOf(d)
      /\ \A d \in BountyIds : SubmissionsOf(d) \subseteq SubmissionIds
    BY <1>1 DEF SubmissionsOf
<1>4. IndexInv'
    <2>1. /\ bounties'[b].submission_ids = SubmissionsOf(b)'
          /\ bounties'[b].submission_count # 0
        BY <1>1, <1>3, SettledParts DEF IndexInv
    <2>2. \A d \in BountyIds \ {b} :
            /\ bounties'[d].submission_ids = SubmissionsOf(d)'
            /\ bounties'[d].submission_count = 0 => SubmissionsOf(d)' = {}
        BY <1>1, <1>3, SettledParts DEF IndexInv, OtherBountiesKept
    <2> QED BY <1>2, <2>1, <2>2 DEF IndexInv
<1>5. CandidateInv'
    BY <1>1, <1>2, <1>3, SettledParts DEF CandidateInv, OtherBountiesKept, SameCandidate
<1>6. WinnerInv'
    BY <1>1, <1>2, <1>3, SettledParts DEF WinnerInv, OtherBountiesKept, SameWinner
<1>7. LiabilityInv'
    BY <1>1, <1>2, SettledParts DEF LiabilityInv, OtherBountiesKept, SameMoney, SameTerms
<1>8. UndecidedInv'
    BY <1>1, <1>2, SettledParts DEF UndecidedInv, Evaluable, OtherBountiesKept, SameTerms
<1>9. UpheldInv'
    BY <1>1, <1>2, SettledParts DEF UpheldInv
<1>10. /\ \A d \in BountyIds : ClosedStays(d)
       /\ \A s \in SubmissionIds : DecidedStays(s)
    BY <1>1 DEF ClosedStays, DecidedStays, OtherBountiesKept
<1> QED BY <1>4, <1>5, <1>6, <1>7, <1>8, <1>9, <1>10 DEF SettlementStep, SettlementInv

\* An evaluation comes to a LOCKED bounty without a candidate, whatever it
\* decides: an OPEN one has no work, and the candidate is not evaluated again.
LEMMA EvaluationFindsWork ==
    ASSUME Settled, NEW s \in SubmissionIds, CanEvaluate(s)
    PROVE  /\ submissions[s].status \in {"PENDING", "INCONCLUSIVE"}
           /\ bounties[submissions[s].bounty_id].status = "LOCKED"
           /\ ~bounties[submissions[s].bounty_id].has_provisional_winner
<1> DEFINE b == submissions[s].bounty_id
<1>1. /\ Evaluable(submissions[s])
      /\ bounties[b].status \in {"OPEN", "LOCKED"}
      /\ clock <= bounties[b].evaluation_deadline
      /\ bounties[b].has_provisional_winner => bounties[b].provisional_submission_id = s
    BY DEF CanEvaluate, NoOtherProvisionalWinner
<1>2. submissions[s].status \in {"PENDING", "INCONCLUSIVE"}
    BY <1>1 DEF Evaluable
<1>3. bounties[b].status # "OPEN"
    BY <1>1, <1>2, SettledParts DEF UndecidedInv
<1>4. ~bounties[b].has_provisional_winner
    BY <1>1, <1>2, SettledParts DEF CandidateInv
<1> QED BY <1>1, <1>2, <1>3, <1>4

\* An evaluation makes its submission the one candidate, rejects it, or leaves
\* it undecided work of a LOCKED bounty.
LEMMA EvaluateSubmissionSettles ==
    ASSUME Settled, NEW s \in SubmissionIds, NEW result \in EvaluationResults,
           EvaluateSubmission(s, result)
    PROVE  SettlementStep
<1> DEFINE b == submissions[s].bounty_id
<1>1. /\ b \in BountyIds
      /\ CanEvaluate(s)
      /\ UNCHANGED <<clock, bounty_count, submission_count, challengeVars>>
      /\ OthersKept(s)
      /\ SameEntry(s) /\ SameReward(s)
      /\ submissions'[s].status \in {"APPROVED_PENDING", "REJECTED", "INCONCLUSIVE"}
      /\ IF submissions'[s].status = "APPROVED_PENDING"
         THEN /\ OtherBountiesKept(b)
              /\ SameTerms(b) /\ SameIndex(b) /\ SameWinner(b) /\ SameMoney(b)
              /\ bounties'[b].status = "LOCKED"
              /\ bounties'[b].has_provisional_winner
              /\ bounties'[b].provisional_submission_id = s
         ELSE UNCHANGED bounties
    BY EvaluateSubmissionEffect, SettledParts
<1>2. /\ submissions[s].status \in {"PENDING", "INCONCLUSIVE"}
      /\ bounties[b].status = "LOCKED"
      /\ ~bounties[b].has_provisional_winner
    BY <1>1, EvaluationFindsWork
<1>3. /\ SubmissionIds' = SubmissionIds /\ BountyIds' = BountyIds /\ ChallengeIds' = ChallengeIds
      /\ UNCHANGED challenges
    BY <1>1, IdsKept DEF challengeVars
<1> HIDE DEF b
<1>4. /\ submissions'[s].bounty_id = b /\ submissions[s].bounty_id = b
      /\ \A t \in SubmissionIds : submissions'[t].bounty_id = submissions[t].bounty_id
      /\ \A t \in SubmissionIds \ {s} : submissions'[t] = submissions[t]
    BY <1>1 DEF OthersKept, SameEntry, b
<1>5. /\ \A d : SubmissionsOf(d)' = SubmissionsOf(d)
      /\ \A d \in BountyIds : SubmissionsOf(d) \subseteq SubmissionIds
      /\ s \in SubmissionsOf(b)
    BY <1>3, <1>4, SubmissionsOfKept DEF SubmissionsOf
<1>6. \A d \in BountyIds : SameTerms(d) /\ SameIndex(d) /\ SameWinner(d) /\ SameMoney(d)
    BY <1>1 DEF OtherBountiesKept, SameTerms, SameIndex, SameWinner, SameMoney
<1>7. \A d \in BountyIds : bounties'[d].status = bounties[d].status
    BY <1>1, <1>2 DEF OtherBountiesKept
<1>8. IndexInv'
    BY <1>3, <1>5, <1>6, SettledParts DEF IndexInv, SameIndex
<1>9. CandidateInv'
    <2>1. CASE submissions'[s].status = "APPROVED_PENDING"
        BY <1>1, <1>2, <1>3, <1>4, <1>5, <2>1, SettledParts DEF CandidateInv, OtherBountiesKept
    <2>2. CASE submissions'[s].status # "APPROVED_PENDING"
        BY <1>1, <1>2, <1>3, <1>4, <1>5, <2>2, SettledParts DEF CandidateInv
    <2> QED BY <2>1, <2>2
<1>10. WinnerInv'
    BY <1>1, <1>2, <1>3, <1>4, <1>5, <1>6, <1>7, SettledParts DEF WinnerInv, SameWinner
<1>11. LiabilityInv'
    BY <1>1, <1>2, <1>3, <1>4, <1>6, <1>7, SettledParts
       DEF LiabilityInv, SameMoney, SameTerms, SameReward
<1>12. UndecidedInv'
    BY <1>1, <1>2, <1>3, <1>4, <1>6, <1>7, SettledParts DEF UndecidedInv, Evaluable, SameTerms
<1>13. UpheldInv'
    BY <1>2, <1>3, <1>4, SettledParts DEF UpheldInv
<1>14. /\ \A d \in BountyIds : ClosedStays(d)
       /\ \A t \in SubmissionIds : DecidedStays(t)
    BY <1>2, <1>4, <1>6, <1>7 DEF ClosedStays, DecidedStays, SameWinner, SameMoney
<1> QED
    BY <1>8, <1>9, <1>10, <1>11, <1>12, <1>13, <1>14 DEF SettlementStep, SettlementInv

\* Upholding rejects the candidate of a LOCKED bounty; it reopens the bounty
\* only when no other submission can still be evaluated.
LEMMA UpholdChallengeSettles ==
    ASSUME Settled, NEW c \in ChallengeIds, FinalizeChallenge(c), UpholdChallenge(c)
    PROVE  SettlementStep
<1> DEFINE s == challenges[c].submission_id
           b == challenges[c].bounty_id
<1>1. /\ s \in SubmissionIds /\ b \in BountyIds
      /\ challenges[c].status = "OPEN"
      /\ UNCHANGED <<clock, bounty_count, submission_count, challenge_count>>
      /\ OtherChallengesKept(c) /\ SameDispute(c)
      /\ challenges'[c].status = "UPHELD"
      /\ OthersKept(s) /\ SameEntry(s) /\ SameReward(s)
      /\ submissions'[s].status = "REJECTED"
      /\ OtherBountiesKept(b)
      /\ SameTerms(b) /\ SameIndex(b) /\ SameMoney(b)
      /\ bounties'[b].has_winner = FALSE
      /\ bounties'[b].has_provisional_winner = FALSE
      /\ bounties'[b].status = IF HasEvaluableSubmission(b, s) THEN "LOCKED" ELSE "OPEN"
    BY UpholdChallengeEffect, SettledParts DEF CanFinalize
<1>2. /\ submissions[s].bounty_id = b
      /\ submissions[s].status = "APPROVED_PENDING"
    <2>1. submissions[s].active_challenge_id = c /\ c # 0
        BY <1>1, SettledParts DEF ChallengeLinks, ChallengeIds, TypeInv, TypeOK
    <2> QED BY <1>1, <2>1, SettledParts DEF ChallengeLinks, UpheldInv
<1> HIDE DEF s, b
<1>3. /\ bounties[b].status = "LOCKED"
      /\ bounties[b].has_provisional_winner
      /\ bounties[b].provisional_submission_id = s
      /\ ~bounties[b].has_winner
    BY <1>1, <1>2, SettledParts DEF CandidateInv, WinnerInv
<1>4. /\ SubmissionIds' = SubmissionIds /\ BountyIds' = BountyIds /\ ChallengeIds' = ChallengeIds
      /\ clock' = clock
    BY <1>1, IdsKept
<1>5. /\ submissions'[s].bounty_id = b
      /\ \A t \in SubmissionIds : submissions'[t].bounty_id = submissions[t].bounty_id
      /\ \A t \in SubmissionIds \ {s} : submissions'[t] = submissions[t]
      /\ \A d \in BountyIds \ {b} : bounties'[d] = bounties[d]
    BY <1>1, <1>2 DEF OthersKept, OtherBountiesKept, SameEntry
<1>6. /\ \A d : SubmissionsOf(d)' = SubmissionsOf(d)
      /\ \A d \in BountyIds : SubmissionsOf(d) \subseteq SubmissionIds
      /\ s \in SubmissionsOf(b)
      /\ \A d \in BountyIds \ {b} : s \notin SubmissionsOf(d)
    BY <1>1, <1>2, <1>4, <1>5, SubmissionsOfKept DEF SubmissionsOf
<1>7. \A d \in BountyIds : SameTerms(d) /\ SameIndex(d) /\ SameMoney(d)
    BY <1>1, <1>5 DEF SameTerms, SameIndex, SameMoney
<1>8. IndexInv'
    BY <1>4, <1>6, <1>7, SettledParts DEF IndexInv, SameIndex
<1>9. CandidateInv'
    BY <1>1, <1>2, <1>3, <1>4, <1>5, <1>6, SettledParts DEF CandidateInv
<1>10. WinnerInv'
    BY <1>1, <1>2, <1>3, <1>4, <1>5, <1>6, SettledParts DEF WinnerInv
<1>11. LiabilityInv'
    BY <1>1, <1>2, <1>3, <1>4, <1>5, <1>7, SettledParts
       DEF LiabilityInv, SameMoney, SameTerms, SameReward
<1>12. UndecidedInv'
    <2>1. ASSUME NEW t \in SubmissionIds, submissions'[t].status \in {"PENDING", "INCONCLUSIVE"},
                 submissions'[t].bounty_id = b,
                 bounties'[b].status = "OPEN", Evaluable(submissions'[t])
          PROVE  clock' > bounties'[b].evaluation_deadline
        <3>1. /\ t # s /\ submissions'[t] = submissions[t]
              /\ t \in bounties[b].submission_ids
            BY <1>1, <1>5, <2>1, SettledParts DEF IndexInv, SubmissionsOf
        <3>2. ~(clock <= bounties[b].evaluation_deadline)
            BY <1>1, <2>1, <3>1 DEF HasEvaluableSubmission
        <3> QED BY <1>1, <1>4, <1>7, <3>2, SettledParts DEF SameTerms
    <2>2. ASSUME NEW t \in SubmissionIds, submissions'[t].status \in {"PENDING", "INCONCLUSIVE"},
                 submissions'[t].bounty_id # b
          PROVE  t # s /\ submissions'[t] = submissions[t]
        BY <1>1, <1>5, <2>2
    <2> QED
        BY <1>1, <1>4, <1>5, <2>1, <2>2, SettledParts DEF UndecidedInv, Evaluable
<1>13. UpheldInv'
    <2>1. ASSUME NEW d \in ChallengeIds
          PROVE  /\ challenges'[d].submission_id = challenges[d].submission_id
                 /\ challenges'[d].bounty_id = challenges[d].bounty_id
                 /\ challenges'[d].status = "UPHELD" => d = c \/ challenges[d].status = "UPHELD"
        BY <1>1 DEF OtherChallengesKept, SameDispute
    <2> QED BY <1>1, <1>2, <1>4, <1>5, <2>1, SettledParts DEF UpheldInv, s
<1>14. /\ \A d \in BountyIds : ClosedStays(d)
       /\ \A t \in SubmissionIds : DecidedStays(t)
    BY <1>2, <1>3, <1>5 DEF ClosedStays, DecidedStays
<1> QED
    BY <1>8, <1>9, <1>10, <1>11, <1>12, <1>13, <1>14 DEF SettlementStep, SettlementInv

\* A claim settles the candidate and leaves nothing of its bounty undecided.
LEMMA ClaimRewardSettles ==
    ASSUME Settled, NEW sender \in Addresses, NEW s \in SubmissionIds, ClaimReward(sender, s)
    PROVE  SettlementStep
<1> DEFINE b == submissions[s].bounty_id
<1>1. /\ b \in BountyIds
      /\ CanClaim(sender, s)
      /\ UNCHANGED <<clock, bounty_count, submission_count, challengeVars>>
      /\ \A t \in SubmissionIds \ {s} : SupersededIfUndecided(b, t)
      /\ SameEntry(s) /\ SameJudgment(s)
      /\ submissions'[s].status = "APPROVED"
      /\ submissions'[s].reward_status = "PENDING"
      /\ OtherBountiesKept(b)
      /\ SameTerms(b) /\ SameIndex(b)
      /\ bounties'[b].status = "FILLED"
      /\ bounties'[b].has_winner
      /\ bounties'[b].winner_submission_id = s
      /\ ~bounties'[b].has_provisional_winner
      /\ bounties'[b].refund_amount = bounties[b].refund_amount
      /\ bounties'[b].refund_status = bounties[b].refund_status
    BY ClaimRewardEffect, SettledParts
<1>2. /\ submissions[s].status = "APPROVED_PENDING"
      /\ clock >= submissions[s].challenge_deadline
      /\ bounties[b].status = "LOCKED"
      /\ bounties[b].provisional_submission_id = s
    BY <1>1, Zenon DEF CanClaim
<1>3. /\ SubmissionIds' = SubmissionIds /\ BountyIds' = BountyIds /\ ChallengeIds' = ChallengeIds
      /\ UNCHANGED <<clock, challenges>>
    BY <1>1, IdsKept DEF challengeVars
<1> HIDE DEF b
<1>4. /\ submissions[s].bounty_id = b /\ submissions'[s].bounty_id = b
      /\ submissions'[s].challenge_deadline = submissions[s].challenge_deadline
      /\ bounties[b].has_provisional_winner
      /\ ~bounties[b].has_winner
    BY <1>1, <1>2, SettledParts DEF b, SameEntry, SameJudgment, CandidateInv, WinnerInv
<1>5. \A d \in BountyIds : \A t \in SubmissionIds :
        t \in bounties[d].submission_ids <=> submissions[t].bounty_id = d
    BY SettledParts DEF IndexInv, SubmissionsOf
<1>6. ASSUME NEW t \in SubmissionIds \ {s}
      PROVE  /\ submissions'[t].bounty_id = submissions[t].bounty_id
             /\ submissions'[t].challenge_deadline = submissions[t].challenge_deadline
             /\ submissions'[t].reward_status = submissions[t].reward_status
             /\ submissions'[t].criteria_bits = submissions[t].criteria_bits
             /\ submissions'[t].verdict_code = submissions[t].verdict_code
             /\ submissions'[t].status =
                    IF submissions[t].bounty_id = b /\ submissions[t].status \in {"PENDING", "INCONCLUSIVE"}
                    THEN "SUPERSEDED" ELSE submissions[t].status
             /\ submissions[t].bounty_id # b => submissions'[t] = submissions[t]
    <2>1. SupersededIfUndecided(b, t)
        BY <1>1
    <2>2. t \in bounties[b].submission_ids <=> submissions[t].bounty_id = b
        BY <1>1, <1>5
    <2> QED
        BY <2>1, <2>2 DEF SupersededIfUndecided, SameEntry, SameJudgment, SameReward
<1>7. /\ \A d \in BountyIds : SameTerms(d) /\ SameIndex(d)
      /\ \A d \in BountyIds \ {b} : bounties'[d] = bounties[d]
    BY <1>1 DEF OtherBountiesKept, SameTerms, SameIndex
<1>8. /\ \A d : SubmissionsOf(d)' = SubmissionsOf(d)
      /\ \A d \in BountyIds : SubmissionsOf(d) \subseteq SubmissionIds
      /\ s \in SubmissionsOf(b)
      /\ \A d \in BountyIds \ {b} : s \notin SubmissionsOf(d)
    BY <1>1, <1>3, <1>4, <1>6, SubmissionsOfKept DEF SubmissionsOf
<1>9. IndexInv'
    BY <1>3, <1>7, <1>8, SettledParts DEF IndexInv, SameIndex
<1>10. \A t \in SubmissionIds \ {s} : submissions[t].bounty_id = b =>
        submissions[t].status \notin {"APPROVED_PENDING", "APPROVED"}
    BY <1>1, <1>2, <1>4, SettledParts DEF CandidateInv, WinnerInv
<1>11. CandidateInv'
    BY <1>1, <1>2, <1>3, <1>4, <1>6, <1>7, <1>8, <1>10, SettledParts DEF CandidateInv
<1>12. WinnerInv'
    BY <1>1, <1>2, <1>3, <1>4, <1>6, <1>7, <1>8, <1>10, SettledParts DEF WinnerInv
<1>13. LiabilityInv'
    <2>1. \A t \in SubmissionIds :
            Owed(submissions'[t].reward_status) <=> submissions'[t].status = "APPROVED"
        BY <1>1, <1>2, <1>6, <1>10, SettledParts DEF LiabilityInv, Owed
    <2>2. \A d \in BountyIds :
            /\ Owed(bounties'[d].refund_status) <=> bounties'[d].status \in {"CANCELLED", "EXPIRED"}
            /\ bounties'[d].status \in {"OPEN", "LOCKED"} =>
                bounties'[d].escrow_balance = bounties'[d].reward
        BY <1>1, <1>2, <1>7, SettledParts DEF LiabilityInv
    <2> QED BY <1>3, <2>1, <2>2 DEF LiabilityInv
<1>14. UndecidedInv'
    <2>1. ASSUME NEW t \in SubmissionIds, submissions'[t].status \in {"PENDING", "INCONCLUSIVE"}
          PROVE  /\ t # s /\ submissions'[t] = submissions[t]
                 /\ submissions[t].bounty_id # b
        BY <1>1, <1>6, <2>1
    <2> QED BY <1>3, <1>7, <2>1, SettledParts DEF UndecidedInv, Evaluable
<1>15. UpheldInv'
    BY <1>1, <1>2, <1>3, <1>4, <1>6, SettledParts DEF UpheldInv
<1>16. /\ \A d \in BountyIds : ClosedStays(d)
       /\ \A t \in SubmissionIds : DecidedStays(t)
    BY <1>1, <1>2, <1>6, <1>7 DEF ClosedStays, DecidedStays
<1> QED
    BY <1>9, <1>11, <1>12, <1>13, <1>14, <1>15, <1>16 DEF SettlementStep, SettlementInv

\* A refund closes a bounty that has no candidate, and leaves nothing of it
\* undecided.
LEMMA RefundSettles ==
    ASSUME Settled, NEW b \in BountyIds, NEW status \in {"CANCELLED", "EXPIRED"},
           bounties[b].status \in {"OPEN", "LOCKED"},
           ~bounties[b].has_provisional_winner,
           RefundRecorded(b, status),
           \A s \in SubmissionIds : SupersededIfUndecided(b, s),
           UNCHANGED <<clock, bounty_count, submission_count, challengeVars>>
    PROVE  SettlementStep
<1>1. /\ SubmissionIds' = SubmissionIds /\ BountyIds' = BountyIds /\ ChallengeIds' = ChallengeIds
      /\ UNCHANGED <<clock, challenges>>
    BY IdsKept DEF challengeVars
<1>2. /\ bounties'[b].status = status
      /\ bounties'[b].refund_status = "PENDING"
      /\ \A d \in BountyIds \ {b} : bounties'[d] = bounties[d]
      /\ \A d \in BountyIds : SameTerms(d) /\ SameIndex(d) /\ SameWinner(d) /\ SameCandidate(d)
    BY DEF RefundRecorded, OtherBountiesKept, SameTerms, SameIndex, SameWinner, SameCandidate
<1>3. ~bounties[b].has_winner
    BY SettledParts DEF WinnerInv
<1>4. \A s \in SubmissionIds :
        s \in bounties[b].submission_ids <=> submissions[s].bounty_id = b
    BY SettledParts DEF IndexInv, SubmissionsOf
<1>5. ASSUME NEW s \in SubmissionIds
      PROVE  /\ submissions'[s].bounty_id = submissions[s].bounty_id
             /\ submissions'[s].challenge_deadline = submissions[s].challenge_deadline
             /\ submissions'[s].reward_status = submissions[s].reward_status
             /\ submissions'[s].criteria_bits = submissions[s].criteria_bits
             /\ submissions'[s].verdict_code = submissions[s].verdict_code
             /\ submissions'[s].status =
                    IF submissions[s].bounty_id = b /\ submissions[s].status \in {"PENDING", "INCONCLUSIVE"}
                    THEN "SUPERSEDED" ELSE submissions[s].status
             /\ submissions[s].bounty_id # b => submissions'[s] = submissions[s]
    <2>1. SupersededIfUndecided(b, s)
        OBVIOUS
    <2>2. s \in bounties[b].submission_ids <=> submissions[s].bounty_id = b
        BY <1>4
    <2> QED BY <2>1, <2>2 DEF SupersededIfUndecided, SameEntry, SameJudgment, SameReward
<1>6. /\ \A d : SubmissionsOf(d)' = SubmissionsOf(d)
      /\ \A d \in BountyIds : SubmissionsOf(d) \subseteq SubmissionIds
    BY <1>1, <1>5, SubmissionsOfKept DEF SubmissionsOf
<1>7. IndexInv'
    BY <1>1, <1>2, <1>6, SettledParts DEF IndexInv, SameIndex
<1>8. CandidateInv'
    BY <1>1, <1>2, <1>5, <1>6, SettledParts DEF CandidateInv, SameCandidate
<1>9. WinnerInv'
    BY <1>1, <1>2, <1>3, <1>5, <1>6, SettledParts DEF WinnerInv, SameWinner
<1>10. LiabilityInv'
    <2>1. \A s \in SubmissionIds :
            Owed(submissions'[s].reward_status) <=> submissions'[s].status = "APPROVED"
        BY <1>5, SettledParts DEF LiabilityInv
    <2>2. \A d \in BountyIds :
            /\ Owed(bounties'[d].refund_status) <=> bounties'[d].status \in {"CANCELLED", "EXPIRED"}
            /\ bounties'[d].status \in {"OPEN", "LOCKED"} =>
                bounties'[d].escrow_balance = bounties'[d].reward
        BY <1>2, SettledParts DEF LiabilityInv, Owed
    <2> QED BY <1>1, <2>1, <2>2 DEF LiabilityInv
<1>11. UndecidedInv'
    <2>1. ASSUME NEW s \in SubmissionIds, submissions'[s].status \in {"PENDING", "INCONCLUSIVE"}
          PROVE  submissions'[s] = submissions[s] /\ submissions[s].bounty_id # b
        BY <1>5, <2>1
    <2> QED BY <1>1, <1>2, <2>1, SettledParts DEF UndecidedInv, Evaluable
<1>12. UpheldInv'
    BY <1>1, <1>5, SettledParts DEF UpheldInv
<1>13. /\ \A d \in BountyIds : ClosedStays(d)
       /\ \A s \in SubmissionIds : DecidedStays(s)
    BY <1>2, <1>5 DEF ClosedStays, DecidedStays
<1> QED
    BY <1>7, <1>8, <1>9, <1>10, <1>11, <1>12, <1>13 DEF SettlementStep, SettlementInv

\* A cancelled bounty is OPEN and, by its count, without submissions.
LEMMA CancelBountySettles ==
    ASSUME Settled, NEW sender \in Addresses, NEW b \in BountyIds, CancelBounty(sender, b)
    PROVE  SettlementStep
<1>1. /\ CanCancel(sender, b)
      /\ UNCHANGED <<clock, bounty_count, submissionVars, challengeVars>>
      /\ RefundRecorded(b, "CANCELLED")
    BY CancelBountyEffect, SettledParts
<1>2. /\ bounties[b].status = "OPEN"
      /\ bounties[b].submission_count = 0
      /\ ~bounties[b].has_provisional_winner
    BY <1>1, Zenon DEF CanCancel
<1>3. bounties[b].submission_ids = {}
    BY <1>2, SettledParts DEF IndexInv
<1>4. \A s \in SubmissionIds : SupersededIfUndecided(b, s)
    BY <1>1, <1>3 DEF SupersededIfUndecided, submissionVars
<1> QED BY <1>1, <1>2, <1>4, RefundSettles DEF submissionVars

\* An expired bounty has no candidate and supersedes its undecided work.
LEMMA ExpireBountySettles ==
    ASSUME Settled, NEW b \in BountyIds, ExpireBounty(b)
    PROVE  SettlementStep
<1>1. /\ CanExpire(b)
      /\ UNCHANGED <<clock, bounty_count, submission_count, challengeVars>>
      /\ RefundRecorded(b, "EXPIRED")
      /\ \A s \in SubmissionIds : SupersededIfUndecided(b, s)
    BY ExpireBountyEffect, SettledParts
<1>2. /\ bounties[b].status \in {"OPEN", "LOCKED"}
      /\ ~bounties[b].has_provisional_winner
    BY <1>1, Zenon DEF CanExpire
<1> QED BY <1>1, <1>2, RefundSettles

-----------------------------------------------------------------------------
\* There are no records at first.
LEMMA SettledInit == Init => Settled
<1> SUFFICES ASSUME Init PROVE Settled
    OBVIOUS
<1>1. BountyIds = {} /\ SubmissionIds = {} /\ ChallengeIds = {}
    BY DEF Init, BountyIds, SubmissionIds, ChallengeIds
<1>2. SettlementInv
    BY <1>1 DEF SettlementInv, IndexInv, CandidateInv, WinnerInv, LiabilityInv, UndecidedInv, UpheldInv
<1> QED BY <1>2, ChallengeInvInit DEF Settled

\* One case per method.
LEMMA SettlementStepHolds == Settled /\ [Next]_vars => SettlementStep
<1> SUFFICES ASSUME Settled, [Next]_vars PROVE SettlementStep
    OBVIOUS
<1>1. ASSUME NEW sender \in Addresses, NEW value \in Rewards, NEW sw \in SubmissionWindows,
             NEW eg \in EvaluationGraces, NEW cw \in ChallengeWindows,
             PostBounty(sender, value, sw, eg, cw)
      PROVE  SettlementStep
    BY <1>1, PostBountySettles
<1>2. ASSUME NEW sender \in Addresses, NEW b \in BountyIds, NEW digest \in Digests,
             SubmitContent(sender, b, digest)
      PROVE  SettlementStep
    BY <1>2, SubmitContentSettles
<1>3. ASSUME NEW s \in SubmissionIds, NEW result \in EvaluationResults,
             EvaluateSubmission(s, result)
      PROVE  SettlementStep
    BY <1>3, EvaluateSubmissionSettles
<1>4. ASSUME NEW sender \in Addresses, NEW s \in SubmissionIds, NEW reason \in ChallengeReasons,
             NEW digest \in Digests, ChallengeSubmission(sender, s, reason, digest)
      PROVE  SettlementStep
    BY <1>4, QuietSettlement, SettlementFrameKeeps
<1>5. ASSUME NEW c \in ChallengeIds, NEW result \in ReviewResults, ReviewChallenge(c, result)
      PROVE  SettlementStep
    BY <1>5, QuietSettlement, SettlementFrameKeeps
<1>6. ASSUME NEW c \in ChallengeIds, FinalizeChallenge(c)
      PROVE  SettlementStep
    <2>1. CASE UpholdChallenge(c)
        BY <1>6, <2>1, UpholdChallengeSettles
    <2>2. CASE DismissChallenge(c)
        BY <1>6, <2>2, QuietSettlement, SettlementFrameKeeps
    <2> QED BY <1>6, <2>1, <2>2 DEF FinalizeChallenge
<1>7. ASSUME NEW c \in ChallengeIds, TimeoutChallenge(c)
      PROVE  SettlementStep
    BY <1>7, QuietSettlement, SettlementFrameKeeps
<1>8. ASSUME NEW sender \in Addresses, NEW s \in SubmissionIds, ClaimReward(sender, s)
      PROVE  SettlementStep
    BY <1>8, ClaimRewardSettles
<1>9. ASSUME NEW sender \in Addresses, NEW b \in BountyIds, CancelBounty(sender, b)
      PROVE  SettlementStep
    BY <1>9, CancelBountySettles
<1>10. ASSUME NEW b \in BountyIds, ExpireBounty(b)
       PROVE  SettlementStep
    BY <1>10, ExpireBountySettles
<1>11. ASSUME NEW sender \in Addresses, NEW s \in SubmissionIds, WithdrawReward(sender, s)
       PROVE  SettlementStep
    BY <1>11, QuietSettlement, SettlementFrameKeeps
<1>12. ASSUME NEW sender \in Addresses, NEW b \in BountyIds, WithdrawRefund(sender, b)
       PROVE  SettlementStep
    BY <1>12, QuietSettlement, SettlementFrameKeeps
<1>13. ASSUME NEW sender \in Addresses, NEW c \in ChallengeIds, WithdrawBond(sender, c)
       PROVE  SettlementStep
    BY <1>13, QuietSettlement, SettlementFrameKeeps
<1>14. CASE Tick \/ UNCHANGED vars
    BY <1>14, QuietSettlement, SettlementFrameKeeps
<1> QED
    BY <1>1, <1>2, <1>3, <1>4, <1>5, <1>6, <1>7, <1>8, <1>9, <1>10, <1>11, <1>12, <1>13, <1>14
       DEF Next

\* The invariant is inductive.
LEMMA SettledInvariant == Spec => []Settled
<1>1. Settled /\ [Next]_vars => Settled'
    BY ChallengeInvStep, SettlementStepHolds DEF Settled, SettlementStep
<1> QED BY <1>1, SettledInit, PTL DEF Spec

-----------------------------------------------------------------------------
\* No interleaving of evaluations, challenges and claims gives a bounty two
\* candidates for one reward: the flag, the id it names and the status
\* APPROVED_PENDING always say the same.
THEOREM OneCandidate == Spec => []ProvisionalWinnerIsUnique
<1>1. Settled => ProvisionalWinnerIsUnique
    BY SettledParts DEF ProvisionalWinnerIsUnique, CandidateInv, SubmissionsOf
<1> QED BY <1>1, SettledInvariant, PTL

\* A bounty reads OPEN only when none of its submissions can be evaluated any
\* more or awaits settlement, so cancel_bounty may trust the status.
THEOREM OpenMeansIdle == Spec => []OpenBountyHasNoWork
<1>1. Settled => OpenBountyHasNoWork
    BY SettledParts DEF OpenBountyHasNoWork, CandidateInv, UndecidedInv, Evaluable, SubmissionsOf
<1> QED BY <1>1, SettledInvariant, PTL

\* A bounty that is filled, cancelled or expired has no submission left to
\* judge and no challenge left open, and an APPROVED submission exactly when
\* it is FILLED.
THEOREM ClosedMeansSettled == Spec => []ClosedBountyIsSettled
<1>1. ASSUME Settled, NEW b \in BountyIds,
             bounties[b].status \in {"FILLED", "CANCELLED", "EXPIRED"}
      PROVE  /\ \A s \in SubmissionsOf(b) :
                /\ submissions[s].status \in {"APPROVED", "REJECTED", "SUPERSEDED"}
                /\ OpenChallengesOn(s) = {}
             /\ bounties[b].status = "FILLED" <=>
                \E s \in SubmissionsOf(b) : submissions[s].status = "APPROVED"
    <2>1. ASSUME NEW s \in SubmissionsOf(b)
          PROVE  /\ submissions[s].status \in SubmissionStatuses
                 /\ submissions[s].status \notin {"PENDING", "INCONCLUSIVE", "APPROVED_PENDING"}
        <3>1. s \in SubmissionIds /\ submissions[s].bounty_id = b
            BY DEF SubmissionsOf
        <3>2. submissions[s].status \in SubmissionStatuses
            BY <1>1, <3>1, SettledParts, Zenon DEF TypeInv, TypeOK, Submission
        <3> QED BY <1>1, <3>1, <3>2, SettledParts DEF CandidateInv, UndecidedInv
    <2>2. ASSUME NEW s \in SubmissionsOf(b) PROVE OpenChallengesOn(s) = {}
        <3> SUFFICES ASSUME NEW c \in ChallengeIds, challenges[c].submission_id = s,
                            challenges[c].status = "OPEN"
                     PROVE  FALSE
            BY DEF OpenChallengesOn
        <3>1. submissions[s].active_challenge_id = c /\ c # 0 /\ s \in SubmissionIds
            BY <1>1, SettledParts DEF ChallengeLinks, ChallengeIds, SubmissionsOf, TypeInv, TypeOK
        <3> QED BY <1>1, <2>1, <3>1, SettledParts DEF ChallengeLinks
    <2>3. bounties[b].status = "FILLED" <=>
            \E s \in SubmissionsOf(b) : submissions[s].status = "APPROVED"
        BY <1>1, SettledParts DEF WinnerInv, SubmissionsOf
    <2> QED BY <2>1, <2>2, <2>3 DEF SubmissionStatuses
<1>2. Settled => ClosedBountyIsSettled
    BY <1>1 DEF ClosedBountyIsSettled
<1> QED BY <1>2, SettledInvariant, PTL

\* Whoever wins held the only approval, past its dispute window, and no
\* challenge to it is open or was upheld.
THEOREM WinnerStood == Spec => []WinnerWasNeverOverturned
<1>1. ASSUME Settled, NEW b \in BountyIds, bounties[b].has_winner
      PROVE  LET winner == bounties[b].winner_submission_id
             IN
             /\ {s \in SubmissionsOf(b) : submissions[s].status = "APPROVED"} = {winner}
             /\ clock >= submissions[winner].challenge_deadline
             /\ \A c \in ChallengeIds : challenges[c].submission_id = winner =>
                    challenges[c].status \in {"DISMISSED", "TIMED_OUT"}
    <2> DEFINE winner == bounties[b].winner_submission_id
    <2>1. /\ winner \in SubmissionsOf(b) /\ winner \in SubmissionIds
          /\ submissions[winner].status = "APPROVED"
          /\ \A s \in SubmissionsOf(b) : submissions[s].status = "APPROVED" => s = winner
          /\ clock >= submissions[winner].challenge_deadline
        BY <1>1, SettledParts DEF WinnerInv, SubmissionsOf
    <2>2. ASSUME NEW c \in ChallengeIds, challenges[c].submission_id = winner
          PROVE  challenges[c].status \in {"DISMISSED", "TIMED_OUT"}
        <3>1. challenges[c].status # "OPEN"
            <4>1. submissions[winner].active_challenge_id = 0
                BY <1>1, <2>1, SettledParts DEF ChallengeLinks
            <4> QED
                BY <1>1, <2>2, <4>1, SettledParts DEF ChallengeLinks, ChallengeIds, TypeInv, TypeOK
        <3>2. challenges[c].status # "UPHELD"
            BY <1>1, <2>1, <2>2, SettledParts DEF UpheldInv
        <3>3. challenges[c].status \in ChallengeStatuses
            BY <1>1, SettledParts, Zenon DEF TypeInv, TypeOK, Challenge
        <3> QED BY <3>1, <3>2, <3>3 DEF ChallengeStatuses
    <2> QED BY <2>1, <2>2
<1>2. Settled => WinnerWasNeverOverturned
    BY <1>1 DEF WinnerWasNeverOverturned
<1> QED BY <1>2, SettledInvariant, PTL

\* No late evaluation, challenge, expiry or withdrawal changes how a bounty was
\* closed or how a submission was decided.
THEOREM SettlementIsFinal == Spec => SettledStaysSettled
<1>1. Settled /\ [Next]_vars =>
        [/\ \A b \in BountyIds : ClosedStays(b)
         /\ \A s \in SubmissionIds : DecidedStays(s)]_vars
    BY SettlementStepHolds DEF SettlementStep
<1>2. Spec => [][/\ \A b \in BountyIds : ClosedStays(b)
                 /\ \A s \in SubmissionIds : DecidedStays(s)]_vars
    BY <1>1, SettledInvariant, PTL DEF Spec
<1> QED BY <1>2, PTL DEF SettledStaysSettled, ClosedStays, DecidedStays

-----------------------------------------------------------------------------
(***************************************************************************)
(* What the contract remembers is right, for every instance: the keys it   *)
(* refuses duplicates by, the verdict it publishes, and with them what the *)
(* interface offers.                                                       *)
(***************************************************************************)

\* The keys are those of what was submitted and challenged.
KeysInv ==
    /\ creator_submission_ids =
        {<<submissions[s].bounty_id, submissions[s].creator>> : s \in SubmissionIds}
    /\ \A s \in SubmissionIds :
        <<submissions[s].bounty_id, submissions[s].evidence_sha256>> \in evidence_submission_ids
    /\ \A c \in ChallengeIds :
        <<challenges[c].submission_id, challenges[c].reason_code, challenges[c].evidence_sha256>>
            \in challenge_fingerprints

\* The challenge that is open is the latest: the one the interface loads.
LatestInv ==
    \A s \in SubmissionIds : submissions[s].active_challenge_id # 0 =>
        submissions[s].latest_challenge_id = submissions[s].active_challenge_id

HistoryInv == KeysInv /\ EntriesAreUnique /\ VerdictMatchesHistory /\ LatestInv

Remembered == Settled /\ HistoryInv

-----------------------------------------------------------------------------
\* Entries.

\* One bounty's entries are counted.
CountedIndex(b) ==
    /\ bounties[b].submission_ids = SubmissionsOf(b)
    /\ bounties[b].submission_count = Cardinality(SubmissionsOf(b))
    /\ bounties[b].submission_count <= MAX_SUBMISSIONS_PER_BOUNTY

DistinctEntries(s, t) ==
    s # t /\ submissions[s].bounty_id = submissions[t].bounty_id =>
        /\ submissions[s].creator # submissions[t].creator
        /\ submissions[s].evidence_sha256 # submissions[t].evidence_sha256

DistinctDisputes(c, d) ==
    c # d =>
        \/ challenges[c].submission_id # challenges[d].submission_id
        \/ challenges[c].reason_code # challenges[d].reason_code
        \/ challenges[c].evidence_sha256 # challenges[d].evidence_sha256

\* EntriesAreUnique by its parts.
LEMMA UniqueParts ==
    EntriesAreUnique <=>
        /\ \A s, t \in SubmissionIds : DistinctEntries(s, t)
        /\ \A b \in BountyIds : CountedIndex(b)
        /\ \A c, d \in ChallengeIds : DistinctDisputes(c, d)
    BY DEF EntriesAreUnique, DistinctEntries, CountedIndex, DistinctDisputes

\* The same in the next state.
LEMMA UniquePartsNext ==
    EntriesAreUnique' <=>
        /\ \A s, t \in SubmissionIds' : DistinctEntries(s, t)'
        /\ \A b \in BountyIds' : CountedIndex(b)'
        /\ \A c, d \in ChallengeIds' : DistinctDisputes(c, d)'
    BY DEF EntriesAreUnique, DistinctEntries, CountedIndex, DistinctDisputes

\* Steps that submit and challenge nothing; a bounty may come.
EntryFrame ==
    /\ BountyIds \subseteq BountyIds'
    /\ \A b \in BountyIds : SameIndex(b)
    /\ \A b \in BountyIds' \ BountyIds :
        bounties'[b].submission_ids = {} /\ bounties'[b].submission_count = 0
    /\ SubmissionIds' = SubmissionIds
    /\ \A s \in SubmissionIds : SameEntry(s)
    /\ ChallengeIds' = ChallengeIds
    /\ \A c \in ChallengeIds : SameDispute(c)
    /\ UNCHANGED keyVars

\* Such steps keep keys and entries.
LEMMA EntryFrameKeeps ==
    ASSUME Remembered, EntryFrame PROVE KeysInv' /\ EntriesAreUnique'
<1>1. /\ SubmissionIds' = SubmissionIds /\ \A s \in SubmissionIds : SameEntry(s)
      /\ ChallengeIds' = ChallengeIds /\ \A c \in ChallengeIds : SameDispute(c)
    BY DEF EntryFrame
<1>2. KeysInv'
    BY <1>1 DEF Remembered, HistoryInv, KeysInv, EntryFrame, keyVars, SameEntry, SameDispute
<1>3. \A s, t \in SubmissionIds' : DistinctEntries(s, t)'
    BY <1>1, UniqueParts DEF Remembered, HistoryInv, DistinctEntries, SameEntry
<1>4. \A c, d \in ChallengeIds' : DistinctDisputes(c, d)'
    BY <1>1, UniqueParts DEF Remembered, HistoryInv, DistinctDisputes, SameDispute
<1>5. \A b : SubmissionsOf(b)' = SubmissionsOf(b)
    BY <1>1, SubmissionsOfKept DEF SameEntry
<1>6. ASSUME NEW b \in BountyIds PROVE CountedIndex(b)'
    BY <1>5, UniqueParts DEF Remembered, HistoryInv, EntryFrame, CountedIndex, SameIndex
<1>7. ASSUME NEW b \in BountyIds' \ BountyIds PROVE CountedIndex(b)'
    <2>1. SubmissionsOf(b)' = {}
        BY <1>5, <1>7, SettledParts DEF Remembered, SubmissionsOf
    <2> QED BY <1>7, <2>1, FS_EmptySet, LimitAssumption DEF EntryFrame, CountedIndex
<1> QED BY <1>2, <1>3, <1>4, <1>6, <1>7, UniquePartsNext

\* A submission is refused when its creator or its page is in the bounty
\* already, and fills one of the bounty's places.
LEMMA SubmitContentEntries ==
    ASSUME Remembered, NEW sender \in Addresses, NEW b \in BountyIds, NEW digest \in Digests,
           SubmitContent(sender, b, digest)
    PROVE  KeysInv' /\ EntriesAreUnique'
<1> SUFFICES ASSUME NEW n, n = submission_count PROVE KeysInv' /\ EntriesAreUnique'
    OBVIOUS
<1>1. /\ n \notin SubmissionIds
      /\ SubmissionIds' = SubmissionIds \cup {n}
      /\ UNCHANGED <<bounty_count, challengeVars, challenge_fingerprints>>
      /\ creator_submission_ids' = creator_submission_ids \cup {<<b, sender>>}
      /\ evidence_submission_ids' = evidence_submission_ids \cup {<<b, digest>>}
      /\ CanSubmit(sender, b, digest)
      /\ \A s \in SubmissionIds : submissions'[s] = submissions[s]
      /\ submissions'[n].bounty_id = b
      /\ submissions'[n].creator = sender
      /\ submissions'[n].evidence_sha256 = digest
      /\ OtherBountiesKept(b)
      /\ bounties'[b].submission_ids = bounties[b].submission_ids \cup {n}
      /\ bounties'[b].submission_count = bounties[b].submission_count + 1
    BY SettledParts, SubmitContentEffect DEF Remembered
<1>2. /\ BountyIds' = BountyIds
      /\ ChallengeIds' = ChallengeIds /\ UNCHANGED challenges
    BY <1>1, IdsKept DEF challengeVars
<1>3. KeysInv
    BY DEF Remembered, HistoryInv
<1>4. KeysInv'
    <2>1. creator_submission_ids' =
            {<<submissions'[s].bounty_id, submissions'[s].creator>> : s \in SubmissionIds'}
        BY <1>1, <1>3 DEF KeysInv
    <2>2. \A s \in SubmissionIds' :
            <<submissions'[s].bounty_id, submissions'[s].evidence_sha256>> \in evidence_submission_ids'
        BY <1>1, <1>3 DEF KeysInv
    <2> QED BY <1>1, <1>2, <1>3, <2>1, <2>2 DEF KeysInv
<1>5. ASSUME NEW s \in SubmissionIds, submissions[s].bounty_id = b
      PROVE  submissions[s].creator # sender /\ submissions[s].evidence_sha256 # digest
    BY <1>1, <1>3, <1>5 DEF KeysInv, CanSubmit, NotYetSubmitted
<1>6. \A s, t \in SubmissionIds' : DistinctEntries(s, t)'
    BY <1>1, <1>5, UniqueParts DEF Remembered, HistoryInv, DistinctEntries
<1>7. \A c, d \in ChallengeIds' : DistinctDisputes(c, d)'
    BY <1>2, UniqueParts DEF Remembered, HistoryInv, DistinctDisputes
<1>8. CountedIndex(b)'
    <2>1. SubmissionsOf(b)' = SubmissionsOf(b) \cup {n} /\ n \notin SubmissionsOf(b)
        BY <1>1 DEF SubmissionsOf
    <2>2. CountedIndex(b)
        BY UniqueParts DEF Remembered, HistoryInv
    <2>3. IsFiniteSet(SubmissionsOf(b))
        <3>1. IsFiniteSet(SubmissionIds)
            BY FS_Interval, SettledParts DEF Remembered, TypeInv, TypeOK, SubmissionIds
        <3> QED BY <3>1, FS_Subset DEF SubmissionsOf
    <2>4. Cardinality(SubmissionsOf(b)') = Cardinality(SubmissionsOf(b)) + 1
        BY <2>1, <2>3, FS_AddElement
    <2>5. bounties[b].submission_count < MAX_SUBMISSIONS_PER_BOUNTY
        BY <1>1 DEF CanSubmit
    <2>6. bounties[b].submission_count \in Nat
        BY SettledParts DEF Remembered
    <2> QED BY <1>1, <2>1, <2>2, <2>4, <2>5, <2>6, LimitAssumption DEF CountedIndex
<1>9. ASSUME NEW d \in BountyIds \ {b} PROVE CountedIndex(d)'
    <2>1. SubmissionsOf(d)' = SubmissionsOf(d)
        BY <1>1, <1>9 DEF SubmissionsOf
    <2> QED
        BY <1>1, <1>9, <2>1, UniqueParts DEF Remembered, HistoryInv, CountedIndex, OtherBountiesKept
<1> QED BY <1>2, <1>4, <1>6, <1>7, <1>8, <1>9, UniquePartsNext

\* A challenge is refused when its reason and evidence were tried already.
LEMMA ChallengeSubmissionEntries ==
    ASSUME Remembered, NEW sender \in Addresses, NEW s \in SubmissionIds,
           NEW reason \in ChallengeReasons, NEW digest \in Digests,
           ChallengeSubmission(sender, s, reason, digest)
    PROVE  KeysInv' /\ EntriesAreUnique'
<1> SUFFICES ASSUME NEW n, n = challenge_count + 1 PROVE KeysInv' /\ EntriesAreUnique'
    OBVIOUS
<1>1. /\ n \notin ChallengeIds
      /\ ChallengeIds' = ChallengeIds \cup {n}
      /\ <<s, reason, digest>> \notin challenge_fingerprints
      /\ challenge_fingerprints' = challenge_fingerprints \cup {<<s, reason, digest>>}
      /\ UNCHANGED <<bountyVars, submission_count, creator_submission_ids,
                     evidence_submission_ids>>
      /\ OthersKept(s) /\ SameEntry(s)
      /\ \A d \in ChallengeIds : challenges'[d] = challenges[d]
      /\ challenges'[n].submission_id = s
      /\ challenges'[n].reason_code = reason
      /\ challenges'[n].evidence_sha256 = digest
    BY SettledParts, ChallengeSubmissionEffect DEF Remembered
<1>2. /\ SubmissionIds' = SubmissionIds
      /\ BountyIds' = BountyIds /\ UNCHANGED bounties
    BY <1>1, IdsKept DEF bountyVars
<1>3. \A t \in SubmissionIds : SameEntry(t)
    BY <1>1 DEF OthersKept, SameEntry
<1>4. KeysInv
    BY DEF Remembered, HistoryInv
<1>5. KeysInv'
    <2>1. creator_submission_ids' =
            {<<submissions'[t].bounty_id, submissions'[t].creator>> : t \in SubmissionIds'}
        BY <1>1, <1>2, <1>3, <1>4 DEF KeysInv, SameEntry
    <2>2. \A t \in SubmissionIds' :
            <<submissions'[t].bounty_id, submissions'[t].evidence_sha256>> \in evidence_submission_ids'
        BY <1>1, <1>2, <1>3, <1>4 DEF KeysInv, SameEntry
    <2>3. \A c \in ChallengeIds' :
            <<challenges'[c].submission_id, challenges'[c].reason_code,
              challenges'[c].evidence_sha256>> \in challenge_fingerprints'
        BY <1>1, <1>4 DEF KeysInv
    <2> QED BY <2>1, <2>2, <2>3 DEF KeysInv
<1>6. \A t, u \in SubmissionIds' : DistinctEntries(t, u)'
    BY <1>2, <1>3, UniqueParts DEF Remembered, HistoryInv, DistinctEntries, SameEntry
<1>7. \A b \in BountyIds' : CountedIndex(b)'
    <2>1. \A b : SubmissionsOf(b)' = SubmissionsOf(b)
        BY <1>2, <1>3, SubmissionsOfKept DEF SameEntry
    <2> QED BY <1>2, <2>1, UniqueParts DEF Remembered, HistoryInv, CountedIndex
<1>8. ASSUME NEW c \in ChallengeIds
      PROVE  \/ challenges[c].submission_id # s
             \/ challenges[c].reason_code # reason
             \/ challenges[c].evidence_sha256 # digest
    BY <1>1, <1>4 DEF KeysInv
<1>9. \A c, d \in ChallengeIds' : DistinctDisputes(c, d)'
    BY <1>1, <1>8, UniqueParts DEF Remembered, HistoryInv, DistinctDisputes
<1> QED BY <1>5, <1>6, <1>7, <1>9, UniquePartsNext

-----------------------------------------------------------------------------
\* Verdicts.

Approved(submission) == submission.status \in {"APPROVED", "APPROVED_PENDING"}

\* The verdict of an approval, of anything else, and of an overturned one.
FullMarks(submission) ==
    /\ submission.verdict_code = "ALL_CRITERIA_MET"
    /\ DOMAIN submission.criteria_bits = 1..CRITERION_COUNT
    /\ AllMet(submission.criteria_bits)
    /\ submission.score_bucket = 4

NoFullMarks(submission) ==
    submission.verdict_code # "ALL_CRITERIA_MET" /\ submission.score_bucket < 4

WasUpheld(s) == \E c \in ChallengeIds :
    challenges[c].submission_id = s /\ challenges[c].status = "UPHELD"

VerdictMatches(s) ==
    /\ Approved(submissions[s]) => FullMarks(submissions[s])
    /\ ~Approved(submissions[s]) => NoFullMarks(submissions[s])
    /\ submissions[s].verdict_code = "CHALLENGE_UPHELD" <=> WasUpheld(s)

\* VerdictMatchesHistory, submission by submission.
LEMMA VerdictParts == VerdictMatchesHistory <=> \A s \in SubmissionIds : VerdictMatches(s)
    BY DEF VerdictMatchesHistory, VerdictMatches, Approved, FullMarks, NoFullMarks, WasUpheld

\* The same in the next state.
LEMMA VerdictPartsNext ==
    VerdictMatchesHistory' <=> \A s \in SubmissionIds' : VerdictMatches(s)'
    BY DEF VerdictMatchesHistory, VerdictMatches, Approved, FullMarks, NoFullMarks, WasUpheld

\* All criteria met is the bucket 4, and anything less is below it.
LEMMA FullScore ==
    ASSUME NEW bits, DOMAIN bits = 1..CRITERION_COUNT
    PROVE  /\ AllMet(bits) => ScoreBucket(bits) = 4
           /\ ~AllMet(bits) => ScoreBucket(bits) < 4
<1> DEFINE met == {i \in DOMAIN bits : bits[i] = 1}
           n == Cardinality(met)
<1>1. IsFiniteSet(1..CRITERION_COUNT) /\ Cardinality(1..CRITERION_COUNT) = CRITERION_COUNT
    BY FS_Interval, RubricAssumption
<1>2. met \in SUBSET (1..CRITERION_COUNT)
    OBVIOUS
<1>3. AllMet(bits) <=> met = 1..CRITERION_COUNT
    BY DEF AllMet
<1>4. ScoreBucket(bits) = (n * 4) \div CRITERION_COUNT
    BY DEF ScoreBucket
<1> HIDE DEF met
<1>5. /\ IsFiniteSet(met) /\ n <= CRITERION_COUNT
      /\ n = CRITERION_COUNT <=> met = 1..CRITERION_COUNT
    <2>1. /\ IsFiniteSet(met) /\ Cardinality(met) <= Cardinality(1..CRITERION_COUNT)
          /\ Cardinality(1..CRITERION_COUNT) = Cardinality(met) => 1..CRITERION_COUNT = met
        BY <1>1, <1>2, FS_Subset, Zenon
    <2> QED BY <1>1, <2>1
<1>6. n \in Nat
    BY <1>5, FS_CardinalityType
<1> HIDE DEF n
<1>7. CRITERION_COUNT \in Nat /\ CRITERION_COUNT > 0
    BY RubricAssumption
<1>8. (CRITERION_COUNT * 4) \div CRITERION_COUNT = 4
    BY <1>7
<1>9. n < CRITERION_COUNT => (n * 4) \div CRITERION_COUNT < 4
    <2>1. n < CRITERION_COUNT => n * 4 < 4 * CRITERION_COUNT
        BY <1>6, <1>7
    <2> QED BY <1>6, <1>7, <2>1
<1> QED BY <1>3, <1>4, <1>5, <1>6, <1>7, <1>8, <1>9

\* What an evaluation publishes agrees with what it decided.
LEMMA VerdictOfResult ==
    ASSUME NEW result \in EvaluationResults
    PROVE  /\ result.decision = "APPROVE" =>
                /\ VerdictCode(result.decision, result.reason_code) = "ALL_CRITERIA_MET"
                /\ DOMAIN result.criteria_bits = 1..CRITERION_COUNT
                /\ AllMet(result.criteria_bits)
                /\ result.score_bucket = 4
           /\ result.decision # "APPROVE" =>
                /\ VerdictCode(result.decision, result.reason_code) # "ALL_CRITERIA_MET"
                /\ result.score_bucket < 4
           /\ VerdictCode(result.decision, result.reason_code) # "CHALLENGE_UPHELD"
<1>1. VerdictCode(result.decision, result.reason_code) \in
        IF result.decision = "APPROVE" THEN {"ALL_CRITERIA_MET"}
        ELSE {"EVIDENCE_UNVERIFIED", "CLAIM_TAG_MISSING", "NOT_ALL_CRITERIA_MET"}
    BY DEF VerdictCode
<1>2. ValidEvaluationShape(result)
    BY ConsensusAssumption
<1>3. \/ result.decision = "INCONCLUSIVE" /\ result.score_bucket = 0
      \/ result.decision = "REJECT" /\ result.score_bucket = 0
      \/ /\ DOMAIN result.criteria_bits = 1..CRITERION_COUNT
         /\ AllMet(result.criteria_bits) <=> result.decision = "APPROVE"
         /\ result.score_bucket = ScoreBucket(result.criteria_bits)
    BY <1>2, Zenon DEF ValidEvaluationShape
<1>4. DOMAIN result.criteria_bits = 1..CRITERION_COUNT =>
        /\ AllMet(result.criteria_bits) => ScoreBucket(result.criteria_bits) = 4
        /\ ~AllMet(result.criteria_bits) => ScoreBucket(result.criteria_bits) < 4
    BY FullScore
<1> QED BY <1>1, <1>3, <1>4

\* Steps that judge nothing and uphold nothing; submissions and challenges may
\* come.
VerdictFrame ==
    /\ SubmissionIds \subseteq SubmissionIds'
    /\ \A s \in SubmissionIds :
        SameJudgment(s) /\ (Approved(submissions'[s]) <=> Approved(submissions[s]))
    /\ \A s \in SubmissionIds' \ SubmissionIds :
        /\ ~Approved(submissions'[s]) /\ NoFullMarks(submissions'[s])
        /\ submissions'[s].verdict_code # "CHALLENGE_UPHELD"
    /\ ChallengeIds \subseteq ChallengeIds'
    /\ \A c \in ChallengeIds :
        /\ challenges'[c].submission_id = challenges[c].submission_id
        /\ challenges'[c].status = "UPHELD" <=> challenges[c].status = "UPHELD"
    /\ \A c \in ChallengeIds' \ ChallengeIds : challenges'[c].status # "UPHELD"

\* Such steps keep every verdict in agreement with its history.
LEMMA VerdictFrameKeeps ==
    ASSUME Remembered, VerdictFrame PROVE VerdictMatchesHistory'
<1>1. \A s : WasUpheld(s)' <=> WasUpheld(s)
    BY DEF VerdictFrame, WasUpheld
<1>2. ASSUME NEW s \in SubmissionIds PROVE VerdictMatches(s)'
    <2>1. VerdictMatches(s)
        BY VerdictParts DEF Remembered, HistoryInv
    <2> QED
        BY <1>1, <2>1
           DEF VerdictFrame, VerdictMatches, FullMarks, NoFullMarks, SameJudgment
<1>3. ASSUME NEW s \in SubmissionIds' \ SubmissionIds PROVE VerdictMatches(s)'
    <2>1. ~WasUpheld(s)
        BY <1>3, SettledParts DEF Remembered, WasUpheld
    <2> QED BY <1>1, <1>3, <2>1 DEF VerdictFrame, VerdictMatches
<1> QED BY <1>2, <1>3, VerdictPartsNext

\* An evaluation, which no upheld challenge precedes, publishes what it
\* decided.
LEMMA EvaluateSubmissionVerdicts ==
    ASSUME Remembered, NEW s \in SubmissionIds, NEW result \in EvaluationResults,
           EvaluateSubmission(s, result)
    PROVE  VerdictMatchesHistory'
<1>1. /\ CanEvaluate(s)
      /\ UNCHANGED <<submission_count, challengeVars>>
      /\ OthersKept(s)
      /\ submissions'[s].criteria_bits = result.criteria_bits
      /\ submissions'[s].score_bucket = result.score_bucket
      /\ submissions'[s].verdict_code = VerdictCode(result.decision, result.reason_code)
      /\ \/ result.decision = "APPROVE" /\ submissions'[s].status = "APPROVED_PENDING"
         \/ result.decision = "REJECT" /\ submissions'[s].status = "REJECTED"
         \/ result.decision = "INCONCLUSIVE" /\ submissions'[s].status = "INCONCLUSIVE"
    BY SettledParts, EvaluateSubmissionEffect, ZenonT(60) DEF Remembered
<1>2. SubmissionIds' = SubmissionIds /\ ChallengeIds' = ChallengeIds /\ UNCHANGED challenges
    BY <1>1, IdsKept DEF challengeVars
<1>3. \A t : WasUpheld(t)' <=> WasUpheld(t)
    BY <1>2 DEF WasUpheld
<1>4. ~WasUpheld(s)
    BY <1>1, SettledParts DEF Remembered, CanEvaluate, Evaluable, UpheldInv, WasUpheld
<1>5. VerdictMatches(s)'
    BY <1>1, <1>3, <1>4, VerdictOfResult DEF VerdictMatches, Approved, FullMarks, NoFullMarks
<1>6. ASSUME NEW t \in SubmissionIds \ {s} PROVE VerdictMatches(t)'
    BY <1>1, <1>3, VerdictParts DEF Remembered, HistoryInv, VerdictMatches, OthersKept
<1> QED BY <1>2, <1>5, <1>6, VerdictPartsNext

\* An upheld challenge leaves its mark on the submission it overturns.
LEMMA UpholdChallengeVerdicts ==
    ASSUME Remembered, NEW c \in ChallengeIds, FinalizeChallenge(c), UpholdChallenge(c)
    PROVE  VerdictMatchesHistory'
<1> SUFFICES ASSUME NEW s, s = challenges[c].submission_id PROVE VerdictMatchesHistory'
    OBVIOUS
<1>1. /\ s \in SubmissionIds
      /\ CanFinalize(c)
      /\ UNCHANGED <<submission_count, challenge_count>>
      /\ OtherChallengesKept(c) /\ SameDispute(c)
      /\ challenges'[c].status = "UPHELD"
      /\ OthersKept(s)
      /\ submissions'[s].status = "REJECTED"
      /\ submissions'[s].score_bucket = 0
      /\ submissions'[s].verdict_code = "CHALLENGE_UPHELD"
    BY SettledParts, UpholdChallengeEffect DEF Remembered
<1>2. SubmissionIds' = SubmissionIds /\ ChallengeIds' = ChallengeIds
    BY <1>1, IdsKept
<1>3. challenges[c].status = "OPEN"
    BY <1>1 DEF CanFinalize
<1>4. WasUpheld(s)' /\ \A t : t # s => (WasUpheld(t)' <=> WasUpheld(t))
    BY <1>1, <1>2 DEF WasUpheld, OtherChallengesKept, SameDispute
<1>5. VerdictMatches(s)'
    BY <1>1, <1>4 DEF VerdictMatches, Approved, NoFullMarks
<1>6. ASSUME NEW t \in SubmissionIds \ {s} PROVE VerdictMatches(t)'
    BY <1>1, <1>4, VerdictParts DEF Remembered, HistoryInv, VerdictMatches, OthersKept
<1> QED BY <1>2, <1>5, <1>6, VerdictPartsNext

-----------------------------------------------------------------------------
\* Method by method.

\* What most methods leave as it was, record by record.
BountiesStand ==
    /\ BountyIds' = BountyIds
    /\ \A b \in BountyIds : SameIndex(b)

SubmissionsStand ==
    /\ SubmissionIds' = SubmissionIds
    /\ \A s \in SubmissionIds :
        /\ SameEntry(s) /\ SameJudgment(s)
        /\ Approved(submissions'[s]) <=> Approved(submissions[s])
        /\ submissions'[s].active_challenge_id = 0 \/ SameLinks(s)

ChallengesStand ==
    /\ ChallengeIds' = ChallengeIds
    /\ \A c \in ChallengeIds :
        /\ SameDispute(c)
        /\ challenges'[c].status = "UPHELD" <=> challenges[c].status = "UPHELD"

\* Steps that neither submit, judge, challenge nor uphold keep the history.
LEMMA QuietHistory ==
    ASSUME Remembered, SubmissionsStand, ChallengesStand, UNCHANGED keyVars,
           BountyIds \subseteq BountyIds', \A b \in BountyIds : SameIndex(b),
           \A b \in BountyIds' \ BountyIds :
            bounties'[b].submission_ids = {} /\ bounties'[b].submission_count = 0
    PROVE  HistoryInv'
<1>1. EntryFrame
    BY DEF EntryFrame, SubmissionsStand, ChallengesStand
<1>2. VerdictFrame
    BY DEF VerdictFrame, SubmissionsStand, ChallengesStand, SameDispute
<1>3. LatestInv'
    BY DEF Remembered, HistoryInv, LatestInv, SubmissionsStand, SameLinks
<1> QED BY <1>1, <1>2, <1>3, EntryFrameKeeps, VerdictFrameKeeps DEF HistoryInv

\* Records that are left alone stand.
LEMMA UnchangedStand ==
    /\ UNCHANGED bountyVars => BountiesStand
    /\ UNCHANGED submissionVars => SubmissionsStand
    /\ UNCHANGED challengeVars => ChallengesStand
    BY UnchangedBountiesFrame, UnchangedSubmissionsEffect, UnchangedChallengesEffect
       DEF BountiesStand, SubmissionsStand, ChallengesStand, Approved

\* A challenge that changes keeps its dispute, and one that closes without
\* being upheld does not become upheld.
LEMMA ChallengeStands ==
    ASSUME NEW c \in ChallengeIds, ChallengeIds' = ChallengeIds, OtherChallengesKept(c),
           SameDispute(c), challenges'[c].status = "UPHELD" <=> challenges[c].status = "UPHELD"
    PROVE  ChallengesStand
    BY DEF ChallengesStand, OtherChallengesKept, SameDispute

\* A submission that changes without being judged stands.
LEMMA SubmissionStands ==
    ASSUME NEW s \in SubmissionIds, SubmissionIds' = SubmissionIds, OthersKept(s),
           SameEntry(s), SameJudgment(s), submissions'[s].status = submissions[s].status,
           submissions'[s].active_challenge_id = 0 \/ SameLinks(s)
    PROVE  SubmissionsStand
    BY DEF SubmissionsStand, OthersKept, SameEntry, SameJudgment, SameLinks, Approved

\* What is superseded stands: it was not approved and is not.
LEMMA SupersededStands ==
    ASSUME NEW b, NEW s \in SubmissionIds, SupersededIfUndecided(b, s)
    PROVE  /\ SameEntry(s) /\ SameJudgment(s) /\ SameLinks(s)
           /\ Approved(submissions'[s]) <=> Approved(submissions[s])
    BY DEF SupersededIfUndecided, SameEntry, SameJudgment, SameLinks, Approved

\* Methods that change one bounty and nothing the history is about.
LEMMA BountyMethodHistory ==
    ASSUME Remembered,
           \/ \E sender \in Addresses, b \in BountyIds : CancelBounty(sender, b)
           \/ \E b \in BountyIds : ExpireBounty(b)
           \/ \E sender \in Addresses, b \in BountyIds : WithdrawRefund(sender, b)
    PROVE  HistoryInv'
<1>1. ASSUME NEW b \in BountyIds, UNCHANGED <<bounty_count, challengeVars, keyVars>>,
             OtherBountiesKept(b), SameIndex(b), SubmissionsStand
      PROVE  HistoryInv'
    BY <1>1, IdsKept, UnchangedStand, QuietHistory DEF OtherBountiesKept, SameIndex
<1>2. ASSUME NEW sender \in Addresses, NEW b \in BountyIds, CancelBounty(sender, b)
      PROVE  HistoryInv'
    BY <1>1, <1>2, SettledParts, CancelBountyEffect, UnchangedStand DEF Remembered, RefundRecorded
<1>3. ASSUME NEW b \in BountyIds, ExpireBounty(b)
      PROVE  HistoryInv'
    <2>1. /\ UNCHANGED <<bounty_count, submission_count, challengeVars, keyVars>>
          /\ RefundRecorded(b, "EXPIRED")
          /\ \A s \in SubmissionIds : SupersededIfUndecided(b, s)
        BY <1>3, SettledParts, ExpireBountyEffect DEF Remembered
    <2>2. SubmissionsStand
        BY <2>1, IdsKept, SupersededStands DEF SubmissionsStand
    <2> QED BY <1>1, <2>1, <2>2 DEF RefundRecorded
<1>4. ASSUME NEW sender \in Addresses, NEW b \in BountyIds, WithdrawRefund(sender, b)
      PROVE  HistoryInv'
    BY <1>1, <1>4, SettledParts, WithdrawRefundEffect, UnchangedStand DEF Remembered
<1> QED BY <1>2, <1>3, <1>4

\* Methods that change one submission without judging it.
LEMMA SubmissionMethodHistory ==
    ASSUME Remembered, NEW sender \in Addresses, NEW s \in SubmissionIds,
           ClaimReward(sender, s) \/ WithdrawReward(sender, s)
    PROVE  HistoryInv'
<1>1. CASE ClaimReward(sender, s)
    <2> SUFFICES ASSUME NEW b, b = submissions[s].bounty_id PROVE HistoryInv'
        OBVIOUS
    <2>1. /\ CanClaim(sender, s)
          /\ UNCHANGED <<bounty_count, submission_count, challengeVars, keyVars>>
          /\ \A t \in SubmissionIds \ {s} : SupersededIfUndecided(b, t)
          /\ SameEntry(s) /\ SameJudgment(s) /\ SameLinks(s)
          /\ submissions'[s].status = "APPROVED"
          /\ OtherBountiesKept(b) /\ SameIndex(b)
        BY <1>1, SettledParts, ClaimRewardEffect DEF Remembered
    <2>2. submissions[s].status = "APPROVED_PENDING"
        BY <2>1, Zenon DEF CanClaim
    <2>3. SubmissionsStand
        BY <2>1, <2>2, IdsKept, SupersededStands DEF SubmissionsStand, Approved
    <2>4. BountiesStand
        BY <2>1, IdsKept DEF BountiesStand, OtherBountiesKept, SameIndex
    <2> QED BY <2>1, <2>3, <2>4, UnchangedStand, QuietHistory DEF BountiesStand
<1>2. CASE WithdrawReward(sender, s)
    <2>1. /\ UNCHANGED <<bountyVars, submission_count, challengeVars, keyVars>>
          /\ OthersKept(s) /\ SameEntry(s) /\ SameJudgment(s) /\ SameLinks(s)
          /\ submissions'[s].status = submissions[s].status
        BY <1>2, SettledParts, WithdrawRewardEffect DEF Remembered
    <2>2. SubmissionsStand
        BY <2>1, IdsKept, SubmissionStands
    <2> QED BY <2>1, <2>2, UnchangedStand, QuietHistory DEF BountiesStand
<1> QED BY <1>1, <1>2

\* Methods that change one challenge without upholding it.
LEMMA ChallengeMethodHistory ==
    ASSUME Remembered, NEW c \in ChallengeIds,
           \/ \E result \in ReviewResults : ReviewChallenge(c, result)
           \/ FinalizeChallenge(c) /\ DismissChallenge(c)
           \/ TimeoutChallenge(c)
           \/ \E sender \in Addresses : WithdrawBond(sender, c)
    PROVE  HistoryInv'
<1>1. ASSUME NEW result \in ReviewResults, ReviewChallenge(c, result) PROVE HistoryInv'
    <2>1. /\ UNCHANGED <<bountyVars, submissionVars, challenge_count, keyVars>>
          /\ OtherChallengesKept(c) /\ SameDispute(c)
          /\ challenges'[c].status = challenges[c].status
        BY <1>1, SettledParts, ReviewChallengeEffect DEF Remembered
    <2>2. ChallengesStand
        BY <2>1, IdsKept, ChallengeStands
    <2> QED BY <2>1, <2>2, UnchangedStand, QuietHistory DEF BountiesStand
<1>2. CASE (FinalizeChallenge(c) /\ DismissChallenge(c)) \/ TimeoutChallenge(c)
    <2> SUFFICES ASSUME NEW s, s = challenges[c].submission_id PROVE HistoryInv'
        OBVIOUS
    <2>1. /\ s \in SubmissionIds
          /\ challenges[c].status = "OPEN"
          /\ UNCHANGED <<bountyVars, submission_count, challenge_count, keyVars>>
          /\ OtherChallengesKept(c) /\ SameDispute(c)
          /\ challenges'[c].status \in {"DISMISSED", "TIMED_OUT"}
          /\ OthersKept(s) /\ SameEntry(s) /\ SameJudgment(s)
          /\ submissions'[s].status = submissions[s].status
          /\ submissions'[s].active_challenge_id = 0
        BY <1>2, SettledParts, ChallengeClosedEffect DEF Remembered
    <2>2. ChallengesStand
        BY <2>1, IdsKept, ChallengeStands
    <2>3. SubmissionsStand
        BY <2>1, IdsKept, SubmissionStands
    <2> QED BY <2>1, <2>2, <2>3, UnchangedStand, QuietHistory DEF BountiesStand
<1>3. ASSUME NEW sender \in Addresses, WithdrawBond(sender, c) PROVE HistoryInv'
    <2>1. /\ UNCHANGED <<bountyVars, submissionVars, challenge_count, keyVars>>
          /\ OtherChallengesKept(c) /\ SameDispute(c)
          /\ challenges'[c].status = challenges[c].status
        BY <1>3, SettledParts, WithdrawBondEffect DEF Remembered
    <2>2. ChallengesStand
        BY <2>1, IdsKept, ChallengeStands
    <2> QED BY <2>1, <2>2, UnchangedStand, QuietHistory DEF BountiesStand
<1> QED BY <1>1, <1>2, <1>3

\* A new bounty has no entries.
LEMMA PostBountyHistory ==
    ASSUME Remembered, NEW sender \in Addresses, NEW value \in Rewards,
           NEW sw \in SubmissionWindows, NEW eg \in EvaluationGraces, NEW cw \in ChallengeWindows,
           PostBounty(sender, value, sw, eg, cw)
    PROVE  HistoryInv'
<1>1. /\ BountyIds' = BountyIds \cup {bounty_count}
      /\ UNCHANGED <<submissionVars, challengeVars, keyVars>>
      /\ \A b \in BountyIds : bounties'[b] = bounties[b]
      /\ bounties'[bounty_count].submission_ids = {}
      /\ bounties'[bounty_count].submission_count = 0
    BY SettledParts, PostBountyEffect DEF Remembered
<1> QED BY <1>1, UnchangedStand, QuietHistory DEF SameIndex

\* A new submission has no verdict and no challenge.
LEMMA SubmitContentHistory ==
    ASSUME Remembered, NEW sender \in Addresses, NEW b \in BountyIds, NEW digest \in Digests,
           SubmitContent(sender, b, digest)
    PROVE  HistoryInv'
<1> SUFFICES ASSUME NEW n, n = submission_count PROVE HistoryInv'
    OBVIOUS
<1>1. /\ SubmissionIds' = SubmissionIds \cup {n}
      /\ UNCHANGED challengeVars
      /\ \A s \in SubmissionIds : submissions'[s] = submissions[s]
      /\ submissions'[n].status = "PENDING"
      /\ submissions'[n].verdict_code \notin {"ALL_CRITERIA_MET", "CHALLENGE_UPHELD"}
      /\ submissions'[n].score_bucket = 0
      /\ submissions'[n].active_challenge_id = 0
    BY SettledParts, SubmitContentEffect DEF Remembered
<1>2. VerdictFrame
    BY <1>1, UnchangedChallengesEffect
       DEF VerdictFrame, SameJudgment, Approved, NoFullMarks, challengeVars
<1>3. LatestInv'
    BY <1>1 DEF Remembered, HistoryInv, LatestInv
<1> QED BY <1>2, <1>3, VerdictFrameKeeps, SubmitContentEntries DEF HistoryInv

\* An evaluation changes no entry and no challenge.
LEMMA EvaluateSubmissionHistory ==
    ASSUME Remembered, NEW s \in SubmissionIds, NEW result \in EvaluationResults,
           EvaluateSubmission(s, result)
    PROVE  HistoryInv'
<1> SUFFICES ASSUME NEW b, b = submissions[s].bounty_id PROVE HistoryInv'
    OBVIOUS
<1>1. /\ UNCHANGED <<bounty_count, submission_count, challengeVars, keyVars>>
      /\ OthersKept(s) /\ SameEntry(s)
      /\ submissions'[s].active_challenge_id = submissions[s].active_challenge_id
      /\ submissions'[s].latest_challenge_id = submissions[s].latest_challenge_id
      /\ (OtherBountiesKept(b) /\ SameIndex(b)) \/ UNCHANGED bounties
    BY SettledParts, EvaluateSubmissionEffect, ZenonT(60) DEF Remembered
<1>2. SubmissionIds' = SubmissionIds /\ BountyIds' = BountyIds
    BY <1>1, IdsKept
<1>3. \A d \in BountyIds : SameIndex(d)
    BY <1>1 DEF OtherBountiesKept, SameIndex
<1>4. EntryFrame
    BY <1>1, <1>2, <1>3, UnchangedChallengesEffect DEF EntryFrame, OthersKept, SameEntry
<1>5. LatestInv'
    BY <1>1, <1>2 DEF Remembered, HistoryInv, LatestInv, OthersKept
<1> QED BY <1>4, <1>5, EntryFrameKeeps, EvaluateSubmissionVerdicts DEF HistoryInv

\* A new challenge is the latest of its submission.
LEMMA ChallengeSubmissionHistory ==
    ASSUME Remembered, NEW sender \in Addresses, NEW s \in SubmissionIds,
           NEW reason \in ChallengeReasons, NEW digest \in Digests,
           ChallengeSubmission(sender, s, reason, digest)
    PROVE  HistoryInv'
<1> SUFFICES ASSUME NEW n, n = challenge_count + 1 PROVE HistoryInv'
    OBVIOUS
<1>1. /\ ChallengeIds' = ChallengeIds \cup {n}
      /\ UNCHANGED submission_count
      /\ OthersKept(s) /\ SameJudgment(s)
      /\ submissions'[s].status = submissions[s].status
      /\ submissions'[s].active_challenge_id = n
      /\ submissions'[s].latest_challenge_id = n
      /\ \A d \in ChallengeIds : challenges'[d] = challenges[d]
      /\ challenges'[n].status = "OPEN"
    BY SettledParts, ChallengeSubmissionEffect DEF Remembered
<1>2. SubmissionIds' = SubmissionIds
    BY <1>1, IdsKept
<1>3. VerdictFrame
    BY <1>1, <1>2 DEF VerdictFrame, OthersKept, SameJudgment, Approved
<1>4. LatestInv'
    BY <1>1, <1>2 DEF Remembered, HistoryInv, LatestInv, OthersKept
<1> QED BY <1>3, <1>4, VerdictFrameKeeps, ChallengeSubmissionEntries DEF HistoryInv

\* Upholding a challenge changes no entry.
LEMMA UpholdChallengeHistory ==
    ASSUME Remembered, NEW c \in ChallengeIds, FinalizeChallenge(c), UpholdChallenge(c)
    PROVE  HistoryInv'
<1> SUFFICES ASSUME NEW s, s = challenges[c].submission_id, NEW b, b = challenges[c].bounty_id
             PROVE  HistoryInv'
    OBVIOUS
<1>1. /\ UNCHANGED <<bounty_count, submission_count, challenge_count, keyVars>>
      /\ OtherChallengesKept(c) /\ SameDispute(c)
      /\ OthersKept(s) /\ SameEntry(s)
      /\ submissions'[s].active_challenge_id = 0
      /\ OtherBountiesKept(b) /\ SameIndex(b)
    BY SettledParts, UpholdChallengeEffect DEF Remembered
<1>2. /\ BountyIds' = BountyIds /\ SubmissionIds' = SubmissionIds
      /\ ChallengeIds' = ChallengeIds
    BY <1>1, IdsKept
<1>3. /\ \A d \in BountyIds : SameIndex(d)
      /\ \A t \in SubmissionIds : SameEntry(t)
      /\ \A d \in ChallengeIds : SameDispute(d)
    BY <1>1
       DEF OtherBountiesKept, SameIndex, OthersKept, SameEntry, OtherChallengesKept, SameDispute
<1>4. EntryFrame
    BY <1>1, <1>2, <1>3 DEF EntryFrame
<1>5. LatestInv'
    BY <1>1, <1>2 DEF Remembered, HistoryInv, LatestInv, OthersKept
<1> QED BY <1>4, <1>5, EntryFrameKeeps, UpholdChallengeVerdicts DEF HistoryInv

\* Nothing is remembered at first.
LEMMA HistoryInit == Init => HistoryInv
<1> SUFFICES ASSUME Init PROVE HistoryInv
    OBVIOUS
<1>1. BountyIds = {} /\ SubmissionIds = {} /\ ChallengeIds = {}
    BY DEF Init, BountyIds, SubmissionIds, ChallengeIds
<1> QED
    BY <1>1 DEF Init, HistoryInv, KeysInv, EntriesAreUnique, VerdictMatchesHistory, LatestInv

\* Every step keeps the history.
LEMMA HistoryStep == Remembered /\ [Next]_vars => HistoryInv'
<1> SUFFICES ASSUME Remembered, [Next]_vars PROVE HistoryInv'
    OBVIOUS
<1>1. ASSUME NEW sender \in Addresses, NEW value \in Rewards, NEW sw \in SubmissionWindows,
             NEW eg \in EvaluationGraces, NEW cw \in ChallengeWindows,
             PostBounty(sender, value, sw, eg, cw)
      PROVE  HistoryInv'
    BY <1>1, PostBountyHistory
<1>2. ASSUME NEW sender \in Addresses, NEW b \in BountyIds, NEW digest \in Digests,
             SubmitContent(sender, b, digest)
      PROVE  HistoryInv'
    BY <1>2, SubmitContentHistory
<1>3. ASSUME NEW s \in SubmissionIds, NEW result \in EvaluationResults,
             EvaluateSubmission(s, result)
      PROVE  HistoryInv'
    BY <1>3, EvaluateSubmissionHistory
<1>4. ASSUME NEW sender \in Addresses, NEW s \in SubmissionIds, NEW reason \in ChallengeReasons,
             NEW digest \in Digests, ChallengeSubmission(sender, s, reason, digest)
      PROVE  HistoryInv'
    BY <1>4, ChallengeSubmissionHistory
<1>5. ASSUME NEW c \in ChallengeIds, NEW result \in ReviewResults, ReviewChallenge(c, result)
      PROVE  HistoryInv'
    BY <1>5, ChallengeMethodHistory
<1>6. ASSUME NEW c \in ChallengeIds, FinalizeChallenge(c)
      PROVE  HistoryInv'
    <2>1. UpholdChallenge(c) \/ DismissChallenge(c)
        BY <1>6 DEF FinalizeChallenge
    <2> QED BY <1>6, <2>1, UpholdChallengeHistory, ChallengeMethodHistory
<1>7. ASSUME NEW c \in ChallengeIds, TimeoutChallenge(c)
      PROVE  HistoryInv'
    BY <1>7, ChallengeMethodHistory
<1>8. ASSUME NEW sender \in Addresses, NEW s \in SubmissionIds,
             ClaimReward(sender, s) \/ WithdrawReward(sender, s)
      PROVE  HistoryInv'
    BY <1>8, SubmissionMethodHistory
<1>9. ASSUME NEW sender \in Addresses, NEW b \in BountyIds,
             CancelBounty(sender, b) \/ WithdrawRefund(sender, b)
      PROVE  HistoryInv'
    BY <1>9, BountyMethodHistory
<1>10. ASSUME NEW b \in BountyIds, ExpireBounty(b) PROVE HistoryInv'
    BY <1>10, BountyMethodHistory
<1>11. ASSUME NEW sender \in Addresses, NEW c \in ChallengeIds, WithdrawBond(sender, c)
       PROVE  HistoryInv'
    BY <1>11, ChallengeMethodHistory
<1>12. CASE Tick \/ UNCHANGED vars
    <2>1. UNCHANGED <<bountyVars, submissionVars, challengeVars, keyVars>>
        BY <1>12 DEF Tick, vars
    <2> QED BY <2>1, UnchangedStand, QuietHistory DEF BountiesStand
<1> QED
    BY <1>1, <1>2, <1>3, <1>4, <1>5, <1>6, <1>7, <1>8, <1>9, <1>10, <1>11, <1>12 DEF Next

\* The invariant is inductive.
LEMMA RememberedInvariant == Spec => []Remembered
<1>1. Settled /\ HistoryInv /\ [Next]_vars => HistoryInv'
    BY HistoryStep DEF Remembered
<1>2. Spec => [](Settled /\ HistoryInv)
    BY <1>1, HistoryInit, SettledInvariant, PTL DEF Spec
<1> QED BY <1>2, PTL DEF Remembered

-----------------------------------------------------------------------------
\* No creator and no page is in a bounty twice, a bounty's own index and count
\* are those of its submissions and within the limit, and no challenge repeats
\* the reason and evidence of an earlier one.
THEOREM EntriesStayUnique == Spec => []EntriesAreUnique
<1>1. Remembered => EntriesAreUnique
    BY DEF Remembered, HistoryInv
<1> QED BY <1>1, RememberedInvariant, PTL

\* The verdict a submission publishes is the one of what happened to it: full
\* marks exactly while it is approved, CHALLENGE_UPHELD exactly when a
\* challenge to it was upheld.
THEOREM VerdictsTellTheHistory == Spec => []VerdictMatchesHistory
<1>1. Remembered => VerdictMatchesHistory
    BY DEF Remembered, HistoryInv
<1> QED BY <1>1, RememberedInvariant, PTL

-----------------------------------------------------------------------------
\* The interface.

\* What the browser pages through is the bounty's own index, so it sees an
\* active challenge, or a submission of the wallet's, when the contract does.
LEMMA LoadedIsTheIndex ==
    ASSUME Remembered, NEW b \in BountyIds, NEW wallet \in Addresses
    PROVE  /\ (\E s \in LoadedSubmissions(b) : submissions[s].active_challenge_id # 0)
                <=> BountyHasActiveChallenge(b)
           /\ (\E s \in LoadedSubmissions(b) : submissions[s].creator = wallet)
                <=> <<b, wallet>> \in creator_submission_ids
<1>1. LoadedSubmissions(b) = bounties[b].submission_ids
    BY SettledParts DEF Remembered, IndexInv, LoadedSubmissions, SubmissionsOf
<1>2. (\E s \in LoadedSubmissions(b) : submissions[s].creator = wallet)
        <=> <<b, wallet>> \in creator_submission_ids
    BY DEF Remembered, HistoryInv, KeysInv, LoadedSubmissions
<1> QED BY <1>1, <1>2, Zenon DEF BountyHasActiveChallenge

\* The bounty's buttons.
LEMMA BountyOffersMatch ==
    ASSUME Remembered, NEW b \in BountyIds, NEW wallet \in Addresses
    PROVE  LET offered == BountyOffers(clock, wallet, b)
           IN
           /\ \A digest \in Digests : <<b, digest>> \notin evidence_submission_ids =>
                (offered.submit <=> CanSubmit(wallet, b, digest))
           /\ offered.cancel <=> CanCancel(wallet, b)
           /\ offered.expire <=> CanExpire(b)
           /\ offered.withdraw_refund <=> CanWithdrawRefund(wallet, b)
<1>1. BountyOffers(clock, wallet, b).submit <=>
        /\ bounties[b].status \in {"OPEN", "LOCKED"}
        /\ clock <= bounties[b].submission_deadline
        /\ bounties[b].submission_count < MAX_SUBMISSIONS_PER_BOUNTY
        /\ <<b, wallet>> \notin creator_submission_ids
    BY LoadedIsTheIndex, Zenon DEF BountyOffers, SameAddress
<1>2. \A digest \in Digests : <<b, digest>> \notin evidence_submission_ids =>
        (BountyOffers(clock, wallet, b).submit <=> CanSubmit(wallet, b, digest))
    BY <1>1, Zenon DEF CanSubmit, NotYetSubmitted
<1>3. BountyOffers(clock, wallet, b).cancel <=> CanCancel(wallet, b)
    BY LoadedIsTheIndex, Zenon DEF BountyOffers, SameAddress, CanCancel
<1>4. BountyOffers(clock, wallet, b).expire <=> CanExpire(b)
    BY LoadedIsTheIndex, Zenon DEF BountyOffers, CanExpire
<1>5. BountyOffers(clock, wallet, b).withdraw_refund <=> CanWithdrawRefund(wallet, b)
    BY Zenon DEF BountyOffers, SameAddress, CanWithdrawRefund
<1> QED BY <1>2, <1>3, <1>4, <1>5, Zenon

\* A submission's buttons.
LEMMA SubmissionOffersMatch ==
    ASSUME NEW b, NEW s, b = submissions[s].bounty_id, NEW wallet
    PROVE  LET offered == SubmissionOffers(clock, wallet, b, s)
           IN
           /\ offered.evaluate <=> CanEvaluate(s)
           /\ offered.challenge <=> CanChallenge(wallet, s)
           /\ offered.claim <=> CanClaim(wallet, s)
           /\ offered.withdraw_reward <=> CanWithdrawReward(wallet, s)
<1>1. SubmissionOffers(clock, wallet, b, s).evaluate <=> CanEvaluate(s)
    BY Zenon DEF SubmissionOffers, CanEvaluate, Evaluable, NoOtherProvisionalWinner
<1>2. SubmissionOffers(clock, wallet, b, s).challenge <=> CanChallenge(wallet, s)
    BY Zenon DEF SubmissionOffers, SameAddress, CanChallenge
<1>3. SubmissionOffers(clock, wallet, b, s).claim <=> CanClaim(wallet, s)
    BY Zenon DEF SubmissionOffers, SameAddress, CanClaim
<1>4. SubmissionOffers(clock, wallet, b, s).withdraw_reward <=> CanWithdrawReward(wallet, s)
    BY Zenon DEF SubmissionOffers, SameAddress, CanWithdrawReward
<1> QED BY <1>1, <1>2, <1>3, <1>4, Zenon

\* A challenge's buttons: an open challenge still holds its bond.
LEMMA ChallengeOffersMatch ==
    ASSUME Remembered, NEW c \in ChallengeIds, NEW wallet
    PROVE  LET offered == ChallengeOffers(clock, wallet, c)
           IN
           /\ offered.review <=> CanReview(c)
           /\ offered.finalize <=> CanFinalize(c)
           /\ offered.timeout <=> CanTimeout(c)
           /\ offered.withdraw_bond <=> CanWithdrawBond(wallet, c)
<1>1. challenges[c].status = "OPEN" => ~challenges[c].bond_released
    BY Zenon DEF Remembered, Settled, ChallengeInv, BondFollowsOutcome, BondMatchesOutcome
<1>2. ChallengeOffers(clock, wallet, c).review <=> CanReview(c)
    BY Zenon DEF ChallengeOffers, CanReview
<1>3. ChallengeOffers(clock, wallet, c).finalize <=> CanFinalize(c)
    BY <1>1, Zenon DEF ChallengeOffers, CanFinalize
<1>4. ChallengeOffers(clock, wallet, c).timeout <=> CanTimeout(c)
    BY <1>1, Zenon DEF ChallengeOffers, CanTimeout
<1>5. ChallengeOffers(clock, wallet, c).withdraw_bond <=> CanWithdrawBond(wallet, c)
    BY Zenon DEF ChallengeOffers, SameAddress, CanWithdrawBond
<1> QED BY <1>2, <1>3, <1>4, <1>5, Zenon

\* A challenge that is not loaded is closed: the open one is the latest.
LEMMA OpenChallengeIsLoaded ==
    ASSUME Remembered, NEW c \in ChallengeIds, challenges[c].status = "OPEN"
    PROVE  c \in LoadedChallenges(challenges[c].bounty_id)
<1> DEFINE s == challenges[c].submission_id
<1>1. c # 0 /\ s \in SubmissionIds /\ submissions[s].active_challenge_id = c
    BY SettledParts DEF Remembered, ChallengeLinks, ChallengeIds, TypeInv, TypeOK
<1>2. submissions[s].bounty_id = challenges[c].bounty_id
    BY SettledParts DEF Remembered, UpheldInv
<1>3. submissions[s].latest_challenge_id = c
    BY <1>1 DEF Remembered, HistoryInv, LatestInv
<1> QED BY <1>1, <1>2, <1>3 DEF LoadedChallenges, LoadedSubmissions

\* Whatever was submitted, judged, challenged and settled before, the interface
\* offers an account exactly what the contract would take from it.
THEOREM OffersMatchTheContract == Spec => []InterfaceMatchesContract
<1>1. ASSUME Remembered, NEW b \in BountyIds, NEW wallet \in Addresses
      PROVE  LET offered == AvailableActions(clock, wallet, b)
             IN
             /\ \A digest \in Digests : <<b, digest>> \notin evidence_submission_ids =>
                   (offered.bounty.submit <=> CanSubmit(wallet, b, digest))
             /\ offered.bounty.cancel <=> CanCancel(wallet, b)
             /\ offered.bounty.expire <=> CanExpire(b)
             /\ offered.bounty.withdraw_refund <=> CanWithdrawRefund(wallet, b)
             /\ \A s \in SubmissionIds : submissions[s].bounty_id = b =>
                   /\ offered.submission[s].evaluate <=> CanEvaluate(s)
                   /\ offered.submission[s].challenge <=> CanChallenge(wallet, s)
                   /\ offered.submission[s].claim <=> CanClaim(wallet, s)
                   /\ offered.submission[s].withdraw_reward <=> CanWithdrawReward(wallet, s)
             /\ \A c \in ChallengeIds : challenges[c].bounty_id = b =>
                   IF c \in DOMAIN offered.challenge
                   THEN /\ offered.challenge[c].review <=> CanReview(c)
                        /\ offered.challenge[c].finalize <=> CanFinalize(c)
                        /\ offered.challenge[c].timeout <=> CanTimeout(c)
                        /\ offered.challenge[c].withdraw_bond <=> CanWithdrawBond(wallet, c)
                   ELSE ~CanReview(c) /\ ~CanFinalize(c) /\ ~CanTimeout(c)
    <2> DEFINE offered == AvailableActions(clock, wallet, b)
    <2>1. /\ offered.bounty = BountyOffers(clock, wallet, b)
          /\ offered.submission =
                [s \in LoadedSubmissions(b) |-> SubmissionOffers(clock, wallet, b, s)]
          /\ offered.challenge =
                [c \in LoadedChallenges(b) |-> ChallengeOffers(clock, wallet, c)]
        BY Zenon DEF AvailableActions
    <2> HIDE DEF offered
    <2>2. /\ \A digest \in Digests : <<b, digest>> \notin evidence_submission_ids =>
                (offered.bounty.submit <=> CanSubmit(wallet, b, digest))
          /\ offered.bounty.cancel <=> CanCancel(wallet, b)
          /\ offered.bounty.expire <=> CanExpire(b)
          /\ offered.bounty.withdraw_refund <=> CanWithdrawRefund(wallet, b)
        BY <1>1, <2>1, BountyOffersMatch, Zenon
    <2>3. ASSUME NEW s \in SubmissionIds, submissions[s].bounty_id = b
          PROVE  /\ offered.submission[s].evaluate <=> CanEvaluate(s)
                 /\ offered.submission[s].challenge <=> CanChallenge(wallet, s)
                 /\ offered.submission[s].claim <=> CanClaim(wallet, s)
                 /\ offered.submission[s].withdraw_reward <=> CanWithdrawReward(wallet, s)
        <3>1. offered.submission[s] = SubmissionOffers(clock, wallet, b, s)
            BY <2>1, <2>3 DEF LoadedSubmissions
        <3> QED BY <2>3, <3>1, SubmissionOffersMatch, Zenon
    <2>4. ASSUME NEW c \in ChallengeIds, challenges[c].bounty_id = b,
                 c \in DOMAIN offered.challenge
          PROVE  /\ offered.challenge[c].review <=> CanReview(c)
                 /\ offered.challenge[c].finalize <=> CanFinalize(c)
                 /\ offered.challenge[c].timeout <=> CanTimeout(c)
                 /\ offered.challenge[c].withdraw_bond <=> CanWithdrawBond(wallet, c)
        <3>1. offered.challenge[c] = ChallengeOffers(clock, wallet, c)
            BY <2>1, <2>4
        <3> QED BY <1>1, <3>1, ChallengeOffersMatch, Zenon
    <2>5. ASSUME NEW c \in ChallengeIds, challenges[c].bounty_id = b,
                 c \notin DOMAIN offered.challenge
          PROVE  ~CanReview(c) /\ ~CanFinalize(c) /\ ~CanTimeout(c)
        <3>1. challenges[c].status # "OPEN"
            BY <1>1, <2>1, <2>5, OpenChallengeIsLoaded
        <3> QED BY <3>1, Zenon DEF CanReview, CanFinalize, CanTimeout
    <2> QED BY <2>2, <2>3, <2>4, <2>5, Zenon DEF offered
<1>2. Remembered => InterfaceMatchesContract
    BY <1>1, Zenon DEF InterfaceMatchesContract
<1> QED BY <1>2, RememberedInvariant, PTL
=============================================================================
