------------------------ MODULE ContentBountyProofs -------------------------
(***************************************************************************)
(* What holds of the contract for every set of accounts, every window,     *)
(* limit and reward, and every result consensus may agree on: first the    *)
(* types of its records, then what holds of challenges.                    *)
(***************************************************************************)
EXTENDS ContentBountyProperties, TLAPS

\* The records refer to records that exist.  TypeOK alone is not inductive: a
\* claim copies the reward of the bounty its submission names, and a dismissal
\* the creator of the submission its challenge names.
References ==
    /\ \A s \in SubmissionIds : submissions[s].bounty_id \in BountyIds
    /\ \A c \in ChallengeIds :
        /\ challenges[c].submission_id \in SubmissionIds
        /\ challenges[c].bounty_id \in BountyIds

TypeInv == TypeOK /\ References

-----------------------------------------------------------------------------
\* Lemmas about the operators.

\* Appending a record extends the array by one id.
LEMMA AppendedType ==
    ASSUME NEW S, NEW Ids, NEW array \in [Ids -> S], NEW id, NEW record \in S
    PROVE  Appended(array, id, record) \in [Ids \cup {id} -> S]
    BY DEF Appended

\* The ids grow by one.
LEMMA NextBountyId ==
    ASSUME NEW n \in Nat PROVE 0..((n + 1) - 1) = (0..(n - 1)) \cup {n}
    OBVIOUS

\* Challenge ids start at 1 and grow by one.
LEMMA NextChallengeId ==
    ASSUME NEW n \in Nat PROVE 1..(n + 1) = (1..n) \cup {n + 1}
    OBVIOUS

\* A bond is a positive amount.
LEMMA ChallengeBondType ==
    ASSUME NEW reward \in Nat
    PROVE  ChallengeBond(reward) \in Nat \ {0}
    BY BondAssumption DEF ChallengeBond

\* Superseding keeps the records' type.
LEMMA SupersededType ==
    ASSUME NEW Ids, NEW array \in [Ids -> Submission], NEW b, NEW winner,
           NEW reason \in {"ANOTHER_SUBMISSION_APPROVED", "BOUNTY_EXPIRED"}
    PROVE  /\ Superseded(array, b, winner, reason) \in [Ids -> Submission]
           /\ \A s \in Ids :
                Superseded(array, b, winner, reason)[s].bounty_id = array[s].bounty_id
    BY ZenonT(60) DEF Superseded, Submission, SubmissionStatuses

\* Paying out keeps the ledger's type.
LEMMA EmitTransferType ==
    ASSUME balance \in Int, received \in [Addresses -> Int],
           NEW recipient \in Addresses, NEW amount \in Nat, EmitTransfer(recipient, amount)
    PROVE  balance' \in Int /\ received' \in [Addresses -> Int]
<1>1. /\ balance' = balance - amount
      /\ received' = [received EXCEPT ![recipient] = received[recipient] + amount]
    BY DEF EmitTransfer
<1>2. received[recipient] + amount \in Int /\ balance - amount \in Int
    OBVIOUS
<1> QED BY <1>1, <1>2

-----------------------------------------------------------------------------
\* Each action keeps TypeInv.

\* post_bounty appends a bounty of its type.
LEMMA PostBountyType ==
    ASSUME TypeInv, NEW sender \in Addresses, NEW value \in Rewards,
           NEW sw \in SubmissionWindows, NEW eg \in EvaluationGraces, NEW cw \in ChallengeWindows,
           PostBounty(sender, value, sw, eg, cw)
    PROVE  TypeInv'
<1> DEFINE record ==
        [poster |-> sender, reward |-> value,
         submission_deadline |-> clock + sw,
         evaluation_deadline |-> clock + sw + eg,
         challenge_window_seconds |-> cw, status |-> "OPEN",
         submission_count |-> 0, submission_ids |-> {},
         has_winner |-> FALSE, winner_submission_id |-> 0,
         has_provisional_winner |-> FALSE, provisional_submission_id |-> 0,
         escrow_balance |-> value, refund_amount |-> 0, refund_status |-> ""]
<1>1. /\ UNCHANGED <<clock, submissionVars, challengeVars, keyVars, received>>
      /\ bounty_count' = bounty_count + 1
      /\ bounties' = Appended(bounties, bounty_count, record)
      /\ balance' = balance + value
    BY DEF PostBounty
<1>2. BountyIds' = BountyIds \cup {bounty_count}
    BY <1>1, NextBountyId DEF TypeInv, TypeOK, BountyIds
<1>3. record \in Bounty
    <2>1. /\ clock + sw \in Nat
          /\ clock + sw + eg \in Nat
          /\ cw \in Nat
          /\ value \in Nat
        BY WindowAssumption, RewardAssumption DEF TypeInv, TypeOK
    <2> QED BY <2>1 DEF Bounty, BountyStatuses, LiabilityStatuses
<1>4. bounties' \in [BountyIds' -> Bounty]
    BY <1>1, <1>2, <1>3, AppendedType DEF TypeInv, TypeOK
<1> HIDE DEF record
<1>5. balance' \in Int
    BY <1>1, RewardAssumption DEF TypeInv, TypeOK
<1> QED
    BY <1>1, <1>2, <1>4, <1>5
       DEF TypeInv, TypeOK, References, submissionVars, challengeVars, keyVars,
           SubmissionIds, ChallengeIds

\* submit_content appends a submission that names an existing bounty.
LEMMA SubmitContentType ==
    ASSUME TypeInv, NEW sender \in Addresses, NEW b \in BountyIds, NEW digest \in Digests,
           SubmitContent(sender, b, digest)
    PROVE  TypeInv'
<1> DEFINE record ==
        [bounty_id |-> b, creator |-> sender, evidence_sha256 |-> digest,
         status |-> "PENDING", attempt_count |-> 0, decision |-> "",
         criteria_bits |-> <<>>, score_bucket |-> 0, reason_code |-> "",
         verdict_code |-> "", challenge_deadline |-> 0, active_challenge_id |-> 0,
         latest_challenge_id |-> 0, reward_claimed |-> FALSE, reward_amount |-> 0,
         reward_status |-> ""]
<1>1. /\ UNCHANGED <<clock, bounty_count, challengeVars, challenge_fingerprints, moneyVars>>
      /\ submission_count' = submission_count + 1
      /\ submissions' = Appended(submissions, submission_count, record)
      /\ creator_submission_ids' = creator_submission_ids \cup {<<b, sender>>}
      /\ evidence_submission_ids' = evidence_submission_ids \cup {<<b, digest>>}
    BY DEF SubmitContent
<1>2. SubmissionIds' = SubmissionIds \cup {submission_count}
    BY <1>1, NextBountyId DEF TypeInv, TypeOK, SubmissionIds
<1>3. record \in Submission
    <2>1. /\ b \in Nat
          /\ 0 \in 0..MAX_EVALUATION_ATTEMPTS
        BY LimitAssumption DEF TypeInv, TypeOK, BountyIds
    <2> QED BY <2>1 DEF Submission, SubmissionStatuses, LiabilityStatuses, VerdictCodes, CriteriaBits
<1>4. submissions' \in [SubmissionIds' -> Submission]
    BY <1>1, <1>2, <1>3, AppendedType DEF TypeInv, TypeOK
<1>5. \A s \in SubmissionIds' : submissions'[s].bounty_id \in BountyIds
    BY <1>1, <1>2 DEF TypeInv, TypeOK, References, Appended
<1>6. bounties' \in [BountyIds -> Bounty]
    <2> DEFINE bounty == [bounties[b] EXCEPT
            !.submission_ids = bounties[b].submission_ids \cup {submission_count},
            !.submission_count = bounties[b].submission_count + 1,
            !.status = "LOCKED"]
    <2>1. /\ bounties[b] \in Bounty
          /\ bounties[b].submission_ids \cup {submission_count} \in SUBSET Nat
          /\ bounties[b].submission_count + 1 \in Nat
        BY DEF TypeInv, TypeOK, Bounty
    <2>2. bounty \in Bounty
        BY <2>1, ZenonT(60) DEF Bounty, BountyStatuses
    <2>3. bounties' = [bounties EXCEPT ![b] = bounty]
        BY DEF SubmitContent
    <2> HIDE DEF bounty
    <2> QED BY <2>2, <2>3 DEF TypeInv, TypeOK
<1> HIDE DEF record
<1> QED
    BY <1>1, <1>2, <1>4, <1>5, <1>6
       DEF TypeInv, TypeOK, References, challengeVars, moneyVars, BountyIds, ChallengeIds

\* A submission's record may be replaced by one of the same bounty.
LEMMA SubmissionReplaced ==
    ASSUME TypeInv, NEW s \in SubmissionIds, NEW record \in Submission,
           record.bounty_id = submissions[s].bounty_id,
           submissions' = [submissions EXCEPT ![s] = record],
           UNCHANGED <<bounty_count, submission_count>>
    PROVE  /\ submissions' \in [SubmissionIds' -> Submission]
           /\ \A t \in SubmissionIds' : submissions'[t].bounty_id \in BountyIds'
    BY DEF TypeInv, TypeOK, References, SubmissionIds, BountyIds

\* A challenge's record may be replaced by one of the same submission.
LEMMA ChallengeReplaced ==
    ASSUME TypeInv, NEW c \in ChallengeIds, NEW record \in Challenge,
           record.submission_id = challenges[c].submission_id,
           record.bounty_id = challenges[c].bounty_id,
           challenges' = [challenges EXCEPT ![c] = record],
           UNCHANGED <<bounty_count, submission_count, challenge_count>>
    PROVE  /\ challenges' \in [ChallengeIds' -> Challenge]
           /\ \A d \in ChallengeIds' : /\ challenges'[d].submission_id \in SubmissionIds'
                                       /\ challenges'[d].bounty_id \in BountyIds'
    BY DEF TypeInv, TypeOK, References, ChallengeIds, SubmissionIds, BountyIds

\* evaluate_submission stores only values of a result that has its shape, and
\* never counts an attempt past the maximum.
LEMMA EvaluateSubmissionType ==
    ASSUME TypeInv, NEW s \in SubmissionIds, NEW result \in EvaluationResults,
           EvaluateSubmission(s, result)
    PROVE  TypeInv'
<1> DEFINE b == submissions[s].bounty_id
           judged == [submissions[s] EXCEPT
            !.attempt_count = submissions[s].attempt_count + 1,
            !.decision = result.decision,
            !.criteria_bits = result.criteria_bits,
            !.score_bucket = result.score_bucket,
            !.reason_code = result.reason_code,
            !.verdict_code = VerdictCode(result.decision, result.reason_code)]
<1>1. submissions[s] \in Submission /\ b \in BountyIds /\ bounties[b] \in Bounty
    BY DEF TypeInv, TypeOK, References
<1>2. submissions[s].attempt_count + 1 \in 0..MAX_EVALUATION_ATTEMPTS
    <2>1. submissions[s].attempt_count < MAX_EVALUATION_ATTEMPTS
        BY DEF EvaluateSubmission, CanEvaluate, Evaluable
    <2>2. submissions[s].attempt_count \in 0..MAX_EVALUATION_ATTEMPTS
        BY <1>1 DEF Submission
    <2> QED BY <2>1, <2>2, LimitAssumption
<1>3. /\ result.decision \in Decisions
      /\ result.criteria_bits \in CriteriaBits
      /\ result.score_bucket \in 0..4
      /\ result.reason_code \in EvaluationReasons
      /\ VerdictCode(result.decision, result.reason_code) \in VerdictCodes
    <2>1. result \in Evaluations
        BY ConsensusAssumption DEF ValidEvaluationShape
    <2> QED BY <2>1 DEF Evaluations, VerdictCode, VerdictCodes
<1>4. judged \in Submission /\ judged.bounty_id = b
    BY <1>1, <1>2, <1>3, ZenonT(60) DEF Submission
<1>5. /\ UNCHANGED <<clock, bounty_count, submission_count, challengeVars, keyVars, moneyVars>>
      /\ \/ /\ result.decision = "APPROVE"
            /\ submissions' = [submissions EXCEPT ![s] =
                [judged EXCEPT !.status = "APPROVED_PENDING",
                               !.challenge_deadline = clock + bounties[b].challenge_window_seconds]]
            /\ bounties' = [bounties EXCEPT ![b] =
                [bounties[b] EXCEPT !.status = "LOCKED", !.has_provisional_winner = TRUE,
                                    !.provisional_submission_id = s]]
         \/ /\ submissions' = [submissions EXCEPT ![s] = [judged EXCEPT !.status = "REJECTED"]]
            /\ UNCHANGED bounties
         \/ /\ submissions' = [submissions EXCEPT ![s] = [judged EXCEPT !.status = "INCONCLUSIVE"]]
            /\ UNCHANGED bounties
    BY DEF EvaluateSubmission
<1> HIDE DEF judged, b
<1>6. /\ bounties' \in [BountyIds -> Bounty]
      /\ submissions' \in [SubmissionIds' -> Submission]
      /\ \A t \in SubmissionIds' : submissions'[t].bounty_id \in BountyIds'
    <2> DEFINE approved == [judged EXCEPT !.status = "APPROVED_PENDING",
                               !.challenge_deadline = clock + bounties[b].challenge_window_seconds]
               rejected == [judged EXCEPT !.status = "REJECTED"]
               inconclusive == [judged EXCEPT !.status = "INCONCLUSIVE"]
               bounty == [bounties[b] EXCEPT !.status = "LOCKED", !.has_provisional_winner = TRUE,
                                             !.provisional_submission_id = s]
    <2>1. s \in Nat /\ clock + bounties[b].challenge_window_seconds \in Nat
        BY <1>1 DEF TypeInv, TypeOK, SubmissionIds, Bounty
    <2>2. /\ approved \in Submission /\ approved.bounty_id = b
          /\ rejected \in Submission /\ rejected.bounty_id = b
          /\ inconclusive \in Submission /\ inconclusive.bounty_id = b
        BY <1>4, <2>1, ZenonT(60) DEF Submission, SubmissionStatuses
    <2>3. bounty \in Bounty
        BY <1>1, <2>1, ZenonT(60) DEF Bounty, BountyStatuses
    <2>4. /\ UNCHANGED <<bounty_count, submission_count>>
          /\ \E record \in {approved, rejected, inconclusive} :
                submissions' = [submissions EXCEPT ![s] = record]
          /\ bounties' \in {bounties, [bounties EXCEPT ![b] = bounty]}
        BY <1>5
    <2> HIDE DEF approved, rejected, inconclusive, bounty
    <2>5. bounties' \in [BountyIds -> Bounty]
        BY <1>1, <2>3, <2>4 DEF TypeInv, TypeOK
    <2>6. PICK record \in {approved, rejected, inconclusive} :
                submissions' = [submissions EXCEPT ![s] = record]
        BY <2>4
    <2>7. record \in Submission /\ record.bounty_id = submissions[s].bounty_id
        BY <2>2, <2>6 DEF b
    <2> QED BY <2>4, <2>5, <2>6, <2>7, SubmissionReplaced
<1>7. UNCHANGED <<clock, bounty_count, submission_count, challengeVars, keyVars, moneyVars>>
    BY <1>5
<1> QED
    BY <1>6, <1>7
       DEF TypeInv, TypeOK, References, challengeVars, keyVars, moneyVars,
           BountyIds, SubmissionIds, ChallengeIds

\* challenge_submission appends a challenge that names existing records.
LEMMA ChallengeSubmissionType ==
    ASSUME TypeInv, NEW sender \in Addresses, NEW s \in SubmissionIds,
           NEW reason \in ChallengeReasons, NEW digest \in Digests,
           ChallengeSubmission(sender, s, reason, digest)
    PROVE  TypeInv'
<1> DEFINE id == challenge_count + 1
           b == submissions[s].bounty_id
           bond == ChallengeBond(bounties[b].reward)
           record ==
        [submission_id |-> s, bounty_id |-> b, challenger |-> sender,
         reason_code |-> reason, evidence_sha256 |-> digest, bond |-> bond,
         status |-> "OPEN", review_deadline |-> clock + CHALLENGE_REVIEW_TIMEOUT,
         attempt_count |-> 0, proposed_outcome |-> "", proposed_reason_code |-> "",
         proposed_error_class |-> "", bond_released |-> FALSE,
         bond_recipient |-> ZERO_ADDRESS, bond_disposition |-> "",
         bond_status |-> "ESCROWED"]
           submission == [submissions[s] EXCEPT !.active_challenge_id = id,
                                                !.latest_challenge_id = id]
<1>1. /\ UNCHANGED <<clock, bountyVars, submission_count, creator_submission_ids,
                     evidence_submission_ids, received>>
      /\ challenge_count' = id
      /\ challenges' = Appended(challenges, id, record)
      /\ challenge_fingerprints' = challenge_fingerprints \cup {<<s, reason, digest>>}
      /\ submissions' = [submissions EXCEPT ![s] = submission]
      /\ balance' = balance + bond
    BY DEF ChallengeSubmission
<1>2. /\ submissions[s] \in Submission
      /\ b \in BountyIds
      /\ bounties[b] \in Bounty
      /\ id \in Nat
    BY DEF TypeInv, TypeOK, References
<1>3. bond \in Nat
    BY <1>2, ChallengeBondType, RewardAssumption DEF Bounty
<1>4. reason \in ChallengeReasonCodes
    BY ConsensusAssumption
<1>5. record \in Challenge
    <2>1. /\ s \in Nat /\ b \in Nat
          /\ clock + CHALLENGE_REVIEW_TIMEOUT \in Nat
          /\ 0 \in 0..MAX_CHALLENGE_ATTEMPTS
        BY <1>2, WindowAssumption, LimitAssumption
           DEF TypeInv, TypeOK, SubmissionIds, BountyIds
    <2> HIDE DEF b, bond
    <2> QED BY <1>3, <1>4, <2>1 DEF Challenge, ChallengeStatuses, ChallengeErrorClasses
<1>6. submission \in Submission /\ submission.bounty_id = submissions[s].bounty_id
    BY <1>2, ZenonT(60) DEF Submission
<1> HIDE DEF submission
<1>7. /\ submissions' \in [SubmissionIds' -> Submission]
      /\ \A t \in SubmissionIds' : submissions'[t].bounty_id \in BountyIds'
    BY <1>1, <1>6, SubmissionReplaced DEF bountyVars
<1>8. ChallengeIds' = ChallengeIds \cup {id}
    BY <1>1, NextChallengeId DEF TypeInv, TypeOK, ChallengeIds
<1>9. challenges' \in [ChallengeIds' -> Challenge]
    BY <1>1, <1>5, <1>8, AppendedType DEF TypeInv, TypeOK
<1>10. \A c \in ChallengeIds' : /\ challenges'[c].submission_id \in SubmissionIds
                                /\ challenges'[c].bounty_id \in BountyIds
    BY <1>1, <1>2, <1>8 DEF TypeInv, TypeOK, References, Appended
<1> HIDE DEF record, id, b, bond
<1>11. balance' \in Int
    BY <1>1, <1>3 DEF TypeInv, TypeOK
<1>12. challenge_fingerprints' \subseteq SubmissionIds \X ChallengeReasonCodes \X Digests
    BY <1>1, <1>4 DEF TypeInv, TypeOK
<1> QED
    BY <1>1, <1>2, <1>7, <1>8, <1>9, <1>10, <1>11, <1>12
       DEF TypeInv, TypeOK, References, bountyVars, BountyIds, SubmissionIds

\* review_challenge stores a proposal from the closed sets and never counts an
\* attempt past the maximum.
LEMMA ReviewChallengeType ==
    ASSUME TypeInv, NEW c \in ChallengeIds, NEW result \in ReviewResults,
           ReviewChallenge(c, result)
    PROVE  TypeInv'
<1> DEFINE attempts == IF result.outcome = "INCONCLUSIVE" THEN challenges[c].attempt_count + 1
                       ELSE challenges[c].attempt_count
           record == [challenges[c] EXCEPT !.attempt_count = attempts,
                                           !.proposed_outcome = result.outcome,
                                           !.proposed_reason_code = result.reason_code,
                                           !.proposed_error_class = result.error_class]
<1>1. /\ UNCHANGED <<clock, bountyVars, submissionVars, challenge_count, keyVars, moneyVars>>
      /\ challenges' = [challenges EXCEPT ![c] = record]
    BY DEF ReviewChallenge
<1>2. challenges[c] \in Challenge
    BY DEF TypeInv, TypeOK
<1>3. /\ result.outcome \in ChallengeOutcomes
      /\ result.reason_code \in ChallengeReasonCodes
      /\ result.error_class \in ChallengeErrorClasses
    BY ConsensusAssumption DEF ValidChallengeReviewShape, Reviews
<1>4. attempts \in 0..MAX_CHALLENGE_ATTEMPTS
    <2>1. challenges[c].attempt_count < MAX_CHALLENGE_ATTEMPTS
        BY DEF ReviewChallenge, CanReview
    <2>2. challenges[c].attempt_count \in 0..MAX_CHALLENGE_ATTEMPTS
        BY <1>2 DEF Challenge
    <2> QED BY <2>1, <2>2, LimitAssumption
<1> HIDE DEF attempts
<1>5. /\ record \in Challenge
      /\ record.submission_id = challenges[c].submission_id
      /\ record.bounty_id = challenges[c].bounty_id
    BY <1>2, <1>3, <1>4, ZenonT(60) DEF Challenge
<1> HIDE DEF record
<1>6. /\ challenges' \in [ChallengeIds' -> Challenge]
      /\ \A d \in ChallengeIds' : /\ challenges'[d].submission_id \in SubmissionIds'
                                  /\ challenges'[d].bounty_id \in BountyIds'
    BY <1>1, <1>5, ChallengeReplaced DEF bountyVars, submissionVars
<1> QED
    BY <1>1, <1>6
       DEF TypeInv, TypeOK, References, bountyVars, submissionVars, keyVars, moneyVars,
           BountyIds, SubmissionIds

\* Routing the bond of a challenge that closes keeps the challenge's type.
LEMMA BondRoutedType ==
    ASSUME NEW challenge \in Challenge, NEW status \in ChallengeStatuses,
           NEW recipient \in Addresses, NEW disposition \in {"CHALLENGER", "CREATOR"}
    PROVE  LET record == BondRouted([challenge EXCEPT !.status = status], recipient, disposition)
           IN  /\ record \in Challenge
               /\ record.submission_id = challenge.submission_id
               /\ record.bounty_id = challenge.bounty_id
    BY ZenonT(60) DEF BondRouted, Challenge

\* The uphold branch of finalize_challenge keeps the three arrays' types.
LEMMA UpholdChallengeType ==
    ASSUME TypeInv, NEW c \in ChallengeIds, UpholdChallenge(c),
           UNCHANGED <<clock, bounty_count, submission_count, challenge_count, keyVars, moneyVars>>
    PROVE  TypeInv'
<1> DEFINE s == challenges[c].submission_id
           b == challenges[c].bounty_id
           status == IF HasEvaluableSubmission(b, s) THEN "LOCKED" ELSE "OPEN"
           challenge == BondRouted([challenges[c] EXCEPT !.status = "UPHELD"],
                                   challenges[c].challenger, "CHALLENGER")
           submission == Overturned(submissions[s], challenges[c].proposed_reason_code)
           bounty == [bounties[b] EXCEPT
                !.has_provisional_winner = FALSE, !.provisional_submission_id = 0,
                !.has_winner = FALSE, !.winner_submission_id = 0, !.status = status]
<1>1. /\ challenges' = [challenges EXCEPT ![c] = challenge]
      /\ submissions' = [submissions EXCEPT ![s] = submission]
      /\ bounties' = [bounties EXCEPT ![b] = bounty]
    BY DEF UpholdChallenge
<1>2. /\ challenges[c] \in Challenge
      /\ s \in SubmissionIds
      /\ submissions[s] \in Submission
      /\ b \in BountyIds
      /\ bounties[b] \in Bounty
    BY DEF TypeInv, TypeOK, References
<1>3. /\ challenge \in Challenge
      /\ challenge.submission_id = challenges[c].submission_id
      /\ challenge.bounty_id = challenges[c].bounty_id
    <2>1. challenges[c].challenger \in Addresses
        BY <1>2 DEF Challenge
    <2> QED BY <1>2, <2>1, BondRoutedType DEF ChallengeStatuses
<1>4. submission \in Submission /\ submission.bounty_id = submissions[s].bounty_id
    <2> DEFINE reason == challenges[c].proposed_reason_code
    <2>1. reason \in ChallengeReasonCodes \cup {""}
        BY <1>2 DEF Challenge
    <2> HIDE DEF s, reason
    <2>2. 0 \in 0..4
        OBVIOUS
    <2>3. Overturned(submissions[s], reason) \in Submission
        BY <1>2, <2>1, <2>2, ZenonT(60)
           DEF Overturned, Submission, SubmissionStatuses, Decisions, CriteriaBits, VerdictCodes
    <2>4. Overturned(submissions[s], reason).bounty_id = submissions[s].bounty_id
        BY <1>2, ZenonT(60) DEF Overturned, Submission
    <2> QED BY <2>3, <2>4 DEF reason
<1>5. bounty \in Bounty
    <2>1. status \in BountyStatuses
        BY DEF BountyStatuses
    <2> HIDE DEF status
    <2> QED BY <1>2, <2>1, ZenonT(60) DEF Bounty
<1> HIDE DEF challenge, submission, bounty
<1>6. /\ challenges' \in [ChallengeIds' -> Challenge]
      /\ \A d \in ChallengeIds' : /\ challenges'[d].submission_id \in SubmissionIds'
                                  /\ challenges'[d].bounty_id \in BountyIds'
    BY <1>1, <1>3, ChallengeReplaced
<1>7. /\ submissions' \in [SubmissionIds' -> Submission]
      /\ \A t \in SubmissionIds' : submissions'[t].bounty_id \in BountyIds'
    BY <1>1, <1>2, <1>4, SubmissionReplaced
<1>8. bounties' \in [BountyIds -> Bounty]
    BY <1>1, <1>5 DEF TypeInv, TypeOK
<1> QED
    BY <1>6, <1>7, <1>8
       DEF TypeInv, TypeOK, References, keyVars, moneyVars, BountyIds, SubmissionIds

\* A challenge that closes without overturning anything routes its bond and
\* frees the submission.
LEMMA ChallengeClosedType ==
    ASSUME TypeInv, NEW c \in ChallengeIds, NEW status \in ChallengeStatuses,
           NEW recipient \in Addresses, NEW disposition \in {"CHALLENGER", "CREATOR"},
           challenges' = [challenges EXCEPT ![c] =
                BondRouted([challenges[c] EXCEPT !.status = status], recipient, disposition)],
           submissions' = [submissions EXCEPT ![challenges[c].submission_id].active_challenge_id = 0],
           UNCHANGED <<clock, bountyVars, submission_count, challenge_count, keyVars, moneyVars>>
    PROVE  TypeInv'
<1> DEFINE s == challenges[c].submission_id
           challenge == BondRouted([challenges[c] EXCEPT !.status = status],
                                   recipient, disposition)
           submission == [submissions[s] EXCEPT !.active_challenge_id = 0]
<1>1. /\ challenges[c] \in Challenge
      /\ s \in SubmissionIds
      /\ submissions[s] \in Submission
    BY DEF TypeInv, TypeOK, References
<1>2. /\ challenge \in Challenge
      /\ challenge.submission_id = challenges[c].submission_id
      /\ challenge.bounty_id = challenges[c].bounty_id
    BY <1>1, BondRoutedType
<1>3. submission \in Submission /\ submission.bounty_id = submissions[s].bounty_id
    <2> HIDE DEF s
    <2>1. 0 \in Nat
        OBVIOUS
    <2> QED BY <1>1, <2>1, ZenonT(60) DEF Submission
<1>4. /\ challenges' = [challenges EXCEPT ![c] = challenge]
      /\ submissions' = [submissions EXCEPT ![s] = submission]
    OBVIOUS
<1> HIDE DEF challenge, submission
<1>5. UNCHANGED <<bounty_count, submission_count, challenge_count>>
    BY DEF bountyVars
<1>6. /\ challenges' \in [ChallengeIds' -> Challenge]
      /\ \A d \in ChallengeIds' : /\ challenges'[d].submission_id \in SubmissionIds'
                                  /\ challenges'[d].bounty_id \in BountyIds'
    BY <1>2, <1>4, <1>5, ChallengeReplaced
<1>7. /\ submissions' \in [SubmissionIds' -> Submission]
      /\ \A t \in SubmissionIds' : submissions'[t].bounty_id \in BountyIds'
    BY <1>1, <1>3, <1>4, <1>5, SubmissionReplaced
<1> QED
    BY <1>6, <1>7
       DEF TypeInv, TypeOK, References, bountyVars, keyVars, moneyVars, BountyIds, SubmissionIds

\* finalize_challenge keeps the invariant in both branches.
LEMMA FinalizeChallengeType ==
    ASSUME TypeInv, NEW c \in ChallengeIds, FinalizeChallenge(c)
    PROVE  TypeInv'
<1>1. UNCHANGED <<clock, bounty_count, submission_count, challenge_count, keyVars, moneyVars>>
    BY DEF FinalizeChallenge
<1>2. CASE UpholdChallenge(c)
    BY <1>1, <1>2, UpholdChallengeType
<1>3. CASE DismissChallenge(c)
    <2>1. submissions[challenges[c].submission_id].creator \in Addresses
        BY DEF TypeInv, TypeOK, References, Submission
    <2>2. challenges' = [challenges EXCEPT ![c] =
            BondRouted([challenges[c] EXCEPT !.status = "DISMISSED"],
                       submissions[challenges[c].submission_id].creator, "CREATOR")]
        BY <1>3 DEF DismissChallenge
    <2>3. /\ submissions' = [submissions EXCEPT ![challenges[c].submission_id].active_challenge_id = 0]
          /\ UNCHANGED bountyVars
        BY <1>1, <1>3 DEF DismissChallenge, bountyVars
    <2>4. "DISMISSED" \in ChallengeStatuses
        BY DEF ChallengeStatuses
    <2> QED BY <1>1, <2>1, <2>2, <2>3, <2>4, ChallengeClosedType
<1> QED BY <1>2, <1>3 DEF FinalizeChallenge

\* timeout_challenge routes the bond to an account, the challenger.
LEMMA TimeoutChallengeType ==
    ASSUME TypeInv, NEW c \in ChallengeIds, TimeoutChallenge(c)
    PROVE  TypeInv'
<1>1. challenges[c].challenger \in Addresses
    BY DEF TypeInv, TypeOK, Challenge
<1>2. "TIMED_OUT" \in ChallengeStatuses
    BY DEF ChallengeStatuses
<1>3. /\ challenges' = [challenges EXCEPT ![c] =
            BondRouted([challenges[c] EXCEPT !.status = "TIMED_OUT"],
                       challenges[c].challenger, "CHALLENGER")]
      /\ submissions' = [submissions EXCEPT ![challenges[c].submission_id].active_challenge_id = 0]
      /\ UNCHANGED <<clock, bountyVars, submission_count, challenge_count, keyVars, moneyVars>>
    BY DEF TimeoutChallenge
<1> QED BY <1>1, <1>2, <1>3, ChallengeClosedType

\* claim_reward copies the reward of a bounty that exists.
LEMMA ClaimRewardType ==
    ASSUME TypeInv, NEW sender \in Addresses, NEW s \in SubmissionIds, ClaimReward(sender, s)
    PROVE  TypeInv'
<1> DEFINE b == submissions[s].bounty_id
           amount == bounties[b].reward
           reason == "ANOTHER_SUBMISSION_APPROVED"
           submission == [submissions[s] EXCEPT
                !.reward_claimed = TRUE, !.status = "APPROVED",
                !.reward_amount = amount, !.reward_status = "PENDING"]
           array == [submissions EXCEPT ![s] = submission]
           bounty == [bounties[b] EXCEPT
                !.has_winner = TRUE, !.winner_submission_id = s,
                !.has_provisional_winner = FALSE, !.provisional_submission_id = 0,
                !.status = "FILLED", !.escrow_balance = 0]
<1>1. /\ UNCHANGED <<clock, bounty_count, submission_count, challengeVars, keyVars, moneyVars>>
      /\ submissions' = Superseded(array, b, s, reason)
      /\ bounties' = [bounties EXCEPT ![b] = bounty]
    BY DEF ClaimReward
<1>2. /\ submissions[s] \in Submission
      /\ b \in BountyIds
      /\ bounties[b] \in Bounty
    BY DEF TypeInv, TypeOK, References
<1>3. amount \in Nat /\ s \in Nat /\ 0 \in Nat
    <2>1. bounties[b].reward \in Rewards
        BY <1>2 DEF Bounty
    <2>2. s \in Nat
        BY DEF TypeInv, TypeOK, SubmissionIds
    <2> QED BY <2>1, <2>2, RewardAssumption
<1> HIDE DEF amount
<1>4. submission \in Submission /\ submission.bounty_id = b
    BY <1>2, <1>3, ZenonT(60) DEF Submission, SubmissionStatuses, LiabilityStatuses
<1>5. bounty \in Bounty
    <2> HIDE DEF b
    <2> QED BY <1>2, <1>3, ZenonT(60) DEF Bounty, BountyStatuses
<1> HIDE DEF submission, bounty
<1>6. array \in [SubmissionIds -> Submission]
    BY <1>4 DEF TypeInv, TypeOK
<1>7. \A t \in SubmissionIds : array[t].bounty_id = submissions[t].bounty_id
    BY <1>4 DEF TypeInv, TypeOK
<1> HIDE DEF array
<1>8. /\ submissions' \in [SubmissionIds -> Submission]
      /\ \A t \in SubmissionIds : submissions'[t].bounty_id = submissions[t].bounty_id
    BY <1>1, <1>6, <1>7, SupersededType
<1>9. bounties' \in [BountyIds -> Bounty]
    BY <1>1, <1>5 DEF TypeInv, TypeOK
<1> QED
    BY <1>1, <1>8, <1>9
       DEF TypeInv, TypeOK, References, challengeVars, keyVars, moneyVars,
           BountyIds, SubmissionIds, ChallengeIds

\* Recording a refund, on cancellation or expiry, keeps the bounty's type.
LEMMA RefundRecordedType ==
    ASSUME TypeInv, NEW b \in BountyIds, NEW status \in BountyStatuses
    PROVE  [bounties[b] EXCEPT !.status = status, !.refund_amount = bounties[b].reward,
                               !.refund_status = "PENDING", !.escrow_balance = 0] \in Bounty
<1> DEFINE amount == bounties[b].reward
<1>1. bounties[b] \in Bounty
    BY DEF TypeInv, TypeOK
<1>2. amount \in Nat /\ 0 \in Nat
    BY <1>1, RewardAssumption DEF Bounty
<1> HIDE DEF amount
<1>3. [bounties[b] EXCEPT !.status = status, !.refund_amount = amount,
                          !.refund_status = "PENDING", !.escrow_balance = 0] \in Bounty
    BY <1>1, <1>2, ZenonT(60) DEF Bounty, LiabilityStatuses
<1> QED BY <1>3 DEF amount

\* cancel_bounty records a refund of the reward.
LEMMA CancelBountyType ==
    ASSUME TypeInv, NEW sender \in Addresses, NEW b \in BountyIds, CancelBounty(sender, b)
    PROVE  TypeInv'
<1> DEFINE bounty == [bounties[b] EXCEPT
                !.status = "CANCELLED", !.refund_amount = bounties[b].reward,
                !.refund_status = "PENDING", !.escrow_balance = 0]
<1>1. bounty \in Bounty
    BY RefundRecordedType DEF BountyStatuses
<1>2. /\ bounties' = [bounties EXCEPT ![b] = bounty]
      /\ UNCHANGED <<clock, bounty_count, submissionVars, challengeVars, keyVars, moneyVars>>
    BY DEF CancelBounty
<1> HIDE DEF bounty
<1> QED
    BY <1>1, <1>2
       DEF TypeInv, TypeOK, References, submissionVars, challengeVars, keyVars, moneyVars,
           BountyIds, SubmissionIds, ChallengeIds

\* expire_bounty records a refund and supersedes what is undecided.
LEMMA ExpireBountyType ==
    ASSUME TypeInv, NEW b \in BountyIds, ExpireBounty(b)
    PROVE  TypeInv'
<1> DEFINE bounty == [bounties[b] EXCEPT
                !.status = "EXPIRED", !.refund_amount = bounties[b].reward,
                !.refund_status = "PENDING", !.escrow_balance = 0]
<1>1. bounty \in Bounty
    BY RefundRecordedType DEF BountyStatuses
<1>2. /\ bounties' = [bounties EXCEPT ![b] = bounty]
      /\ submissions' = Superseded(submissions, b, submission_count, "BOUNTY_EXPIRED")
      /\ UNCHANGED <<clock, bounty_count, submission_count, challengeVars, keyVars, moneyVars>>
    BY DEF ExpireBounty
<1> HIDE DEF bounty
<1>3. /\ submissions' \in [SubmissionIds -> Submission]
      /\ \A t \in SubmissionIds : submissions'[t].bounty_id = submissions[t].bounty_id
    BY <1>2, SupersededType DEF TypeInv, TypeOK
<1> QED
    BY <1>1, <1>2, <1>3
       DEF TypeInv, TypeOK, References, challengeVars, keyVars, moneyVars,
           BountyIds, SubmissionIds, ChallengeIds

\* withdraw_reward pays a creator, who is an account.
LEMMA WithdrawRewardType ==
    ASSUME TypeInv, NEW sender \in Addresses, NEW s \in SubmissionIds, WithdrawReward(sender, s)
    PROVE  TypeInv'
<1> DEFINE submission == [submissions[s] EXCEPT !.reward_status = "WITHDRAWN"]
<1>1. /\ submissions' = [submissions EXCEPT ![s] = submission]
      /\ EmitTransfer(submissions[s].creator, submissions[s].reward_amount)
      /\ UNCHANGED <<clock, bountyVars, submission_count, challengeVars, keyVars>>
    BY DEF WithdrawReward
<1>2. submissions[s] \in Submission
    BY DEF TypeInv, TypeOK
<1>3. submission \in Submission /\ submission.bounty_id = submissions[s].bounty_id
    BY <1>2, ZenonT(60) DEF Submission, LiabilityStatuses
<1> HIDE DEF submission
<1>4. balance' \in Int /\ received' \in [Addresses -> Int]
    BY <1>1, <1>2, EmitTransferType DEF TypeInv, TypeOK, Submission
<1>5. /\ submissions' \in [SubmissionIds' -> Submission]
      /\ \A t \in SubmissionIds' : submissions'[t].bounty_id \in BountyIds'
    BY <1>1, <1>3, SubmissionReplaced DEF bountyVars
<1> QED
    BY <1>1, <1>4, <1>5
       DEF TypeInv, TypeOK, References, bountyVars, challengeVars, keyVars,
           BountyIds, SubmissionIds, ChallengeIds

\* withdraw_refund pays a poster, who is an account.
LEMMA WithdrawRefundType ==
    ASSUME TypeInv, NEW sender \in Addresses, NEW b \in BountyIds, WithdrawRefund(sender, b)
    PROVE  TypeInv'
<1> DEFINE bounty == [bounties[b] EXCEPT !.refund_status = "WITHDRAWN"]
<1>1. /\ bounties' = [bounties EXCEPT ![b] = bounty]
      /\ EmitTransfer(bounties[b].poster, bounties[b].refund_amount)
      /\ UNCHANGED <<clock, bounty_count, submissionVars, challengeVars, keyVars>>
    BY DEF WithdrawRefund
<1>2. bounties[b] \in Bounty
    BY DEF TypeInv, TypeOK
<1>3. bounty \in Bounty
    BY <1>2, ZenonT(60) DEF Bounty, LiabilityStatuses
<1> HIDE DEF bounty
<1>4. balance' \in Int /\ received' \in [Addresses -> Int]
    BY <1>1, <1>2, EmitTransferType DEF TypeInv, TypeOK, Bounty
<1> QED
    BY <1>1, <1>3, <1>4
       DEF TypeInv, TypeOK, References, submissionVars, challengeVars, keyVars,
           BountyIds, SubmissionIds, ChallengeIds

\* withdraw_bond pays its sender, never the zero address.
LEMMA WithdrawBondType ==
    ASSUME TypeInv, NEW sender \in Addresses, NEW c \in ChallengeIds, WithdrawBond(sender, c)
    PROVE  TypeInv'
<1> DEFINE challenge == [challenges[c] EXCEPT !.bond_status = "WITHDRAWN"]
<1>1. /\ challenges' = [challenges EXCEPT ![c] = challenge]
      /\ EmitTransfer(challenges[c].bond_recipient, challenges[c].bond)
      /\ UNCHANGED <<clock, bountyVars, submissionVars, challenge_count, keyVars>>
    BY DEF WithdrawBond
<1>2. challenges[c] \in Challenge /\ challenges[c].bond_recipient = sender
    BY DEF TypeInv, TypeOK, WithdrawBond, CanWithdrawBond
<1>3. /\ challenge \in Challenge
      /\ challenge.submission_id = challenges[c].submission_id
      /\ challenge.bounty_id = challenges[c].bounty_id
    BY <1>2, ZenonT(60) DEF Challenge
<1> HIDE DEF challenge
<1>4. balance' \in Int /\ received' \in [Addresses -> Int]
    BY <1>1, <1>2, EmitTransferType DEF TypeInv, TypeOK, Challenge
<1>5. /\ challenges' \in [ChallengeIds' -> Challenge]
      /\ \A d \in ChallengeIds' : /\ challenges'[d].submission_id \in SubmissionIds'
                                  /\ challenges'[d].bounty_id \in BountyIds'
    BY <1>1, <1>3, ChallengeReplaced DEF bountyVars, submissionVars
<1> QED
    BY <1>1, <1>4, <1>5
       DEF TypeInv, TypeOK, References, bountyVars, submissionVars, keyVars,
           BountyIds, SubmissionIds, ChallengeIds

\* Time passing, and stuttering, change no record.
LEMMA IdleType ==
    ASSUME TypeInv, Tick \/ UNCHANGED vars
    PROVE  TypeInv'
<1>1. clock' \in Nat
    BY DEF TypeInv, TypeOK, Tick, vars
<1>2. UNCHANGED <<bountyVars, submissionVars, challengeVars, keyVars, moneyVars>>
    BY DEF Tick, vars
<1> QED
    BY <1>1, <1>2
       DEF TypeInv, TypeOK, References, bountyVars, submissionVars, challengeVars, keyVars,
           moneyVars, BountyIds, SubmissionIds, ChallengeIds

-----------------------------------------------------------------------------
\* The empty contract satisfies the invariant.
LEMMA TypeInvInit == Init => TypeInv
<1> SUFFICES ASSUME Init PROVE TypeInv
    OBVIOUS
<1>1. BountyIds = {} /\ SubmissionIds = {} /\ ChallengeIds = {}
    BY DEF Init, BountyIds, SubmissionIds, ChallengeIds
<1> QED BY <1>1 DEF Init, TypeInv, TypeOK, References

\* Every transaction keeps it: one case per method.
LEMMA TypeInvStep == TypeInv /\ [Next]_vars => TypeInv'
<1> SUFFICES ASSUME TypeInv, [Next]_vars PROVE TypeInv'
    OBVIOUS
<1>1. ASSUME NEW sender \in Addresses, NEW value \in Rewards, NEW sw \in SubmissionWindows,
             NEW eg \in EvaluationGraces, NEW cw \in ChallengeWindows,
             PostBounty(sender, value, sw, eg, cw)
      PROVE  TypeInv'
    BY <1>1, PostBountyType
<1>2. ASSUME NEW sender \in Addresses, NEW b \in BountyIds, NEW digest \in Digests,
             SubmitContent(sender, b, digest)
      PROVE  TypeInv'
    BY <1>2, SubmitContentType
<1>3. ASSUME NEW s \in SubmissionIds, NEW result \in EvaluationResults,
             EvaluateSubmission(s, result)
      PROVE  TypeInv'
    BY <1>3, EvaluateSubmissionType
<1>4. ASSUME NEW sender \in Addresses, NEW s \in SubmissionIds, NEW reason \in ChallengeReasons,
             NEW digest \in Digests, ChallengeSubmission(sender, s, reason, digest)
      PROVE  TypeInv'
    BY <1>4, ChallengeSubmissionType
<1>5. ASSUME NEW c \in ChallengeIds, NEW result \in ReviewResults, ReviewChallenge(c, result)
      PROVE  TypeInv'
    BY <1>5, ReviewChallengeType
<1>6. ASSUME NEW c \in ChallengeIds, FinalizeChallenge(c) \/ TimeoutChallenge(c)
      PROVE  TypeInv'
    BY <1>6, FinalizeChallengeType, TimeoutChallengeType
<1>7. ASSUME NEW sender \in Addresses, NEW s \in SubmissionIds,
             ClaimReward(sender, s) \/ WithdrawReward(sender, s)
      PROVE  TypeInv'
    BY <1>7, ClaimRewardType, WithdrawRewardType
<1>8. ASSUME NEW sender \in Addresses, NEW b \in BountyIds,
             CancelBounty(sender, b) \/ WithdrawRefund(sender, b)
      PROVE  TypeInv'
    BY <1>8, CancelBountyType, WithdrawRefundType
<1>9. ASSUME NEW b \in BountyIds, ExpireBounty(b)
      PROVE  TypeInv'
    BY <1>9, ExpireBountyType
<1>10. ASSUME NEW sender \in Addresses, NEW c \in ChallengeIds, WithdrawBond(sender, c)
       PROVE  TypeInv'
    BY <1>10, WithdrawBondType
<1>11. CASE Tick \/ UNCHANGED vars
    BY <1>11, IdleType
<1> QED
    BY <1>1, <1>2, <1>3, <1>4, <1>5, <1>6, <1>7, <1>8, <1>9, <1>10, <1>11 DEF Next

\* The contract's records keep their types, no counter passes its maximum, and
\* every index refers to a record that exists, in every reachable state.
THEOREM TypeCorrect == Spec => []TypeOK
<1>1. TypeInv => TypeOK
    BY DEF TypeInv
<1> QED BY <1>1, TypeInvInit, TypeInvStep, PTL DEF Spec

-----------------------------------------------------------------------------
(***************************************************************************)
(* A challenge blocks exactly the approval it is about, its bond goes      *)
(* where its outcome sends it, and a final proposal binds: for every       *)
(* instance of the contract.  The argument is in two halves.  Most actions *)
(* leave challenges alone (QuietStep); the four that open or close one are *)
(* taken one by one.                                                       *)
(***************************************************************************)

(***************************************************************************)
(* The inductive form of ActiveChallengeIsTheOpenOne: the two directions   *)
(* of the link between a submission and its open challenge.                *)
(***************************************************************************)
ChallengeLinks ==
    /\ \A s \in SubmissionIds : submissions[s].active_challenge_id # 0 =>
        /\ submissions[s].active_challenge_id \in ChallengeIds
        /\ challenges[submissions[s].active_challenge_id].status = "OPEN"
        /\ challenges[submissions[s].active_challenge_id].submission_id = s
        /\ submissions[s].status = "APPROVED_PENDING"
    /\ \A c \in ChallengeIds : challenges[c].status = "OPEN" =>
        submissions[challenges[c].submission_id].active_challenge_id = c

ChallengeInv == TypeInv /\ ChallengeLinks /\ BondFollowsOutcome

-----------------------------------------------------------------------------
\* Steps that neither open nor close a challenge.

SubmissionFrame ==
    /\ SubmissionIds \subseteq SubmissionIds'
    /\ \A s \in SubmissionIds :
        /\ submissions'[s].creator = submissions[s].creator
        /\ submissions'[s].active_challenge_id = submissions[s].active_challenge_id
        /\ submissions[s].active_challenge_id # 0 => submissions'[s].status = submissions[s].status
    /\ \A s \in SubmissionIds' \ SubmissionIds : submissions'[s].active_challenge_id = 0

ChallengeFrame ==
    /\ ChallengeIds' = ChallengeIds
    /\ \A c \in ChallengeIds :
        /\ challenges'[c].submission_id = challenges[c].submission_id
        /\ challenges'[c].challenger = challenges[c].challenger
        /\ challenges'[c].status = challenges[c].status
        /\ challenges'[c].bond_released = challenges[c].bond_released
        /\ challenges'[c].bond_recipient = challenges[c].bond_recipient
        /\ \/ challenges'[c].bond_status = challenges[c].bond_status
           \/ challenges[c].bond_status = "PENDING" /\ challenges'[c].bond_status = "WITHDRAWN"
        /\ challenges[c].status # "OPEN" \/ challenges[c].proposed_outcome \in {"UPHOLD", "DISMISS"} =>
            /\ challenges'[c].proposed_outcome = challenges[c].proposed_outcome
            /\ challenges'[c].proposed_reason_code = challenges[c].proposed_reason_code

QuietStep == SubmissionFrame /\ ChallengeFrame

\* A quiet step keeps the links between submissions and challenges.
LEMMA QuietStepLinks ==
    ASSUME ChallengeInv, QuietStep PROVE ChallengeLinks'
<1>1. ASSUME NEW s \in SubmissionIds', submissions'[s].active_challenge_id # 0
      PROVE  /\ submissions'[s].active_challenge_id \in ChallengeIds'
             /\ challenges'[submissions'[s].active_challenge_id].status = "OPEN"
             /\ challenges'[submissions'[s].active_challenge_id].submission_id = s
             /\ submissions'[s].status = "APPROVED_PENDING"
    BY <1>1 DEF ChallengeInv, ChallengeLinks, QuietStep, SubmissionFrame, ChallengeFrame
<1>2. ASSUME NEW c \in ChallengeIds', challenges'[c].status = "OPEN"
      PROVE  submissions'[challenges'[c].submission_id].active_challenge_id = c
    BY <1>2 DEF ChallengeInv, ChallengeLinks, TypeInv, References, QuietStep, SubmissionFrame,
                ChallengeFrame
<1> QED BY <1>1, <1>2 DEF ChallengeLinks

\* A quiet step keeps each bond where its outcome put it; a withdrawal only
\* turns PENDING into WITHDRAWN.
LEMMA QuietStepBonds ==
    ASSUME ChallengeInv, QuietStep PROVE BondFollowsOutcome'
<1> SUFFICES ASSUME NEW c \in ChallengeIds PROVE BondMatchesOutcome(c)'
    BY DEF BondFollowsOutcome, QuietStep, ChallengeFrame
<1>1. BondMatchesOutcome(c)
    BY DEF ChallengeInv, BondFollowsOutcome
<1>2. challenges[c].submission_id \in SubmissionIds
    BY DEF ChallengeInv, TypeInv, References
<1> QED BY <1>1, <1>2 DEF BondMatchesOutcome, QuietStep, SubmissionFrame, ChallengeFrame

\* Leaving the challenges alone is within the frame.
LEMMA UnchangedChallengesFrame ==
    ASSUME UNCHANGED challengeVars PROVE ChallengeFrame
    BY DEF challengeVars, ChallengeFrame, ChallengeIds

\* Leaving the submissions alone is within the frame.
LEMMA UnchangedSubmissionsFrame ==
    ASSUME UNCHANGED submissionVars PROVE SubmissionFrame
    BY DEF submissionVars, SubmissionFrame, SubmissionIds

\* Superseding touches only what is not under challenge.
LEMMA SupersededFrame ==
    ASSUME NEW Ids, NEW array \in [Ids -> Submission], NEW b, NEW winner, NEW reason, NEW s \in Ids
    PROVE  LET superseded == Superseded(array, b, winner, reason)[s]
           IN  /\ superseded.creator = array[s].creator
               /\ superseded.active_challenge_id = array[s].active_challenge_id
               /\ array[s].status \notin {"PENDING", "INCONCLUSIVE"} => superseded = array[s]
    BY ZenonT(60) DEF Superseded, Submission

\* A new submission is under no challenge.
LEMMA SubmitContentQuiet ==
    ASSUME ChallengeInv, NEW sender, NEW b, NEW digest, SubmitContent(sender, b, digest)
    PROVE  QuietStep
<1> DEFINE record ==
        [bounty_id |-> b, creator |-> sender, evidence_sha256 |-> digest,
         status |-> "PENDING", attempt_count |-> 0, decision |-> "",
         criteria_bits |-> <<>>, score_bucket |-> 0, reason_code |-> "",
         verdict_code |-> "", challenge_deadline |-> 0, active_challenge_id |-> 0,
         latest_challenge_id |-> 0, reward_claimed |-> FALSE, reward_amount |-> 0,
         reward_status |-> ""]
<1>1. /\ submissions' = Appended(submissions, submission_count, record)
      /\ record.active_challenge_id = 0
    BY DEF SubmitContent
<1> HIDE DEF record
<1>2. submission_count' = submission_count + 1 /\ UNCHANGED challengeVars
    BY DEF SubmitContent
<1>3. SubmissionIds' = SubmissionIds \cup {submission_count} /\ submission_count \notin SubmissionIds
    BY <1>2, NextBountyId DEF ChallengeInv, TypeInv, TypeOK, SubmissionIds
<1>4. /\ \A s \in SubmissionIds : submissions'[s] = submissions[s]
      /\ submissions'[submission_count] = record
    BY <1>1, <1>3 DEF ChallengeInv, TypeInv, TypeOK, Appended
<1> QED BY <1>1, <1>2, <1>3, <1>4, UnchangedChallengesFrame DEF QuietStep, SubmissionFrame

\* An evaluation touches a PENDING or INCONCLUSIVE submission, which is not
\* under challenge.
LEMMA EvaluateSubmissionQuiet ==
    ASSUME ChallengeInv, NEW s \in SubmissionIds, NEW result, EvaluateSubmission(s, result)
    PROVE  QuietStep
<1> DEFINE b == submissions[s].bounty_id
           judged == [submissions[s] EXCEPT
            !.attempt_count = submissions[s].attempt_count + 1,
            !.decision = result.decision,
            !.criteria_bits = result.criteria_bits,
            !.score_bucket = result.score_bucket,
            !.reason_code = result.reason_code,
            !.verdict_code = VerdictCode(result.decision, result.reason_code)]
           approved == [judged EXCEPT !.status = "APPROVED_PENDING",
                               !.challenge_deadline = clock + bounties[b].challenge_window_seconds]
           rejected == [judged EXCEPT !.status = "REJECTED"]
           inconclusive == [judged EXCEPT !.status = "INCONCLUSIVE"]
<1>1. submissions[s] \in Submission
    BY DEF ChallengeInv, TypeInv, TypeOK
<1>2. \A r \in {approved, rejected, inconclusive} :
        /\ r.creator = submissions[s].creator
        /\ r.active_challenge_id = submissions[s].active_challenge_id
    BY <1>1, ZenonT(60) DEF Submission
<1>3. \E r \in {approved, rejected, inconclusive} :
        submissions' = [submissions EXCEPT ![s] = r]
    BY DEF EvaluateSubmission
<1>4. UNCHANGED <<submission_count, challengeVars>>
    BY DEF EvaluateSubmission
<1>5. submissions[s].status \in {"PENDING", "INCONCLUSIVE"}
    BY DEF EvaluateSubmission, CanEvaluate, Evaluable
<1> HIDE DEF approved, rejected, inconclusive
<1>6. submissions[s].active_challenge_id = 0
    BY <1>5 DEF ChallengeInv, ChallengeLinks
<1>7. PICK r : /\ submissions' = [submissions EXCEPT ![s] = r]
               /\ r.creator = submissions[s].creator
               /\ r.active_challenge_id = submissions[s].active_challenge_id
    BY <1>2, <1>3
<1> QED
    BY <1>4, <1>6, <1>7, UnchangedChallengesFrame
       DEF ChallengeInv, TypeInv, TypeOK, QuietStep, SubmissionFrame, SubmissionIds

\* A review changes the proposal of an open challenge that has no final one.
LEMMA ReviewChallengeQuiet ==
    ASSUME ChallengeInv, NEW c \in ChallengeIds, NEW result, ReviewChallenge(c, result)
    PROVE  QuietStep
<1> DEFINE attempts == IF result.outcome = "INCONCLUSIVE" THEN challenges[c].attempt_count + 1
                       ELSE challenges[c].attempt_count
           record == [challenges[c] EXCEPT !.attempt_count = attempts,
                                           !.proposed_outcome = result.outcome,
                                           !.proposed_reason_code = result.reason_code,
                                           !.proposed_error_class = result.error_class]
<1>1. /\ challenges' = [challenges EXCEPT ![c] = record]
      /\ UNCHANGED <<submissionVars, challenge_count>>
    BY DEF ReviewChallenge
<1>2. /\ challenges[c] \in Challenge
      /\ challenges[c].status = "OPEN"
      /\ challenges[c].proposed_outcome \in {"", "INCONCLUSIVE"}
    BY DEF ChallengeInv, TypeInv, TypeOK, ReviewChallenge, CanReview
<1> HIDE DEF attempts
<1>3. /\ record.submission_id = challenges[c].submission_id
      /\ record.challenger = challenges[c].challenger
      /\ record.status = challenges[c].status
      /\ record.bond_released = challenges[c].bond_released
      /\ record.bond_recipient = challenges[c].bond_recipient
      /\ record.bond_status = challenges[c].bond_status
    BY <1>2, ZenonT(60) DEF Challenge
<1> HIDE DEF record
<1> QED
    BY <1>1, <1>2, <1>3, UnchangedSubmissionsFrame
       DEF ChallengeInv, TypeInv, TypeOK, QuietStep, ChallengeFrame, ChallengeIds

\* A claim settles a submission without an active challenge and supersedes
\* submissions that never had one.
LEMMA ClaimRewardQuiet ==
    ASSUME ChallengeInv, NEW sender, NEW s \in SubmissionIds, ClaimReward(sender, s)
    PROVE  QuietStep
<1> DEFINE b == submissions[s].bounty_id
           reason == "ANOTHER_SUBMISSION_APPROVED"
           amount == bounties[b].reward
           submission == [submissions[s] EXCEPT
                !.reward_claimed = TRUE, !.status = "APPROVED",
                !.reward_amount = amount, !.reward_status = "PENDING"]
           array == [submissions EXCEPT ![s] = submission]
<1>1. /\ submissions' = Superseded(array, b, s, reason)
      /\ UNCHANGED <<submission_count, challengeVars>>
    BY DEF ClaimReward
<1>2. submissions[s] \in Submission /\ submissions[s].active_challenge_id = 0
    BY DEF ChallengeInv, TypeInv, TypeOK, ClaimReward, CanClaim
<1>3. amount \in Nat
    <2>1. b \in BountyIds
        BY DEF ChallengeInv, TypeInv, References
    <2>2. bounties[b].reward \in Rewards
        BY <2>1 DEF ChallengeInv, TypeInv, TypeOK, Bounty
    <2> QED BY <2>2, RewardAssumption
<1> HIDE DEF amount, b
<1>4. /\ submission.creator = submissions[s].creator
      /\ submission.active_challenge_id = submissions[s].active_challenge_id
      /\ submission \in Submission
    BY <1>2, <1>3, ZenonT(60) DEF Submission, SubmissionStatuses, LiabilityStatuses
<1> HIDE DEF submission
<1>5. /\ array \in [SubmissionIds -> Submission]
      /\ array[s] = submission
      /\ \A t \in SubmissionIds \ {s} : array[t] = submissions[t]
    BY <1>4 DEF ChallengeInv, TypeInv, TypeOK
<1> HIDE DEF array
<1>6. \A t \in SubmissionIds :
        /\ submissions'[t].creator = array[t].creator
        /\ submissions'[t].active_challenge_id = array[t].active_challenge_id
        /\ array[t].status \notin {"PENDING", "INCONCLUSIVE"} => submissions'[t] = array[t]
    BY <1>1, <1>5, SupersededFrame
<1>7. \A t \in SubmissionIds : submissions[t].active_challenge_id # 0 =>
        t # s /\ submissions[t].status = "APPROVED_PENDING"
    BY <1>2 DEF ChallengeInv, ChallengeLinks
<1> QED
    BY <1>1, <1>4, <1>5, <1>6, <1>7, UnchangedChallengesFrame
       DEF QuietStep, SubmissionFrame, SubmissionIds

\* Expiry supersedes submissions that are not under challenge.
LEMMA ExpireBountyQuiet ==
    ASSUME ChallengeInv, NEW b, ExpireBounty(b)
    PROVE  QuietStep
<1>1. /\ submissions' = Superseded(submissions, b, submission_count, "BOUNTY_EXPIRED")
      /\ UNCHANGED <<submission_count, challengeVars>>
    BY DEF ExpireBounty
<1>2. submissions \in [SubmissionIds -> Submission]
    BY DEF ChallengeInv, TypeInv, TypeOK
<1>3. \A t \in SubmissionIds :
        /\ submissions'[t].creator = submissions[t].creator
        /\ submissions'[t].active_challenge_id = submissions[t].active_challenge_id
        /\ submissions[t].status \notin {"PENDING", "INCONCLUSIVE"} =>
            submissions'[t] = submissions[t]
    BY <1>1, <1>2, SupersededFrame
<1>4. \A t \in SubmissionIds : submissions[t].active_challenge_id # 0 =>
        submissions[t].status = "APPROVED_PENDING"
    BY DEF ChallengeInv, ChallengeLinks
<1> QED
    BY <1>1, <1>3, <1>4, UnchangedChallengesFrame DEF QuietStep, SubmissionFrame, SubmissionIds

\* Paying a reward changes no field challenges depend on.
LEMMA WithdrawRewardQuiet ==
    ASSUME ChallengeInv, NEW sender, NEW s \in SubmissionIds, WithdrawReward(sender, s)
    PROVE  QuietStep
<1> DEFINE record == [submissions[s] EXCEPT !.reward_status = "WITHDRAWN"]
<1>1. /\ submissions' = [submissions EXCEPT ![s] = record]
      /\ UNCHANGED <<submission_count, challengeVars>>
    BY DEF WithdrawReward
<1>2. submissions[s] \in Submission
    BY DEF ChallengeInv, TypeInv, TypeOK
<1>3. /\ record.creator = submissions[s].creator
      /\ record.active_challenge_id = submissions[s].active_challenge_id
      /\ record.status = submissions[s].status
    BY <1>2, ZenonT(60) DEF Submission
<1> HIDE DEF record
<1> QED
    BY <1>1, <1>3, UnchangedChallengesFrame
       DEF ChallengeInv, TypeInv, TypeOK, QuietStep, SubmissionFrame, SubmissionIds

\* Paying a bond needs it PENDING, so its challenge is closed.
LEMMA WithdrawBondQuiet ==
    ASSUME ChallengeInv, NEW sender, NEW c \in ChallengeIds, WithdrawBond(sender, c)
    PROVE  QuietStep
<1> DEFINE record == [challenges[c] EXCEPT !.bond_status = "WITHDRAWN"]
<1>1. /\ challenges' = [challenges EXCEPT ![c] = record]
      /\ challenges[c].bond_status = "PENDING"
      /\ UNCHANGED <<submissionVars, challenge_count>>
    BY DEF WithdrawBond, CanWithdrawBond
<1>2. challenges[c] \in Challenge
    BY DEF ChallengeInv, TypeInv, TypeOK
<1>3. /\ record.submission_id = challenges[c].submission_id
      /\ record.challenger = challenges[c].challenger
      /\ record.status = challenges[c].status
      /\ record.bond_released = challenges[c].bond_released
      /\ record.bond_recipient = challenges[c].bond_recipient
      /\ record.proposed_outcome = challenges[c].proposed_outcome
      /\ record.proposed_reason_code = challenges[c].proposed_reason_code
      /\ record.bond_status = "WITHDRAWN"
    BY <1>2, ZenonT(60) DEF Challenge
<1> HIDE DEF record
<1> QED
    BY <1>1, <1>3, UnchangedSubmissionsFrame
       DEF ChallengeInv, TypeInv, TypeOK, QuietStep, ChallengeFrame, ChallengeIds

-----------------------------------------------------------------------------
\* Steps that open or close one.

\* What a step may do to the proposal of an open challenge.
ProposalKept(c) ==
    challenges[c].status = "OPEN" /\ challenges[c].proposed_outcome \in {"UPHOLD", "DISMISS"} =>
        /\ challenges'[c].proposed_outcome = challenges[c].proposed_outcome
        /\ challenges'[c].proposed_reason_code = challenges[c].proposed_reason_code
        /\ challenges'[c].status \in
            {"OPEN", IF challenges[c].proposed_outcome = "UPHOLD" THEN "UPHELD" ELSE "DISMISSED"}

\* What every step keeps.
ChallengeStep == ChallengeLinks' /\ BondFollowsOutcome' /\ \A c \in ChallengeIds : ProposalKept(c)

\* Quiet steps keep the links, the bonds and every final proposal.
LEMMA QuietStepKeeps ==
    ASSUME ChallengeInv, QuietStep PROVE ChallengeStep
<1>1. \A c \in ChallengeIds : ProposalKept(c)
    BY DEF QuietStep, ChallengeFrame, ProposalKept
<1> QED BY <1>1, QuietStepLinks, QuietStepBonds DEF ChallengeStep

\* A new challenge is the only open one of its submission, because
\* challenge_submission asserts that active_challenge_id is 0.
LEMMA ChallengeSubmissionKeeps ==
    ASSUME ChallengeInv, NEW sender, NEW s \in SubmissionIds, NEW reason, NEW digest,
           ChallengeSubmission(sender, s, reason, digest)
    PROVE  ChallengeStep
<1> DEFINE id == challenge_count + 1
           b == submissions[s].bounty_id
           bond == ChallengeBond(bounties[b].reward)
           record ==
        [submission_id |-> s, bounty_id |-> b, challenger |-> sender,
         reason_code |-> reason, evidence_sha256 |-> digest, bond |-> bond,
         status |-> "OPEN", review_deadline |-> clock + CHALLENGE_REVIEW_TIMEOUT,
         attempt_count |-> 0, proposed_outcome |-> "", proposed_reason_code |-> "",
         proposed_error_class |-> "", bond_released |-> FALSE,
         bond_recipient |-> ZERO_ADDRESS, bond_disposition |-> "",
         bond_status |-> "ESCROWED"]
           submission == [submissions[s] EXCEPT !.active_challenge_id = id,
                                                !.latest_challenge_id = id]
<1>1. /\ challenge_count' = id
      /\ challenges' = Appended(challenges, id, record)
      /\ submissions' = [submissions EXCEPT ![s] = submission]
      /\ submission_count' = submission_count
      /\ submissions[s].status = "APPROVED_PENDING"
      /\ submissions[s].active_challenge_id = 0
    BY DEF ChallengeSubmission, CanChallenge
<1>2. /\ submissions[s] \in Submission
      /\ submissions \in [SubmissionIds -> Submission]
      /\ challenges \in [ChallengeIds -> Challenge]
      /\ challenge_count \in Nat
    BY DEF ChallengeInv, TypeInv, TypeOK
<1>3. /\ submission.creator = submissions[s].creator
      /\ submission.status = submissions[s].status
      /\ submission.active_challenge_id = id
    BY <1>2, ZenonT(60) DEF Submission
<1>4. /\ record.submission_id = s /\ record.status = "OPEN" /\ record.bond_status = "ESCROWED"
      /\ record.bond_released = FALSE /\ record.proposed_outcome = ""
    OBVIOUS
<1> HIDE DEF record, submission
<1>5. /\ ChallengeIds' = ChallengeIds \cup {id} /\ id \notin ChallengeIds /\ id # 0
      /\ SubmissionIds' = SubmissionIds
    BY <1>1, <1>2, NextChallengeId DEF ChallengeIds, SubmissionIds
<1> HIDE DEF id
<1>6. /\ submissions'[s] = submission
      /\ \A t \in SubmissionIds \ {s} : submissions'[t] = submissions[t]
      /\ challenges'[id] = record
      /\ \A c \in ChallengeIds : challenges'[c] = challenges[c]
    BY <1>1, <1>2, <1>5 DEF Appended
<1>7. \A c \in ChallengeIds : challenges[c].submission_id \in SubmissionIds
    BY DEF ChallengeInv, TypeInv, References
<1>8. ChallengeLinks'
    <2>1. ASSUME NEW t \in SubmissionIds, submissions'[t].active_challenge_id # 0
          PROVE  /\ submissions'[t].active_challenge_id \in ChallengeIds'
                 /\ challenges'[submissions'[t].active_challenge_id].status = "OPEN"
                 /\ challenges'[submissions'[t].active_challenge_id].submission_id = t
                 /\ submissions'[t].status = "APPROVED_PENDING"
        <3>1. CASE t = s
            <4>1. submissions'[t] = submission /\ submission.active_challenge_id = id
                BY <1>3, <1>6, <3>1
            <4>2. submission.status = "APPROVED_PENDING"
                BY <1>1, <1>3
            <4>3. id \in ChallengeIds' /\ challenges'[id] = record
                BY <1>5, <1>6
            <4> QED BY <1>4, <3>1, <4>1, <4>2, <4>3
        <3>2. CASE t # s
            BY <1>5, <1>6, <2>1, <3>2 DEF ChallengeInv, ChallengeLinks
        <3> QED BY <3>1, <3>2
    <2>2. ASSUME NEW c \in ChallengeIds', challenges'[c].status = "OPEN"
          PROVE  submissions'[challenges'[c].submission_id].active_challenge_id = c
        <3>1. CASE c = id
            BY <1>3, <1>4, <1>6, <3>1
        <3>2. CASE c # id
            <4>1. /\ c \in ChallengeIds /\ challenges'[c] = challenges[c]
                  /\ submissions[challenges[c].submission_id].active_challenge_id = c
                  /\ c # 0
                BY <1>5, <1>6, <2>2, <3>2 DEF ChallengeInv, ChallengeLinks, ChallengeIds
            <4>2. challenges[c].submission_id \in SubmissionIds \ {s}
                BY <1>1, <1>7, <4>1
            <4> QED BY <1>6, <4>1, <4>2
        <3> QED BY <3>1, <3>2
    <2> QED BY <1>5, <2>1, <2>2 DEF ChallengeLinks
<1>9. BondFollowsOutcome'
    <2>1. \A t \in SubmissionIds : submissions'[t].creator = submissions[t].creator
        BY <1>3, <1>6
    <2>2. ASSUME NEW c, c = id PROVE BondMatchesOutcome(c)'
        <3>1. challenges'[c] = record
            BY <1>6, <2>2
        <3> QED BY <1>4, <3>1 DEF BondMatchesOutcome
    <2>3. ASSUME NEW c \in ChallengeIds PROVE BondMatchesOutcome(c)'
        <3>1. BondMatchesOutcome(c)
            BY DEF ChallengeInv, BondFollowsOutcome
        <3> QED BY <1>6, <1>7, <2>1, <3>1 DEF BondMatchesOutcome
    <2> QED BY <1>5, <2>2, <2>3 DEF BondFollowsOutcome
<1>10. \A c \in ChallengeIds : ProposalKept(c)
    BY <1>6 DEF ProposalKept
<1> QED BY <1>8, <1>9, <1>10 DEF ChallengeStep

\* Closing a challenge: its submission is freed, and its bond routed as its
\* proposal says.
Closes(c, record, submission) ==
    LET challenge == challenges[c]
    IN
    /\ challenge.status = "OPEN"
    /\ UNCHANGED <<submission_count, challenge_count>>
    /\ challenges' = [challenges EXCEPT ![c] = record]
    /\ submissions' = [submissions EXCEPT ![challenge.submission_id] = submission]
    /\ record.submission_id = challenge.submission_id
    /\ record.challenger = challenge.challenger
    /\ record.proposed_outcome = challenge.proposed_outcome
    /\ record.proposed_reason_code = challenge.proposed_reason_code
    /\ record.bond_released = TRUE
    /\ record.bond_status = "PENDING"
    /\ \/ /\ record.status = "UPHELD" /\ challenge.proposed_outcome = "UPHOLD"
          /\ record.bond_recipient = challenge.challenger
       \/ /\ record.status = "DISMISSED" /\ challenge.proposed_outcome = "DISMISS"
          /\ record.bond_recipient = submissions[challenge.submission_id].creator
       \/ /\ record.status = "TIMED_OUT"
          /\ challenge.proposed_outcome \in {"", "INCONCLUSIVE"}
          /\ record.bond_recipient = challenge.challenger
    /\ submission.creator = submissions[challenge.submission_id].creator
    /\ submission.active_challenge_id = 0

\* Closing a challenge clears the link of its own submission and no other.
LEMMA ClosingKeeps ==
    ASSUME ChallengeInv, NEW c \in ChallengeIds, NEW record, NEW submission,
           Closes(c, record, submission)
    PROVE  ChallengeStep
<1> DEFINE s == challenges[c].submission_id
<1>1. /\ submissions \in [SubmissionIds -> Submission]
      /\ challenges \in [ChallengeIds -> Challenge]
      /\ \A d \in ChallengeIds : challenges[d].submission_id \in SubmissionIds
    BY DEF ChallengeInv, TypeInv, TypeOK, References
<1>2. SubmissionIds' = SubmissionIds /\ ChallengeIds' = ChallengeIds
    BY DEF Closes, SubmissionIds, ChallengeIds
<1>3. /\ challenges'[c] = record
      /\ \A d \in ChallengeIds \ {c} : challenges'[d] = challenges[d]
      /\ submissions'[s] = submission
      /\ \A t \in SubmissionIds \ {s} : submissions'[t] = submissions[t]
    BY <1>1 DEF Closes
<1>4. /\ submissions[s].active_challenge_id = c
      /\ record.status # "OPEN"
      /\ submission.active_challenge_id = 0
    BY DEF ChallengeInv, ChallengeLinks, Closes
<1>5. ChallengeLinks'
    <2>1. ASSUME NEW t \in SubmissionIds, submissions'[t].active_challenge_id # 0
          PROVE  /\ submissions'[t].active_challenge_id \in ChallengeIds
                 /\ challenges'[submissions'[t].active_challenge_id].status = "OPEN"
                 /\ challenges'[submissions'[t].active_challenge_id].submission_id = t
                 /\ submissions'[t].status = "APPROVED_PENDING"
        <3>1. t # s /\ submissions'[t] = submissions[t]
            BY <1>3, <1>4, <2>1
        <3>2. submissions[t].active_challenge_id \in ChallengeIds \ {c}
            BY <2>1, <3>1 DEF ChallengeInv, ChallengeLinks
        <3> QED BY <1>3, <2>1, <3>1, <3>2 DEF ChallengeInv, ChallengeLinks
    <2>2. ASSUME NEW d \in ChallengeIds, challenges'[d].status = "OPEN"
          PROVE  submissions'[challenges'[d].submission_id].active_challenge_id = d
        <3>1. d # c /\ challenges'[d] = challenges[d]
            BY <1>3, <1>4, <2>2
        <3>2. submissions[challenges[d].submission_id].active_challenge_id = d
            BY <2>2, <3>1 DEF ChallengeInv, ChallengeLinks
        <3>3. challenges[d].submission_id \in SubmissionIds \ {s}
            BY <1>1, <1>4, <3>1, <3>2
        <3> QED BY <1>3, <3>1, <3>2, <3>3
    <2> QED BY <1>2, <2>1, <2>2 DEF ChallengeLinks
<1>6. BondFollowsOutcome'
    <2>1. \A t \in SubmissionIds : submissions'[t].creator = submissions[t].creator
        BY <1>3 DEF Closes
    <2>2. BondMatchesOutcome(c)'
        <3>1. s \in SubmissionIds
            BY <1>1
        <3>2. /\ record.submission_id = s
              /\ record.bond_released = TRUE
              /\ record.bond_status = "PENDING"
              /\ record.status # "OPEN"
              /\ record.bond_recipient =
                    IF record.status = "DISMISSED" THEN submissions[s].creator
                    ELSE record.challenger
              /\ record.status = "UPHELD" <=> record.proposed_outcome = "UPHOLD"
            BY DEF Closes
        <3>3. submissions'[s].creator = submissions[s].creator
            BY <2>1, <3>1
        <3> QED BY <1>3, <3>2, <3>3 DEF BondMatchesOutcome
    <2>3. ASSUME NEW d \in ChallengeIds \ {c} PROVE BondMatchesOutcome(d)'
        <3>1. BondMatchesOutcome(d)
            BY DEF ChallengeInv, BondFollowsOutcome
        <3> QED BY <1>1, <1>3, <2>1, <3>1 DEF BondMatchesOutcome
    <2> QED BY <1>2, <2>2, <2>3 DEF BondFollowsOutcome
<1>7. \A d \in ChallengeIds : ProposalKept(d)
    BY <1>3 DEF ProposalKept, Closes
<1> QED BY <1>5, <1>6, <1>7 DEF ChallengeStep

\* finalize_challenge closes a challenge in the direction it proposed.
LEMMA FinalizeChallengeKeeps ==
    ASSUME ChallengeInv, NEW c \in ChallengeIds, FinalizeChallenge(c)
    PROVE  ChallengeStep
<1> DEFINE s == challenges[c].submission_id
<1>1. /\ challenges[c] \in Challenge
      /\ submissions[s] \in Submission
    BY DEF ChallengeInv, TypeInv, TypeOK, References
<1>2. /\ challenges[c].status = "OPEN"
      /\ UNCHANGED <<submission_count, challenge_count>>
    BY DEF FinalizeChallenge, CanFinalize
<1>3. CASE UpholdChallenge(c)
    <2> DEFINE record == BondRouted([challenges[c] EXCEPT !.status = "UPHELD"],
                                    challenges[c].challenger, "CHALLENGER")
               submission == Overturned(submissions[s], challenges[c].proposed_reason_code)
    <2>1. /\ challenges' = [challenges EXCEPT ![c] = record]
          /\ submissions' = [submissions EXCEPT ![s] = submission]
          /\ challenges[c].proposed_outcome = "UPHOLD"
        BY <1>3 DEF UpholdChallenge
    <2>2. /\ submission.creator = submissions[s].creator
          /\ submission.active_challenge_id = 0
        BY <1>1, ZenonT(60) DEF Overturned, Submission
    <2>3. /\ record.submission_id = s
          /\ record.challenger = challenges[c].challenger
          /\ record.proposed_outcome = challenges[c].proposed_outcome
          /\ record.proposed_reason_code = challenges[c].proposed_reason_code
          /\ record.bond_released = TRUE
          /\ record.bond_status = "PENDING"
          /\ record.bond_recipient = challenges[c].challenger
          /\ record.status = "UPHELD"
        BY <1>1, ZenonT(60) DEF BondRouted, Challenge
    <2> HIDE DEF record, submission
    <2>4. Closes(c, record, submission)
        BY <1>2, <2>1, <2>2, <2>3 DEF Closes
    <2> QED BY <2>4, ClosingKeeps
<1>4. CASE DismissChallenge(c)
    <2> DEFINE record == BondRouted([challenges[c] EXCEPT !.status = "DISMISSED"],
                                    submissions[s].creator, "CREATOR")
               submission == [submissions[s] EXCEPT !.active_challenge_id = 0]
    <2>1. /\ challenges' = [challenges EXCEPT ![c] = record]
          /\ submissions' = [submissions EXCEPT ![s] = submission]
          /\ challenges[c].proposed_outcome = "DISMISS"
        BY <1>4 DEF DismissChallenge
    <2>2. /\ submission.creator = submissions[s].creator
          /\ submission.active_challenge_id = 0
        BY <1>1, ZenonT(60) DEF Submission
    <2>3. /\ record.submission_id = s
          /\ record.challenger = challenges[c].challenger
          /\ record.proposed_outcome = challenges[c].proposed_outcome
          /\ record.proposed_reason_code = challenges[c].proposed_reason_code
          /\ record.bond_released = TRUE
          /\ record.bond_status = "PENDING"
          /\ record.bond_recipient = submissions[s].creator
          /\ record.status = "DISMISSED"
        BY <1>1, ZenonT(60) DEF BondRouted, Challenge
    <2> HIDE DEF record, submission
    <2>4. Closes(c, record, submission)
        BY <1>2, <2>1, <2>2, <2>3 DEF Closes
    <2> QED BY <2>4, ClosingKeeps
<1> QED BY <1>3, <1>4 DEF FinalizeChallenge

\* timeout_challenge closes a challenge that has no final proposal.
LEMMA TimeoutChallengeKeeps ==
    ASSUME ChallengeInv, NEW c \in ChallengeIds, TimeoutChallenge(c)
    PROVE  ChallengeStep
<1> DEFINE s == challenges[c].submission_id
           record == BondRouted([challenges[c] EXCEPT !.status = "TIMED_OUT"],
                                challenges[c].challenger, "CHALLENGER")
           submission == [submissions[s] EXCEPT !.active_challenge_id = 0]
<1>1. /\ challenges[c] \in Challenge
      /\ submissions[s] \in Submission
    BY DEF ChallengeInv, TypeInv, TypeOK, References
<1>2. /\ challenges[c].status = "OPEN"
      /\ challenges[c].proposed_outcome \in {"", "INCONCLUSIVE"}
      /\ UNCHANGED <<submission_count, challenge_count>>
    BY DEF TimeoutChallenge, CanTimeout
<1>3. /\ challenges' = [challenges EXCEPT ![c] = record]
      /\ submissions' = [submissions EXCEPT ![s] = submission]
    BY DEF TimeoutChallenge
<1>4. /\ submission.creator = submissions[s].creator
      /\ submission.active_challenge_id = 0
    BY <1>1, ZenonT(60) DEF Submission
<1>5. /\ record.submission_id = s
      /\ record.challenger = challenges[c].challenger
      /\ record.proposed_outcome = challenges[c].proposed_outcome
      /\ record.proposed_reason_code = challenges[c].proposed_reason_code
      /\ record.bond_released = TRUE
      /\ record.bond_status = "PENDING"
      /\ record.bond_recipient = challenges[c].challenger
      /\ record.status = "TIMED_OUT"
    BY <1>1, ZenonT(60) DEF BondRouted, Challenge
<1> HIDE DEF record, submission
<1>6. Closes(c, record, submission)
    BY <1>2, <1>3, <1>4, <1>5 DEF Closes
<1> QED BY <1>6, ClosingKeeps

-----------------------------------------------------------------------------
\* There are no challenges at first.
LEMMA ChallengeInvInit == Init => ChallengeInv
<1> SUFFICES ASSUME Init PROVE ChallengeInv
    OBVIOUS
<1>1. SubmissionIds = {} /\ ChallengeIds = {}
    BY DEF Init, SubmissionIds, ChallengeIds
<1> QED BY <1>1, TypeInvInit DEF ChallengeInv, ChallengeLinks, BondFollowsOutcome

\* One case per method: what a step does to challenges and to the links.
LEMMA ChallengeStepHolds == ChallengeInv /\ [Next]_vars => ChallengeStep
<1> SUFFICES ASSUME ChallengeInv, [Next]_vars PROVE ChallengeStep
    OBVIOUS
<1>1. ASSUME UNCHANGED <<submissionVars, challengeVars>> PROVE ChallengeStep
    BY <1>1, UnchangedSubmissionsFrame, UnchangedChallengesFrame, QuietStepKeeps DEF QuietStep
<1>2. ASSUME NEW sender \in Addresses, NEW value \in Rewards, NEW sw \in SubmissionWindows,
             NEW eg \in EvaluationGraces, NEW cw \in ChallengeWindows,
             PostBounty(sender, value, sw, eg, cw)
      PROVE  ChallengeStep
    BY <1>1, <1>2 DEF PostBounty
<1>3. ASSUME NEW sender \in Addresses, NEW b \in BountyIds, NEW digest \in Digests,
             SubmitContent(sender, b, digest)
      PROVE  ChallengeStep
    BY <1>3, SubmitContentQuiet, QuietStepKeeps
<1>4. ASSUME NEW s \in SubmissionIds, NEW result \in EvaluationResults,
             EvaluateSubmission(s, result)
      PROVE  ChallengeStep
    BY <1>4, EvaluateSubmissionQuiet, QuietStepKeeps
<1>5. ASSUME NEW sender \in Addresses, NEW s \in SubmissionIds, NEW reason \in ChallengeReasons,
             NEW digest \in Digests, ChallengeSubmission(sender, s, reason, digest)
      PROVE  ChallengeStep
    BY <1>5, ChallengeSubmissionKeeps
<1>6. ASSUME NEW c \in ChallengeIds, NEW result \in ReviewResults, ReviewChallenge(c, result)
      PROVE  ChallengeStep
    BY <1>6, ReviewChallengeQuiet, QuietStepKeeps
<1>7. ASSUME NEW c \in ChallengeIds, FinalizeChallenge(c) \/ TimeoutChallenge(c)
      PROVE  ChallengeStep
    BY <1>7, FinalizeChallengeKeeps, TimeoutChallengeKeeps
<1>8. ASSUME NEW sender \in Addresses, NEW s \in SubmissionIds,
             ClaimReward(sender, s) \/ WithdrawReward(sender, s)
      PROVE  ChallengeStep
    BY <1>8, ClaimRewardQuiet, WithdrawRewardQuiet, QuietStepKeeps
<1>9. ASSUME NEW sender \in Addresses, NEW b \in BountyIds,
             CancelBounty(sender, b) \/ WithdrawRefund(sender, b)
      PROVE  ChallengeStep
    <2>1. UNCHANGED <<submissionVars, challengeVars>>
        BY <1>9 DEF CancelBounty, WithdrawRefund
    <2> QED BY <1>1, <2>1
<1>10. ASSUME NEW b \in BountyIds, ExpireBounty(b)
       PROVE  ChallengeStep
    BY <1>10, ExpireBountyQuiet, QuietStepKeeps
<1>11. ASSUME NEW sender \in Addresses, NEW c \in ChallengeIds, WithdrawBond(sender, c)
       PROVE  ChallengeStep
    BY <1>11, WithdrawBondQuiet, QuietStepKeeps
<1>12. CASE Tick \/ UNCHANGED vars
    BY <1>1, <1>12 DEF Tick, vars
<1> QED
    BY <1>2, <1>3, <1>4, <1>5, <1>6, <1>7, <1>8, <1>9, <1>10, <1>11, <1>12 DEF Next

\* Every transaction keeps the invariant.
LEMMA ChallengeInvStep == ChallengeInv /\ [Next]_vars => ChallengeInv'
    BY TypeInvStep, ChallengeStepHolds DEF ChallengeInv, ChallengeStep

\* The inductive invariant holds throughout; the theorems below follow from it.
LEMMA ChallengeInvariant == Spec => []ChallengeInv
    BY ChallengeInvInit, ChallengeInvStep, PTL DEF Spec

\* A submission is under challenge exactly by the open challenge it names, and
\* only while it is a provisional winner: claims and timeouts look at that name
\* alone and may rely on it.
THEOREM OneOpenChallenge == Spec => []ActiveChallengeIsTheOpenOne
<1>1. ChallengeInv => ActiveChallengeIsTheOpenOne
    <2> SUFFICES ASSUME ChallengeInv, NEW s \in SubmissionIds
                 PROVE  IF submissions[s].active_challenge_id = 0
                        THEN OpenChallengesOn(s) = {}
                        ELSE /\ OpenChallengesOn(s) = {submissions[s].active_challenge_id}
                             /\ submissions[s].status = "APPROVED_PENDING"
        BY DEF ActiveChallengeIsTheOpenOne
    <2>1. \A c \in OpenChallengesOn(s) : c # 0 /\ c = submissions[s].active_challenge_id
        BY DEF ChallengeInv, ChallengeLinks, TypeInv, TypeOK, OpenChallengesOn, ChallengeIds
    <2>2. CASE submissions[s].active_challenge_id = 0
        BY <2>1, <2>2
    <2>3. CASE submissions[s].active_challenge_id # 0
        <3>1. /\ submissions[s].active_challenge_id \in OpenChallengesOn(s)
              /\ submissions[s].status = "APPROVED_PENDING"
            BY <2>3 DEF ChallengeInv, ChallengeLinks, OpenChallengesOn
        <3> QED BY <2>1, <2>3, <3>1
    <2> QED BY <2>2, <2>3
<1> QED BY <1>1, ChallengeInvariant, PTL

\* The bond of a challenge stays in escrow while it is open and then belongs
\* to the party its outcome names, whatever order reviews, finalisations,
\* timeouts and withdrawals come in.
THEOREM BondGoesWhereOutcomeSays == Spec => []BondFollowsOutcome
<1>1. ChallengeInv => BondFollowsOutcome
    BY DEF ChallengeInv
<1> QED BY <1>1, ChallengeInvariant, PTL

\* A proposal to uphold or to dismiss is final: nothing replaces it, and the
\* challenge can only close the way it says.
THEOREM ProposalsBind == Spec => ProposalIsBinding
<1>1. ChallengeInv /\ [Next]_vars => [\A c \in ChallengeIds : ProposalKept(c)]_vars
    BY ChallengeStepHolds DEF ChallengeStep
<1>2. Spec => [][\A c \in ChallengeIds : ProposalKept(c)]_vars
    BY <1>1, ChallengeInvariant, PTL DEF Spec
<1> QED BY <1>2, PTL DEF ProposalIsBinding, ProposalKept
=============================================================================
