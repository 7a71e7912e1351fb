------------------------ MODULE ConsensusRoundProofs ------------------------
(***************************************************************************)
(* What holds of a round for every set of nodes with an honest majority,   *)
(* every set of pages, every answer of the model and every forgery.        *)
(***************************************************************************)
EXTENDS ConsensusRound, FiniteSetTheorems, TLAPS

-----------------------------------------------------------------------------
\* The functions a node runs return results the contract can store.

\* The score of a bit string is one of the five buckets, and a full one is 4.
LEMMA ScoreBucketType ==
    ASSUME NEW bits \in [1..CRITERION_COUNT -> {0, 1}]
    PROVE  ScoreBucket(bits) \in 0..4
<1> DEFINE met == {i \in DOMAIN bits : bits[i] = 1}
           n == Cardinality(met)
<1>1. IsFiniteSet(1..CRITERION_COUNT) /\ Cardinality(1..CRITERION_COUNT) = CRITERION_COUNT
    BY FS_Interval, RubricAssumption
<1>2. met \in SUBSET (1..CRITERION_COUNT)
    OBVIOUS
<1>3. ScoreBucket(bits) = (n * 4) \div CRITERION_COUNT
    BY DEF ScoreBucket
<1> HIDE DEF met
<1>4. IsFiniteSet(met) /\ n <= CRITERION_COUNT
    <2>1. IsFiniteSet(met) /\ Cardinality(met) <= Cardinality(1..CRITERION_COUNT)
        BY <1>1, <1>2, FS_Subset, Zenon
    <2> QED BY <1>1, <2>1
<1>5. n \in Nat
    BY <1>4, FS_CardinalityType
<1> HIDE DEF n
<1>6. (n * 4) \div CRITERION_COUNT \in 0..4
    <2>1. CRITERION_COUNT \in Nat /\ CRITERION_COUNT > 0
        BY RubricAssumption
    <2>2. n * 4 >= 0 /\ n * 4 < 5 * CRITERION_COUNT
        BY <1>4, <1>5, <2>1
    <2> QED BY <1>5, <2>1, <2>2
<1> QED BY <1>3, <1>6

\* _render_evidence_commitment returns what _valid_evidence_commitment takes.
LEMMA RenderCommitmentShape ==
    ASSUME NEW render \in Renders, NEW tag_required \in BOOLEAN
    PROVE  ValidCommitment(RenderCommitment(render, tag_required))
<1>1. CASE ~IsText(render)
    BY <1>1 DEF RenderCommitment, ValidCommitment, Commitments, Refused
<1>2. CASE IsText(render)
    <2>1. /\ render \in Digests
          /\ render # NoDigest
          /\ SizeOf[render] \in {"empty", "bounded", "oversized"}
          /\ TagIn[render] \in BOOLEAN
        BY <1>2, PageAssumption DEF Renders, IsText
    <2>2. CASE SizeOf[render] = "empty"
        BY <1>2, <2>1, <2>2 DEF RenderCommitment, ValidCommitment, Commitments, Refused
    <2>3. CASE SizeOf[render] = "oversized"
        BY <1>2, <2>1, <2>3 DEF RenderCommitment, ValidCommitment, Commitments, Refused
    <2>4. CASE SizeOf[render] = "bounded"
        BY <1>2, <2>1, <2>4 DEF RenderCommitment, ValidCommitment, Commitments
    <2> QED BY <2>1, <2>2, <2>3, <2>4
<1> QED BY <1>1, <1>2

\* _inconclusive_result has the shape of an evaluation.
LEMMA InconclusiveShape ==
    ASSUME NEW hash \in Digests \cup {NoDigest}, NEW reason \in InconclusiveReasons,
           NEW tag \in BOOLEAN
    PROVE  ValidEvaluationShape(InconclusiveResult(hash, reason, tag))
    BY DEF ValidEvaluationShape, InconclusiveResult, Evaluations, Decisions, CriteriaBits,
           EvaluationReasons

\* _normalize_judgment returns a well-formed result for every answer.
LEMMA NormalizeJudgmentShape ==
    ASSUME NEW judgment \in Judgments, NEW hash \in Digests
    PROVE  ValidEvaluationShape(NormalizeJudgment(judgment, hash))
<1> DEFINE bits == [i \in 1..CRITERION_COUNT |-> IF judgment.items[i] = "met" THEN 1 ELSE 0]
           refused == \/ Len(judgment.items) # CRITERION_COUNT
                      \/ \E i \in DOMAIN judgment.items : judgment.items[i] = "invalid"
           decision == IF AllMet(bits) THEN "APPROVE" ELSE "REJECT"
           reason == IF AllMet(bits) THEN "ALL_REQUIRED_CRITERIA_MET" ELSE "CRITERIA_NOT_MET"
<1>1. CASE refused
    BY <1>1, InconclusiveShape DEF NormalizeJudgment, InconclusiveReasons
<1>2. CASE ~refused
    <2>1. NormalizeJudgment(judgment, hash) =
            [decision |-> decision, criteria_bits |-> bits, score_bucket |-> ScoreBucket(bits),
             evidence_hash |-> hash, reason_code |-> reason, claim_tag_present |-> TRUE]
        BY <1>2 DEF NormalizeJudgment
    <2>2. bits \in [1..CRITERION_COUNT -> {0, 1}]
        OBVIOUS
    <2>3. /\ ScoreBucket(bits) \in 0..4
          /\ hash # NoDigest
        BY <2>2, ScoreBucketType, PageAssumption
    <2>4. DOMAIN bits = 1..CRITERION_COUNT
        OBVIOUS
    <2> HIDE DEF bits
    <2>5. NormalizeJudgment(judgment, hash) \in Evaluations
        BY <2>1, <2>2, <2>3 DEF Evaluations, Decisions, CriteriaBits, EvaluationReasons
    <2> QED BY <2>1, <2>3, <2>4, <2>5 DEF ValidEvaluationShape
<1> QED BY <1>1, <1>2

\* _evaluate_evidence returns a well-formed result for every page and answer.
LEMMA EvaluateEvidenceShape ==
    ASSUME NEW render \in Renders, NEW expected, NEW extracted \in BOOLEAN,
           NEW judgment \in Judgments
    PROVE  ValidEvaluationShape(EvaluateEvidence(render, expected, extracted, judgment))
<1> DEFINE result == EvaluateEvidence(render, expected, extracted, judgment)
<1>1. CASE ~IsText(render)
    BY <1>1, InconclusiveShape DEF EvaluateEvidence, InconclusiveReasons
<1>2. CASE IsText(render)
    <2>1. /\ render \in Digests
          /\ render # NoDigest
        BY <1>2, PageAssumption DEF Renders, IsText
    <2>2. CASE ~TagIn[render]
        <3>1. result = RejectedResult(render, "CLAIM_TAG_MISSING")
            BY <1>2, <2>2 DEF EvaluateEvidence
        <3>2. ValidEvaluationShape(RejectedResult(render, "CLAIM_TAG_MISSING"))
            BY <2>1 DEF ValidEvaluationShape, RejectedResult, Evaluations, Decisions,
                        CriteriaBits, EvaluationReasons
        <3> QED BY <3>1, <3>2
    <2>3. CASE TagIn[render]
        <3>1. \/ \E reason \in InconclusiveReasons, tag \in BOOLEAN :
                    result = InconclusiveResult(render, reason, tag)
              \/ result = NormalizeJudgment(judgment, render)
            BY <1>2, <2>3 DEF EvaluateEvidence, InconclusiveReasons
        <3> QED BY <2>1, <3>1, InconclusiveShape, NormalizeJudgmentShape
    <2> QED BY <2>2, <2>3
<1> QED BY <1>1, <1>2

\* A review that says why it is inconclusive is well formed.
LEMMA ChallengeInconclusiveShape ==
    ASSUME NEW reason \in ChallengeReasonCodes, NEW class \in ChallengeErrorClasses \ {""},
           NEW original \in Digests \cup {NoDigest}, NEW evidence \in Digests \cup {NoDigest},
           NEW tag \in BOOLEAN
    PROVE  ValidChallengeReviewShape(ChallengeInconclusive(reason, class, original, evidence, tag))
    BY DEF ValidChallengeReviewShape, ChallengeInconclusive, ReviewResult, Reviews,
           ChallengeOutcomes

\* A deterministic finding against the submission's page is well formed.
LEMMA UpholdShape ==
    ASSUME NEW hash \in Digests, NEW tag \in BOOLEAN
    PROVE  /\ ValidChallengeReviewShape(Tampered(hash, tag))
           /\ ValidChallengeReviewShape(NoSourceControl(hash))
    BY PageAssumption
       DEF ValidChallengeReviewShape, Tampered, NoSourceControl, ReviewResult, Reviews,
           ChallengeOutcomes, ChallengeReasonCodes, ChallengeErrorClasses

\* What the renders alone decide is at most one result, and well formed.
LEMMA RendersDecideShape ==
    ASSUME NEW rendered \in Seq(Renders), Len(rendered) > 0
    PROVE  LET decided == RendersDecide(StatedReason, rendered, Submitted, Filed)
           IN  /\ decided = {} \/ \E result : decided = {result}
               /\ \A result \in decided : ValidChallengeReviewShape(result)
<1> DEFINE Fine(decided) == /\ decided = {} \/ \E result : decided = {result}
                            /\ \A result \in decided : ValidChallengeReviewShape(result)
<1>1. /\ StatedReason \in ChallengeReasonCodes
      /\ Submitted \in Digests /\ Filed \in Digests
      /\ {"[EXTERNAL]", "[TRANSIENT]", "DIGEST_MISMATCH"} \subseteq ChallengeErrorClasses \ {""}
    BY RecordAssumption DEF ChallengeErrorClasses
<1>2. ASSUME NEW render \in Renders
      PROVE  Fine(AfterOriginalCommitment(StatedReason, render, Submitted))
    <2> DEFINE original == RenderCommitment(render, TRUE)
    <2>1. ValidCommitment(original)
        BY RenderCommitmentShape
    <2>2. /\ original.evidence_hash \in Digests \cup {NoDigest}
          /\ original.claim_tag_present \in BOOLEAN
          /\ original.reason_code # "FETCH_FAILED" => original.evidence_hash \in Digests
        BY PageAssumption
           DEF RenderCommitment, Refused, Renders, IsText
    <2>3. \/ AfterOriginalCommitment(StatedReason, render, Submitted) =
                {ChallengeInconclusive(StatedReason, "[EXTERNAL]", original.evidence_hash,
                                       NoDigest, FALSE)}
          \/ /\ original.evidence_hash \in Digests
             /\ AfterOriginalCommitment(StatedReason, render, Submitted) \in
                    {{Tampered(original.evidence_hash, original.claim_tag_present)},
                     {NoSourceControl(original.evidence_hash)}, {}}
        BY <2>1, <2>2 DEF AfterOriginalCommitment
    <2> HIDE DEF original
    <2>4. ValidChallengeReviewShape(
            ChallengeInconclusive(StatedReason, "[EXTERNAL]", original.evidence_hash, NoDigest, FALSE))
        BY <1>1, <2>2, ChallengeInconclusiveShape
    <2>5. original.evidence_hash \in Digests =>
            /\ ValidChallengeReviewShape(Tampered(original.evidence_hash, original.claim_tag_present))
            /\ ValidChallengeReviewShape(NoSourceControl(original.evidence_hash))
        BY <2>2, UpholdShape
    <2> QED BY <2>3, <2>4, <2>5
<1>3. ASSUME NEW render \in Renders
      PROVE  Fine(AfterOriginalText(StatedReason, render, Submitted))
    <2>1. \/ AfterOriginalText(StatedReason, render, Submitted) \in
                {{ChallengeInconclusive(StatedReason, "[TRANSIENT]", Submitted, NoDigest, TRUE)},
                 {ChallengeInconclusive(StatedReason, "[EXTERNAL]", Submitted, NoDigest, TRUE)},
                 {}}
          \/ /\ render \in Digests
             /\ TagIn[render] \in BOOLEAN
             /\ AfterOriginalText(StatedReason, render, Submitted) \in
                    {{Tampered(render, TagIn[render])}, {NoSourceControl(render)}}
        BY PageAssumption DEF AfterOriginalText, Renders
    <2> QED BY <1>1, <2>1, ChallengeInconclusiveShape, UpholdShape
<1>4. ASSUME NEW render \in Renders
      PROVE  Fine(AfterChallengeCommitment(StatedReason, render, Submitted, Filed))
    <2> DEFINE evidence == RenderCommitment(render, FALSE)
    <2>1. evidence.evidence_hash \in Digests \cup {NoDigest}
        BY PageAssumption DEF RenderCommitment, Refused, Renders, IsText
    <2>2. AfterChallengeCommitment(StatedReason, render, Submitted, Filed) \in
            {{ChallengeInconclusive(StatedReason, "[EXTERNAL]", Submitted,
                                    evidence.evidence_hash, TRUE)},
             {ChallengeInconclusive(StatedReason, "DIGEST_MISMATCH", Submitted,
                                    evidence.evidence_hash, TRUE)},
             {}}
        BY DEF AfterChallengeCommitment
    <2> HIDE DEF evidence
    <2> QED BY <1>1, <2>1, <2>2, ChallengeInconclusiveShape
<1>5. ASSUME NEW render \in Renders
      PROVE  Fine(AfterChallengeText(StatedReason, render, Submitted, Filed))
    <2>1. \/ AfterChallengeText(StatedReason, render, Submitted, Filed) \in
                {{ChallengeInconclusive(StatedReason, "[TRANSIENT]", Submitted, NoDigest, TRUE)},
                 {ChallengeInconclusive(StatedReason, "[EXTERNAL]", Submitted, NoDigest, TRUE)},
                 {}}
          \/ /\ render \in Digests
             /\ AfterChallengeText(StatedReason, render, Submitted, Filed) =
                    {ChallengeInconclusive(StatedReason, "[TRANSIENT]", Submitted, render, TRUE)}
        BY DEF AfterChallengeText, Renders
    <2> QED BY <1>1, <2>1, ChallengeInconclusiveShape
<1>6. \A i \in 1..Len(rendered) : rendered[i] \in Renders
    OBVIOUS
<1>7. Fine({})
    OBVIOUS
<1> HIDE DEF Fine
<1>8. Fine(RendersDecide(StatedReason, rendered, Submitted, Filed))
    BY <1>2, <1>3, <1>4, <1>5, <1>6, <1>7 DEF RendersDecide
<1> QED BY <1>8 DEF Fine

\* A review that reached the model returns a well-formed result.
LEMMA JudgedReviewShape ==
    ASSUME NEW extracted \in BOOLEAN, NEW judgment \in ChallengeJudgments
    PROVE  ValidChallengeReviewShape(
                JudgedReview(StatedReason, Submitted, Filed, extracted, judgment))
<1>1. /\ StatedReason \in ChallengeReasonCodes
      /\ Submitted \in Digests /\ Filed \in Digests
      /\ Submitted # NoDigest /\ Filed # NoDigest
      /\ "[LLM_ERROR]" \in ChallengeErrorClasses \ {""}
    BY RecordAssumption, PageAssumption DEF ChallengeErrorClasses
<1>2. ValidChallengeReviewShape(
        ChallengeInconclusive(StatedReason, "[LLM_ERROR]", Submitted, Filed, TRUE))
    BY <1>1, ChallengeInconclusiveShape
<1>3. ASSUME judgment.outcome \in ChallengeOutcomes, judgment.reason_code = StatedReason
      PROVE  ValidChallengeReviewShape(
                ReviewResult(judgment.outcome, judgment.reason_code,
                             IF judgment.outcome = "INCONCLUSIVE" THEN "[LLM_ERROR]" ELSE "",
                             Submitted, Filed, TRUE))
    BY <1>1, <1>3 DEF ValidChallengeReviewShape, ReviewResult, Reviews, ChallengeOutcomes,
                      ChallengeErrorClasses
<1> QED BY <1>2, <1>3 DEF JudgedReview, NormalizeChallengeJudgment

-----------------------------------------------------------------------------
(***************************************************************************)
(* The inductive invariant.  A node has at most one result; an honest      *)
(* node's is well formed; and an honest node that agreed has run and has   *)
(* the leader's very result, which can no longer change.  Faulty nodes are *)
(* not constrained at all.                                                 *)
(***************************************************************************)
RoundInv ==
    /\ kind \in Kinds
    /\ leader \in Nodes
    /\ page \in Digests
    /\ evidence_page \in Digests
    /\ renders \in [Nodes -> Seq(Renders)]
    /\ computed = [v \in Nodes |-> computed[v]]
    /\ votes \in [Nodes -> {"none", "agree", "disagree"}]
    /\ \A v \in Nodes : computed[v] = {} \/ \E result : computed[v] = {result}
    /\ \A v \in Honest : \A result \in computed[v] : ValidShape(result)
    /\ votes[leader] = "none"
    /\ \A v \in Honest : votes[v] = "agree" =>
        /\ computed[v] = computed[leader]
        /\ \E result \in computed[leader] : ValidShape(result)

\* No node has rendered, computed or voted at first.
LEMMA RoundInvInit == Init => RoundInv
<1> SUFFICES ASSUME Init PROVE RoundInv
    OBVIOUS
<1>1. renders \in [Nodes -> Seq(Renders)]
    BY DEF Init
<1>2. /\ computed = [v \in Nodes |-> computed[v]]
      /\ \A v \in Nodes : computed[v] = {} /\ votes[v] = "none"
      /\ votes \in [Nodes -> {"none", "agree", "disagree"}]
    BY DEF Init
<1> QED BY <1>1, <1>2 DEF Init, RoundInv, Honest

\* A render keeps the invariant: what it decides is well formed.
LEMMA RenderStep ==
    ASSUME RoundInv, NEW v \in Nodes, Render(v)
    PROVE  RoundInv'
<1>1. PICK rendered \in {NextPage(v), "RAISED", "NOT_TEXT"} :
        /\ renders' = [renders EXCEPT ![v] = Append(renders[v], rendered)]
        /\ computed' = [computed EXCEPT ![v] = DecidedBy(renders'[v])]
    BY DEF Render
<1>2. /\ v \in Honest
      /\ computed[v] = {}
      /\ UNCHANGED <<kind, leader, page, evidence_page, edits, votes, served>>
    BY DEF Render, Running
<1>3. rendered \in Renders
    BY DEF RoundInv, NextPage, Renders
<1>4. /\ renders' \in [Nodes -> Seq(Renders)]
      /\ renders'[v] \in Seq(Renders)
      /\ Len(renders'[v]) > 0
    BY <1>1, <1>3 DEF RoundInv
<1>5. /\ DecidedBy(renders'[v]) = {} \/ \E result : DecidedBy(renders'[v]) = {result}
      /\ \A result \in DecidedBy(renders'[v]) : ValidShape(result)
    <2>1. renders'[v][1] \in Renders
        BY <1>4
    <2>2. ValidCommitment(RenderCommitment(renders'[v][1], kind = "submit"))
        BY <2>1, RenderCommitmentShape
    <2> QED BY <1>4, <2>2, RendersDecideShape DEF DecidedBy, ValidShape
<1>6. \A result : ValidShape(result) <=> ValidShape(result)'
    BY <1>2 DEF ValidShape
<1>7. votes[v] # "agree" /\ (v = leader => \A u \in Honest : votes[u] # "agree")
    BY <1>2 DEF RoundInv
<1>8. /\ computed'[v] = DecidedBy(renders'[v])
      /\ \A u \in Nodes \ {v} : computed'[u] = computed[u]
      /\ computed' = [u \in Nodes |-> computed'[u]]
    BY <1>1 DEF RoundInv
<1> QED BY <1>2, <1>4, <1>5, <1>6, <1>7, <1>8 DEF RoundInv, Honest

\* So does the model's answer.
LEMMA JudgeStep ==
    ASSUME RoundInv, NEW v \in Nodes, Judge(v)
    PROVE  RoundInv'
<1>1. /\ v \in Honest
      /\ computed[v] = {}
      /\ Len(renders[v]) = RendersNeeded
      /\ UNCHANGED <<kind, leader, page, evidence_page, edits, renders, votes, served>>
    BY DEF Judge, Running
<1>2. PICK result : /\ computed' = [computed EXCEPT ![v] = {result}]
                    /\ ValidShape(result)
    <2>1. CASE JudgeEvaluation(v)
        <3>1. PICK extracted \in BOOLEAN, judgment \in Judgments :
                computed' = [computed EXCEPT
                    ![v] = {EvaluateEvidence(renders[v][1], Submitted, extracted, judgment)}]
            BY <2>1 DEF JudgeEvaluation
        <3>2. kind = "evaluate" /\ Len(renders[v]) = 1 /\ renders[v] \in Seq(Renders)
            BY <1>1, <2>1 DEF JudgeEvaluation, RendersNeeded, RoundInv
        <3>3. renders[v][1] \in Renders
            BY <3>2
        <3> QED BY <3>1, <3>2, <3>3, EvaluateEvidenceShape DEF ValidShape
    <2>2. CASE JudgeReview(v)
        <3>1. PICK extracted \in BOOLEAN, judgment \in ChallengeJudgments :
                computed' = [computed EXCEPT
                    ![v] = {JudgedReview(StatedReason, Submitted, Filed, extracted, judgment)}]
            BY <2>2 DEF JudgeReview
        <3>2. kind = "review"
            BY <2>2 DEF JudgeReview
        <3> QED BY <3>1, <3>2, JudgedReviewShape DEF ValidShape
    <2> QED BY <2>1, <2>2 DEF Judge
<1>3. \A r : ValidShape(r) <=> ValidShape(r)'
    BY <1>1 DEF ValidShape
<1>4. votes[v] # "agree" /\ (v = leader => \A u \in Honest : votes[u] # "agree")
    BY <1>1 DEF RoundInv
<1>5. /\ computed'[v] = {result}
      /\ \A u \in Nodes \ {v} : computed'[u] = computed[u]
      /\ computed' = [u \in Nodes |-> computed'[u]]
    BY <1>2 DEF RoundInv
<1> QED BY <1>1, <1>2, <1>3, <1>4, <1>5 DEF RoundInv, Honest

\* A forgery is a faulty leader's, about which the invariant says nothing.
LEMMA ForgeStep ==
    ASSUME RoundInv, Forge
    PROVE  RoundInv'
<1>1. PICK result \in Forgeries[kind] : computed' = [computed EXCEPT ![leader] = {result}]
    BY DEF Forge
<1>2. /\ leader \in Faulty /\ leader \in Nodes
      /\ computed[leader] = {}
      /\ UNCHANGED <<kind, leader, page, evidence_page, edits, renders, votes, served>>
    BY DEF Forge, Proposal, RoundInv
<1>3. \A r : ValidShape(r) <=> ValidShape(r)'
    BY <1>2 DEF ValidShape
<1>4. \A u \in Honest : votes[u] # "agree"
    BY <1>2 DEF RoundInv
<1>5. /\ computed'[leader] = {result}
      /\ \A u \in Nodes \ {leader} : computed'[u] = computed[u]
      /\ computed' = [u \in Nodes |-> computed'[u]]
    BY <1>1, <1>2 DEF RoundInv
<1> QED BY <1>2, <1>3, <1>4, <1>5 DEF RoundInv, Honest

\* An honest vote to agree is for a result equal to the voter's own.
LEMMA VoteStep ==
    ASSUME RoundInv, NEW v \in Nodes, Vote(v)
    PROVE  RoundInv'
<1>1. /\ v # leader
      /\ UNCHANGED <<kind, leader, page, evidence_page, edits, renders, computed, served>>
    BY DEF Vote
<1>2. PICK vote \in {"agree", "disagree"} :
        /\ votes' = [votes EXCEPT ![v] = vote]
        /\ v \in Honest /\ vote = "agree" => Agrees(v)
    BY DEF Vote, Honest
<1>3. /\ votes' \in [Nodes -> {"none", "agree", "disagree"}]
      /\ votes'[v] = vote
      /\ \A u \in Nodes \ {v} : votes'[u] = votes[u]
    BY <1>2 DEF RoundInv
<1>4. \A r : ValidShape(r) <=> ValidShape(r)'
    BY <1>1 DEF ValidShape
<1>5. Agrees(v) => /\ computed[v] = computed[leader]
                   /\ \E result \in computed[leader] : ValidShape(result)
    <2> SUFFICES ASSUME Agrees(v)
                 PROVE  /\ computed[v] = computed[leader]
                        /\ \E result \in computed[leader] : ValidShape(result)
        OBVIOUS
    <2>1. PICK result \in computed[leader] : ValidShape(result) /\ result \in computed[v]
        BY DEF Agrees, Proposal
    <2>2. computed[v] = {result} /\ computed[leader] = {result}
        BY <2>1 DEF RoundInv
    <2> QED BY <2>1, <2>2
<1> QED BY <1>1, <1>2, <1>3, <1>4, <1>5 DEF RoundInv, Honest

\* An edit changes no node's result.
LEMMA EditStep ==
    ASSUME RoundInv, Edit
    PROVE  RoundInv'
<1>1. /\ page' \in Digests /\ evidence_page' \in Digests
      /\ UNCHANGED <<kind, leader, renders, computed, votes>>
    BY DEF RoundInv, Edit
<1>2. \A r : ValidShape(r) <=> ValidShape(r)'
    BY <1>1 DEF ValidShape
<1> QED BY <1>1, <1>2 DEF RoundInv

\* Every step of the round keeps the invariant.
LEMMA RoundInvStep == RoundInv /\ [Next]_vars => RoundInv'
<1> SUFFICES ASSUME RoundInv, [Next]_vars PROVE RoundInv'
    OBVIOUS
<1>1. ASSUME NEW v \in Nodes, Render(v) \/ Judge(v) \/ Vote(v) PROVE RoundInv'
    BY <1>1, RenderStep, JudgeStep, VoteStep
<1>2. CASE Forge \/ Edit
    BY <1>2, ForgeStep, EditStep
<1>3. CASE UNCHANGED vars
    <2>1. \A r : ValidShape(r) <=> ValidShape(r)'
        BY <1>3 DEF vars, ValidShape
    <2> QED BY <1>3, <2>1 DEF vars, RoundInv
<1> QED BY <1>1, <1>2, <1>3 DEF Next

\* A majority holds an honest node.
LEMMA MajorityIsPartlyHonest ==
    ASSUME NEW S \in SUBSET Nodes, 2 * Cardinality(S) > Cardinality(Nodes)
    PROVE  \E v \in S : v \in Honest
<1> SUFFICES ASSUME S \in SUBSET Faulty PROVE FALSE
    BY DEF Honest
<1>1. IsFiniteSet(Faulty)
    BY NodeAssumption, FS_Subset
<1>2. Cardinality(S) <= Cardinality(Faulty)
    BY <1>1, FS_Subset
<1>3. Cardinality(S) \in Nat /\ Cardinality(Faulty) \in Nat /\ Cardinality(Nodes) \in Nat
    BY <1>1, NodeAssumption, FS_Subset, FS_CardinalityType
<1> QED BY <1>2, <1>3, NodeAssumption

\* Whoever leads and however the faulty nodes vote, a result that is taken is
\* one that an honest node computed itself from what it was served.
THEOREM HonestResultsOnly == Spec => []AgreedWasComputedHonestly
<1>1. RoundInv => AgreedWasComputedHonestly
    <2> SUFFICES ASSUME RoundInv, NEW result \in Accepted
                 PROVE  \E v \in Honest : computed[v] = {result}
        BY DEF AgreedWasComputedHonestly
    <2> DEFINE S == {leader} \cup {v \in Nodes : votes[v] = "agree"}
    <2>1. S \in SUBSET Nodes /\ 2 * Cardinality(S) > Cardinality(Nodes) /\ result \in computed[leader]
        BY DEF RoundInv, Accepted, Proposal
    <2>2. PICK v \in S : v \in Honest
        BY <2>1, MajorityIsPartlyHonest
    <2>3. computed[v] = computed[leader]
        BY <2>2 DEF RoundInv
    <2>4. computed[leader] = {result}
        BY <2>1 DEF RoundInv
    <2> QED BY <2>2, <2>3, <2>4
<1> QED BY <1>1, RoundInvInit, RoundInvStep, PTL DEF Spec

\* The assertions that follow the four rounds never fail on a result that is
\* taken: whatever the web, the model and the faulty nodes answer, it is well
\* formed.
THEOREM AcceptedResultsAreWellFormed == Spec => []AgreedIsWellFormed
<1>1. RoundInv => AgreedIsWellFormed
    <2> SUFFICES ASSUME RoundInv, NEW result \in Accepted
                 PROVE  ValidShape(result)
        BY DEF AgreedIsWellFormed
    <2> DEFINE S == {leader} \cup {v \in Nodes : votes[v] = "agree"}
    <2>1. S \in SUBSET Nodes /\ 2 * Cardinality(S) > Cardinality(Nodes) /\ result \in computed[leader]
        BY DEF RoundInv, Accepted, Proposal
    <2>2. PICK v \in S : v \in Honest
        BY <2>1, MajorityIsPartlyHonest
    <2>3. CASE v = leader
        BY <2>1, <2>2, <2>3 DEF RoundInv
    <2>4. CASE votes[v] = "agree"
        BY <2>1, <2>2, <2>4 DEF RoundInv
    <2> QED BY <2>2, <2>3, <2>4
<1> QED BY <1>1, RoundInvInit, RoundInvStep, PTL DEF Spec

-----------------------------------------------------------------------------
(***************************************************************************)
(* The grounds of a result.  What an honest node has computed is about     *)
(* pages it was served, and what a review that still runs has seen is what *)
(* is on record.                                                           *)
(***************************************************************************)

\* What the page of the i-th render has been, and the digest on record for it.
ServedAt(i) == IF kind = "challenge" \/ i > 2 THEN served.evidence ELSE served.page

RecordedAt(i) == IF i > 2 THEN Filed ELSE Submitted

\* What may be said of the result of an honest node, method by method.
CommitmentGrounds(result) ==
    result.ok =>
        /\ result.evidence_hash \in IF kind = "submit" THEN served.page ELSE served.evidence
        /\ SizeOf[result.evidence_hash] = "bounded"
        /\ kind = "submit" /\ result.claim_tag_present => TagIn[result.evidence_hash]

EvaluationGrounds(result) ==
    /\ result.criteria_bits # <<>> =>
        result.evidence_hash = Submitted /\ Submitted \in served.page
    /\ result.decision = "REJECT" /\ result.criteria_bits = <<>> =>
        result.evidence_hash \in served.page /\ ~TagIn[result.evidence_hash]

TamperGrounds(result) ==
    /\ result.outcome = "UPHOLD"
    /\ result.reason_code = "SOURCE_TAMPERED"
    /\ result.original_hash \in served.page \ {Submitted}

ReviewGrounds(v, result) ==
    result.outcome # "INCONCLUSIVE" =>
        \/ TamperGrounds(result)
        \/ /\ result.reason_code = StatedReason
           /\ renders[v] = <<Submitted, Submitted, Filed, Filed>>

Grounded(v, result) ==
    CASE kind = "evaluate" -> EvaluationGrounds(result)
      [] kind = "review" -> ReviewGrounds(v, result)
      [] OTHER -> CommitmentGrounds(result)

\* Each page has been served since it has had its text; a node's renders are
\* of what was served; a review that still runs has seen what is on record;
\* and an honest result has its grounds.
GroundsInv ==
    /\ served \in [page: SUBSET Digests, evidence: SUBSET Digests]
    /\ page \in served.page /\ evidence_page \in served.evidence
    /\ edits \in 0..MaxEdits
    /\ \A v \in Nodes : Len(renders[v]) <= RendersNeeded
    /\ \A v \in Honest : \A i \in 1..Len(renders[v]) :
        IsText(renders[v][i]) => renders[v][i] \in ServedAt(i)
    /\ kind = "review" => \A v \in Honest : computed[v] = {} =>
        \A i \in 1..Len(renders[v]) : IsText(renders[v][i]) /\ renders[v][i] = RecordedAt(i)
    /\ \A v \in Honest : \A result \in computed[v] : Grounded(v, result)

\* A commitment to a page is ok only for a bounded text, which it names.
LEMMA CommitmentIsOfItsRender ==
    ASSUME NEW render \in Renders, NEW tag_required \in BOOLEAN,
           RenderCommitment(render, tag_required).ok
    PROVE  LET result == RenderCommitment(render, tag_required)
           IN  /\ IsText(render)
               /\ result.evidence_hash = render
               /\ SizeOf[render] = "bounded"
               /\ result.claim_tag_present = (tag_required => TagIn[render])
<1>1. IsText(render)
    BY DEF RenderCommitment, Refused
<1>2. SizeOf[render] \in {"empty", "bounded", "oversized"}
    BY <1>1, PageAssumption DEF Renders, IsText
<1>3. SizeOf[render] = "bounded"
    BY <1>1, <1>2 DEF RenderCommitment, Refused
<1> QED BY <1>1, <1>3 DEF RenderCommitment

\* Neither the first criteria bit nor a rejection for unmet criteria is there
\* without a page that has the tag and the digest on record.
LEMMA EvaluationHasGrounds ==
    ASSUME NEW render \in Renders, NEW extracted \in BOOLEAN, NEW judgment \in Judgments
    PROVE  LET result == EvaluateEvidence(render, Submitted, extracted, judgment)
           IN  /\ result.criteria_bits # <<>> =>
                    IsText(render) /\ render = Submitted /\ result.evidence_hash = Submitted
               /\ result.decision = "REJECT" /\ result.criteria_bits = <<>> =>
                    IsText(render) /\ ~TagIn[render] /\ result.evidence_hash = render
<1> DEFINE result == EvaluateEvidence(render, Submitted, extracted, judgment)
           bits == [i \in 1..CRITERION_COUNT |-> IF judgment.items[i] = "met" THEN 1 ELSE 0]
<1>1. ASSUME NEW hash, NEW reason, NEW tag, result = InconclusiveResult(hash, reason, tag)
      PROVE  result.criteria_bits = <<>> /\ result.decision # "REJECT"
    BY <1>1 DEF InconclusiveResult
<1>2. bits # <<>>
    <2>1. 1 \in DOMAIN bits
        BY RubricAssumption
    <2> QED BY <2>1
<1>3. \/ \E hash, reason, tag : result = InconclusiveResult(hash, reason, tag)
      \/ IsText(render) /\ ~TagIn[render] /\ result = RejectedResult(render, "CLAIM_TAG_MISSING")
      \/ IsText(render) /\ render = Submitted /\ result = NormalizeJudgment(judgment, render)
    BY DEF EvaluateEvidence
<1>4. CASE \E hash, reason, tag : result = InconclusiveResult(hash, reason, tag)
    BY <1>1, <1>4
<1>5. CASE IsText(render) /\ ~TagIn[render] /\ result = RejectedResult(render, "CLAIM_TAG_MISSING")
    BY <1>5 DEF RejectedResult
<1>6. CASE IsText(render) /\ render = Submitted /\ result = NormalizeJudgment(judgment, render)
    <2>1. \/ \E hash, reason, tag :
                NormalizeJudgment(judgment, render) = InconclusiveResult(hash, reason, tag)
          \/ /\ NormalizeJudgment(judgment, render).criteria_bits = bits
             /\ NormalizeJudgment(judgment, render).evidence_hash = render
        BY DEF NormalizeJudgment
    <2>2. CASE \E hash, reason, tag : result = InconclusiveResult(hash, reason, tag)
        BY <1>4, <2>2
    <2>3. CASE result.criteria_bits = bits /\ result.evidence_hash = render
        <3>1. result.criteria_bits # <<>> /\ result.evidence_hash = Submitted
            <4> HIDE DEF bits, result
            <4> QED BY <1>2, <1>6, <2>3
        <3> QED BY <1>6, <3>1
    <2> HIDE DEF bits, result
    <2> QED BY <1>6, <2>1, <2>2, <2>3
<1> QED BY <1>3, <1>4, <1>5, <1>6

\* A review that its renders end found another text on the submission's page,
\* or found nothing it can rule on.
LEMMA RendersEndForTampering ==
    ASSUME NEW rendered \in Seq(Renders), Len(rendered) > 0,
           NEW result \in RendersDecide(StatedReason, rendered, Submitted, Filed),
           result.outcome # "INCONCLUSIVE"
    PROVE  /\ result.outcome = "UPHOLD"
           /\ result.reason_code = "SOURCE_TAMPERED"
           /\ result.original_hash # Submitted
           /\ \E i \in 1..Len(rendered) :
                i <= 2 /\ IsText(rendered[i]) /\ result.original_hash = rendered[i]
<1> DEFINE Tampering(render) ==
        /\ IsText(render) /\ render # Submitted
        /\ \E tag : result = Tampered(render, tag)
<1>1. \A reason, class, original, evidence, tag :
        result # ChallengeInconclusive(reason, class, original, evidence, tag)
    BY DEF ChallengeInconclusive, ReviewResult
<1>2. TagIn[Submitted] /\ SizeOf[Submitted] = "bounded"
    BY RecordAssumption
<1>3. ASSUME NEW render \in Renders,
             result \in AfterOriginalCommitment(StatedReason, render, Submitted)
      PROVE  Tampering(render)
    <2> DEFINE original == RenderCommitment(render, TRUE)
    <2>1. /\ ValidCommitment(original)
          /\ original.reason_code # "FETCH_FAILED"
        BY <1>1, <1>3, RenderCommitmentShape DEF AfterOriginalCommitment
    <2>2. /\ IsText(render)
          /\ original.evidence_hash = render
        BY <2>1, PageAssumption DEF RenderCommitment, Refused, Renders, IsText
    <2>3. render = Submitted => original.ok /\ original.claim_tag_present
        BY <1>2, <2>2 DEF RenderCommitment
    <2>4. original.ok /\ original.evidence_hash = Submitted => original.claim_tag_present
        BY <2>2, <2>3
    <2>5. /\ original.evidence_hash # Submitted \/ ~original.ok
          /\ result = Tampered(original.evidence_hash, original.claim_tag_present)
        BY <1>3, <2>1, <2>4 DEF AfterOriginalCommitment
    <2> QED BY <2>2, <2>3, <2>5
<1>4. ASSUME NEW render \in Renders,
             result \in AfterOriginalText(StatedReason, render, Submitted)
      PROVE  Tampering(render)
    BY <1>1, <1>2, <1>4 DEF AfterOriginalText, IsText
<1>5. ASSUME NEW render, result \in AfterChallengeCommitment(StatedReason, render, Submitted, Filed)
      PROVE  FALSE
    BY <1>1, <1>5 DEF AfterChallengeCommitment
<1>6. ASSUME NEW render, result \in AfterChallengeText(StatedReason, render, Submitted, Filed)
      PROVE  FALSE
    BY <1>1, <1>6 DEF AfterChallengeText
<1>7. \A i \in 1..Len(rendered) : rendered[i] \in Renders
    OBVIOUS
<1> HIDE DEF Tampering
<1>8. PICK i \in 1..Len(rendered) : i <= 2 /\ Tampering(rendered[i])
    BY <1>3, <1>4, <1>5, <1>6, <1>7 DEF RendersDecide
<1>9. PICK tag : result = Tampered(rendered[i], tag)
    BY <1>8 DEF Tampering
<1>10. /\ result.outcome = "UPHOLD"
       /\ result.reason_code = "SOURCE_TAMPERED"
       /\ result.original_hash = rendered[i]
    BY <1>9, Zenon DEF Tampered, ReviewResult
<1> QED BY <1>8, <1>10 DEF Tampering

\* A review that goes on has seen what is on record in its latest render.
LEMMA UndecidedSawTheRecord ==
    ASSUME NEW rendered \in Seq(Renders), Len(rendered) \in 1..4,
           RendersDecide(StatedReason, rendered, Submitted, Filed) = {}
    PROVE  /\ IsText(rendered[Len(rendered)])
           /\ rendered[Len(rendered)] = RecordedAt(Len(rendered))
<1>1. rendered[Len(rendered)] \in Renders
    OBVIOUS
<1>2. ASSUME NEW render \in Renders, AfterOriginalCommitment(StatedReason, render, Submitted) = {}
      PROVE  IsText(render) /\ render = Submitted
    <2> DEFINE original == RenderCommitment(render, TRUE)
    <2>1. original.ok /\ original.evidence_hash = Submitted
        BY <1>2 DEF AfterOriginalCommitment
    <2> QED BY <2>1, CommitmentIsOfItsRender
<1>3. ASSUME NEW render \in Renders, AfterOriginalText(StatedReason, render, Submitted) = {}
      PROVE  IsText(render) /\ render = Submitted
    BY <1>3 DEF AfterOriginalText, IsText
<1>4. ASSUME NEW render \in Renders,
             AfterChallengeCommitment(StatedReason, render, Submitted, Filed) = {}
      PROVE  IsText(render) /\ render = Filed
    <2> DEFINE evidence == RenderCommitment(render, FALSE)
    <2>1. evidence.ok /\ evidence.evidence_hash = Filed
        BY <1>4 DEF AfterChallengeCommitment
    <2> QED BY <2>1, CommitmentIsOfItsRender
<1>5. ASSUME NEW render \in Renders, AfterChallengeText(StatedReason, render, Submitted, Filed) = {}
      PROVE  IsText(render) /\ render = Filed
    BY <1>5 DEF AfterChallengeText, IsText
<1>6. CASE Len(rendered) = 1
    BY <1>1, <1>2, <1>6 DEF RendersDecide, RecordedAt
<1>7. CASE Len(rendered) = 2
    BY <1>1, <1>3, <1>7 DEF RendersDecide, RecordedAt
<1>8. CASE Len(rendered) = 3
    BY <1>1, <1>4, <1>8 DEF RendersDecide, RecordedAt
<1>9. CASE Len(rendered) = 4
    BY <1>1, <1>5, <1>9 DEF RendersDecide, RecordedAt
<1> QED BY <1>6, <1>7, <1>8, <1>9

\* The model is asked about the stated reason, and may rule on no other.
LEMMA JudgedReviewKeepsItsReason ==
    ASSUME NEW extracted, NEW judgment,
           JudgedReview(StatedReason, Submitted, Filed, extracted, judgment).outcome
                # "INCONCLUSIVE"
    PROVE  JudgedReview(StatedReason, Submitted, Filed, extracted, judgment).reason_code
                = StatedReason
<1>1. \A class : ChallengeInconclusive(StatedReason, class, Submitted, Filed, TRUE).outcome
                    = "INCONCLUSIVE"
    BY DEF ChallengeInconclusive, ReviewResult
<1>2. \A outcome, class : ReviewResult(outcome, StatedReason, class, Submitted, Filed, TRUE).reason_code
                    = StatedReason
    BY DEF ReviewResult
<1> QED BY <1>1, <1>2 DEF JudgedReview, NormalizeChallengeJudgment

\* Grounds outlast whatever is served later.
LEMMA GroundsLast ==
    ASSUME NEW v, NEW result, Grounded(v, result),
           kind' = kind, renders'[v] = renders[v],
           served.page \subseteq served.page', served.evidence \subseteq served.evidence'
    PROVE  Grounded(v, result)'
<1>1. CASE kind = "evaluate"
    BY <1>1 DEF Grounded, EvaluationGrounds
<1>2. CASE kind = "review"
    BY <1>2 DEF Grounded, ReviewGrounds, TamperGrounds
<1>3. CASE kind # "evaluate" /\ kind # "review"
    BY <1>3 DEF Grounded, CommitmentGrounds
<1> QED BY <1>1, <1>2, <1>3

\* Nothing has been rendered at first, and each page has had one text.
LEMMA GroundsInit == Init => GroundsInv
    BY RecordAssumption DEF Init, GroundsInv, Honest, RendersNeeded

\* A forgery, a vote and a stutter leave the renders and the results of the
\* honest nodes alone.
LEMMA GroundsUntouched ==
    ASSUME GroundsInv,
           UNCHANGED <<kind, page, evidence_page, edits, renders, served>>,
           \A v \in Honest : computed'[v] = computed[v]
    PROVE  GroundsInv'
<1>1. \A v \in Honest : \A result \in computed[v] : Grounded(v, result)'
    BY GroundsLast DEF GroundsInv
<1>2. \A i : ServedAt(i)' = ServedAt(i)
    BY DEF ServedAt
<1>3. \A i : RecordedAt(i)' = RecordedAt(i)
    BY DEF RecordedAt
<1>4. RendersNeeded' = RendersNeeded
    BY DEF RendersNeeded
<1>5. \A render : IsText(render)' <=> IsText(render)
    BY DEF IsText
<1> QED BY <1>1, <1>2, <1>3, <1>4, <1>5 DEF GroundsInv, Honest

\* An edit adds to what each page has been.
LEMMA GroundsEdited ==
    ASSUME GroundsInv, Edit
    PROVE  GroundsInv'
<1>1. /\ UNCHANGED <<kind, leader, renders, computed, votes>>
      /\ edits' = edits + 1 /\ edits < MaxEdits
    BY DEF Edit
<1>2. /\ served' \in [page: SUBSET Digests, evidence: SUBSET Digests]
      /\ page' \in served'.page /\ evidence_page' \in served'.evidence
      /\ served.page \subseteq served'.page /\ served.evidence \subseteq served'.evidence
    BY DEF Edit, GroundsInv
<1>3. \A v \in Honest : \A result \in computed[v] : Grounded(v, result)'
    BY <1>1, <1>2, GroundsLast DEF GroundsInv
<1>4. \A i : ServedAt(i) \subseteq ServedAt(i)'
    BY <1>1, <1>2 DEF ServedAt
<1>5. \A i : RecordedAt(i)' = RecordedAt(i)
    BY DEF RecordedAt
<1>6. RendersNeeded' = RendersNeeded
    BY <1>1 DEF RendersNeeded
<1>7. edits' \in 0..MaxEdits
    BY <1>1, RecordAssumption DEF GroundsInv
<1> QED BY <1>1, <1>2, <1>3, <1>4, <1>5, <1>6, <1>7 DEF GroundsInv, Honest

\* The page a render gives is the one that is served now.
LEMMA NextPageIsServed ==
    ASSUME RoundInv, GroundsInv, NEW v \in Nodes
    PROVE  NextPage(v) \in ServedAt(Len(renders[v]) + 1)
<1>1. Len(renders[v]) \in Nat
    BY DEF RoundInv
<1> QED BY <1>1 DEF GroundsInv, NextPage, ServedAt

\* What an honest node decides from its renders alone has its grounds, and
\* what does not decide a review is on record.
LEMMA GroundsRendered ==
    ASSUME RoundInv, GroundsInv, NEW v \in Nodes, Render(v)
    PROVE  GroundsInv'
<1> DEFINE n == Len(renders[v])
<1>1. /\ v \in Honest
      /\ computed[v] = {}
      /\ n < RendersNeeded
      /\ UNCHANGED <<kind, leader, page, evidence_page, edits, votes, served>>
    BY DEF Render, Running
<1>2. PICK rendered \in {NextPage(v), "RAISED", "NOT_TEXT"} :
        /\ renders' = [renders EXCEPT ![v] = Append(renders[v], rendered)]
        /\ computed' = [computed EXCEPT ![v] = DecidedBy(renders'[v])]
    BY DEF Render
<1>3. /\ renders[v] \in Seq(Renders) /\ n \in Nat
      /\ rendered \in Renders
    BY DEF RoundInv, NextPage, Renders
<1>4. /\ renders'[v] = Append(renders[v], rendered)
      /\ \A u \in Nodes \ {v} : renders'[u] = renders[u] /\ computed'[u] = computed[u]
      /\ computed'[v] = DecidedBy(renders'[v])
    BY <1>2 DEF RoundInv
<1>5. /\ renders'[v] \in Seq(Renders)
      /\ Len(renders'[v]) = n + 1
      /\ \A i \in 1..n : renders'[v][i] = renders[v][i]
      /\ renders'[v][n + 1] = rendered
    BY <1>3, <1>4
<1>6. /\ \A i : ServedAt(i)' = ServedAt(i)
      /\ \A i : RecordedAt(i)' = RecordedAt(i)
      /\ RendersNeeded' = RendersNeeded
    BY <1>1 DEF ServedAt, RecordedAt, RendersNeeded
<1>7. \A i \in 1..(n + 1) : IsText(renders'[v][i]) => renders'[v][i] \in ServedAt(i)
    <2>1. IsText(rendered) => rendered \in ServedAt(n + 1)
        BY NextPageIsServed DEF IsText
    <2> QED BY <1>1, <1>3, <1>5, <2>1 DEF GroundsInv
<1>8. CASE kind = "review"
    <2>1. computed'[v] = RendersDecide(StatedReason, renders'[v], Submitted, Filed)
        BY <1>4, <1>8 DEF DecidedBy
    <2>2. n + 1 \in 1..4
        BY <1>1, <1>3, <1>8 DEF RendersNeeded
    <2>3. computed'[v] = {} =>
            \A i \in 1..(n + 1) : IsText(renders'[v][i]) /\ renders'[v][i] = RecordedAt(i)
        <3> SUFFICES ASSUME computed'[v] = {}, NEW i \in 1..(n + 1)
                     PROVE  IsText(renders'[v][i]) /\ renders'[v][i] = RecordedAt(i)
            OBVIOUS
        <3>1. CASE i \in 1..n
            BY <1>1, <1>5, <1>8, <3>1 DEF GroundsInv
        <3>2. CASE i = n + 1
            BY <1>5, <2>1, <2>2, <3>2, UndecidedSawTheRecord
        <3> QED BY <1>3, <3>1, <3>2
    <2>4. ASSUME NEW result \in computed'[v]
          PROVE  Grounded(v, result)'
        <3>1. CASE result.outcome = "INCONCLUSIVE"
            BY <1>1, <1>8, <3>1 DEF Grounded, ReviewGrounds
        <3>2. CASE result.outcome # "INCONCLUSIVE"
            <4>1. /\ result.outcome = "UPHOLD"
                  /\ result.reason_code = "SOURCE_TAMPERED"
                  /\ result.original_hash # Submitted
                  /\ \E i \in 1..(n + 1) :
                        i <= 2 /\ IsText(renders'[v][i]) /\ result.original_hash = renders'[v][i]
                BY <1>5, <2>1, <2>2, <2>4, <3>2, RendersEndForTampering
            <4>2. result.original_hash \in served.page
                BY <1>7, <1>8, <4>1 DEF ServedAt
            <4> QED BY <1>1, <1>8, <4>1, <4>2 DEF Grounded, ReviewGrounds, TamperGrounds
        <3> QED BY <3>1, <3>2
    <2>5. \A u \in Honest : \A result \in computed'[u] : Grounded(u, result)'
        BY <1>1, <1>4, <2>4, GroundsLast DEF GroundsInv, Honest
    <2>6. \A u \in Nodes : Len(renders'[u]) <= RendersNeeded
        BY <1>1, <1>3, <1>4, <1>5, <1>8 DEF GroundsInv, RendersNeeded
    <2>7. \A u \in Honest : \A i \in 1..Len(renders'[u]) :
            IsText(renders'[u][i]) => renders'[u][i] \in ServedAt(i)
        BY <1>4, <1>5, <1>7 DEF GroundsInv, Honest
    <2>8. \A u \in Honest : computed'[u] = {} =>
            \A i \in 1..Len(renders'[u]) : IsText(renders'[u][i]) /\ renders'[u][i] = RecordedAt(i)
        BY <1>4, <1>5, <1>8, <2>3 DEF GroundsInv, Honest
    <2> QED BY <1>1, <1>6, <2>5, <2>6, <2>7, <2>8 DEF GroundsInv, Honest, IsText
<1>9. CASE kind # "review"
    <2>1. n = 0
        BY <1>1, <1>3, <1>9 DEF RendersNeeded
    <2>2. ASSUME NEW result \in computed'[v]
          PROVE  Grounded(v, result)'
        <3>1. kind # "evaluate" /\ result = RenderCommitment(renders'[v][1], kind = "submit")
            BY <1>4, <1>9, <2>2 DEF DecidedBy
        <3>2. kind \in {"submit", "challenge"}
            BY <1>9, <3>1, RecordAssumption DEF RoundInv
        <3>3. renders'[v][1] \in Renders
            BY <1>3, <1>5, <2>1
        <3>4. result.ok =>
                /\ IsText(renders'[v][1])
                /\ result.evidence_hash = renders'[v][1]
                /\ SizeOf[renders'[v][1]] = "bounded"
                /\ result.claim_tag_present = (kind = "submit" => TagIn[renders'[v][1]])
            BY <3>1, <3>3, CommitmentIsOfItsRender
        <3>5. IsText(renders'[v][1]) =>
                renders'[v][1] \in IF kind = "submit" THEN served.page ELSE served.evidence
            BY <1>7, <2>1, <3>2 DEF ServedAt
        <3>6. CommitmentGrounds(result)
            BY <3>4, <3>5 DEF CommitmentGrounds
        <3> QED BY <1>1, <1>9, <3>1, <3>6 DEF Grounded, CommitmentGrounds
    <2>3. \A u \in Honest : \A result \in computed'[u] : Grounded(u, result)'
        BY <1>1, <1>4, <2>2, GroundsLast DEF GroundsInv, Honest
    <2>4. \A u \in Nodes : Len(renders'[u]) <= RendersNeeded
        BY <1>1, <1>3, <1>4, <1>5, <1>9 DEF GroundsInv, RendersNeeded
    <2>5. \A u \in Honest : \A i \in 1..Len(renders'[u]) :
            IsText(renders'[u][i]) => renders'[u][i] \in ServedAt(i)
        BY <1>4, <1>5, <1>7 DEF GroundsInv, Honest
    <2> QED BY <1>1, <1>6, <1>9, <2>3, <2>4, <2>5 DEF GroundsInv, Honest, IsText
<1> QED BY <1>8, <1>9

\* What the model answers has its grounds in what was rendered before.
LEMMA GroundsJudged ==
    ASSUME RoundInv, GroundsInv, NEW v \in Nodes, Judge(v)
    PROVE  GroundsInv'
<1>1. /\ v \in Honest
      /\ computed[v] = {}
      /\ Len(renders[v]) = RendersNeeded
      /\ UNCHANGED <<kind, leader, page, evidence_page, edits, renders, votes, served>>
    BY DEF Judge, Running
<1>2. renders[v] \in Seq(Renders)
    BY DEF RoundInv
<1>3. PICK result : computed' = [computed EXCEPT ![v] = {result}] /\ Grounded(v, result)
    <2>1. CASE JudgeEvaluation(v)
        <3>1. PICK extracted \in BOOLEAN, judgment \in Judgments :
                computed' = [computed EXCEPT
                    ![v] = {EvaluateEvidence(renders[v][1], Submitted, extracted, judgment)}]
            BY <2>1 DEF JudgeEvaluation
        <3>2. kind = "evaluate" /\ Len(renders[v]) = 1
            BY <1>1, <2>1 DEF JudgeEvaluation, RendersNeeded
        <3>3. renders[v][1] \in Renders
            BY <1>2, <3>2
        <3>4. IsText(renders[v][1]) => renders[v][1] \in served.page
            BY <1>1, <3>2 DEF GroundsInv, ServedAt
        <3>5. EvaluationGrounds(EvaluateEvidence(renders[v][1], Submitted, extracted, judgment))
            BY <3>3, <3>4, EvaluationHasGrounds DEF EvaluationGrounds
        <3> QED BY <3>1, <3>2, <3>5 DEF Grounded
    <2>2. CASE JudgeReview(v)
        <3>1. PICK extracted \in BOOLEAN, judgment \in ChallengeJudgments :
                computed' = [computed EXCEPT
                    ![v] = {JudgedReview(StatedReason, Submitted, Filed, extracted, judgment)}]
            BY <2>2 DEF JudgeReview
        <3>2. kind = "review" /\ Len(renders[v]) = 4
            BY <1>1, <2>2 DEF JudgeReview, RendersNeeded
        <3>3. \A i \in 1..4 : renders[v][i] = RecordedAt(i)
            BY <1>1, <3>2 DEF GroundsInv
        <3>4. /\ renders[v][1] = Submitted /\ renders[v][2] = Submitted
              /\ renders[v][3] = Filed /\ renders[v][4] = Filed
            BY <3>3 DEF RecordedAt
        <3>5. renders[v] = <<Submitted, Submitted, Filed, Filed>>
            BY <1>2, <3>2, <3>4
        <3>6. ReviewGrounds(v, JudgedReview(StatedReason, Submitted, Filed, extracted, judgment))
            BY <3>5, JudgedReviewKeepsItsReason DEF ReviewGrounds
        <3> QED BY <3>1, <3>2, <3>6 DEF Grounded
    <2> QED BY <2>1, <2>2 DEF Judge
<1>4. /\ computed'[v] = {result}
      /\ \A u \in Nodes \ {v} : computed'[u] = computed[u]
    BY <1>3 DEF RoundInv
<1>5. Grounded(v, result)'
    BY <1>1, <1>3, GroundsLast
<1>6. \A u \in Honest : \A r \in computed'[u] : Grounded(u, r)'
    BY <1>1, <1>4, <1>5, GroundsLast DEF GroundsInv, Honest
<1>7. /\ \A i : ServedAt(i)' = ServedAt(i)
      /\ \A i : RecordedAt(i)' = RecordedAt(i)
      /\ RendersNeeded' = RendersNeeded
    BY <1>1 DEF ServedAt, RecordedAt, RendersNeeded
<1> QED BY <1>1, <1>4, <1>6, <1>7 DEF GroundsInv, Honest, IsText

\* Every step of the round keeps both invariants.
LEMMA GroundsStep == RoundInv /\ GroundsInv /\ [Next]_vars => GroundsInv'
<1> SUFFICES ASSUME RoundInv, GroundsInv, [Next]_vars PROVE GroundsInv'
    OBVIOUS
<1>1. ASSUME NEW v \in Nodes, Render(v) PROVE GroundsInv'
    BY <1>1, GroundsRendered
<1>2. ASSUME NEW v \in Nodes, Judge(v) PROVE GroundsInv'
    BY <1>2, GroundsJudged
<1>3. ASSUME NEW v \in Nodes, Vote(v) PROVE GroundsInv'
    BY <1>3, GroundsUntouched DEF Vote
<1>4. CASE Forge
    <2>1. PICK result : computed' = [computed EXCEPT ![leader] = {result}]
        BY <1>4 DEF Forge
    <2>2. \A v \in Honest : computed'[v] = computed[v]
        BY <1>4, <2>1 DEF Forge, RoundInv, Honest
    <2> QED BY <1>4, <2>2, GroundsUntouched DEF Forge
<1>5. CASE Edit
    BY <1>5, GroundsEdited
<1>6. CASE UNCHANGED vars
    BY <1>6, GroundsUntouched DEF vars
<1> QED BY <1>1, <1>2, <1>3, <1>4, <1>5, <1>6 DEF Next

\* Both invariants hold throughout, and with them what the accepted result
\* is worth: an honest node computed it.
LEMMA RoundInvariant == Spec => [](RoundInv /\ GroundsInv /\ AgreedWasComputedHonestly)
    BY RoundInvInit, RoundInvStep, GroundsInit, GroundsStep, HonestResultsOnly, PTL DEF Spec

\* An accepted result has the grounds of the honest node that computed it.
LEMMA AcceptedIsGrounded ==
    ASSUME GroundsInv, AgreedWasComputedHonestly, NEW result \in Accepted
    PROVE  \E v \in Honest : computed[v] = {result} /\ Grounded(v, result)
    BY DEF GroundsInv, AgreedWasComputedHonestly

\* A commitment that a round takes as ok names a bounded text that the page was
\* serving during that very round, and a submission's has the claim tag if it
\* says so, whoever led it (submit_content, challenge_submission).
THEOREM CommitmentsWereServed == Spec => []CommittedPageWasServed
<1>1. GroundsInv /\ AgreedWasComputedHonestly => CommittedPageWasServed
    BY AcceptedIsGrounded DEF CommittedPageWasServed, Grounded, CommitmentGrounds
<1> QED BY <1>1, RoundInvariant, PTL

\* No submission is judged, or rejected for its claim tag, on anything but the
\* text it committed to or a text without the tag that its page did serve: a
\* page that fails to load or is edited is never held against its criteria
\* (evaluate_submission).
THEOREM VerdictsAreAboutTheCommittedPage == Spec => []VerdictIsAboutTheCommittedPage
<1>1. GroundsInv /\ AgreedWasComputedHonestly => VerdictIsAboutTheCommittedPage
    <2> SUFFICES ASSUME GroundsInv, AgreedWasComputedHonestly,
                        kind = "evaluate", NEW result \in Accepted
                 PROVE  /\ result.criteria_bits # <<>> =>
                            result.evidence_hash = Submitted /\ Submitted \in served.page
                        /\ result.decision = "REJECT" /\ result.criteria_bits = <<>> =>
                            \E text \in served.page :
                                ~TagIn[text] /\ result.evidence_hash = text
        BY DEF VerdictIsAboutTheCommittedPage
    <2>1. EvaluationGrounds(result)
        BY AcceptedIsGrounded DEF Grounded
    <2> QED BY <2>1 DEF EvaluationGrounds
<1> QED BY <1>1, RoundInvariant, PTL

\* A review ends a challenge only on a text of the submission's page other than
\* the one submitted, or on the stated reason after an honest node read both
\* texts on record twice (review_challenge).
THEOREM ReviewsHaveGrounds == Spec => []ReviewHasGrounds
<1>1. GroundsInv /\ AgreedWasComputedHonestly => ReviewHasGrounds
    <2> SUFFICES ASSUME GroundsInv, AgreedWasComputedHonestly,
                        kind = "review", NEW result \in Accepted, result.outcome # "INCONCLUSIVE"
                 PROVE  \/ TamperGrounds(result)
                        \/ /\ result.reason_code = StatedReason
                           /\ \E v \in Honest :
                                /\ computed[v] = {result}
                                /\ renders[v] = <<Submitted, Submitted, Filed, Filed>>
        BY DEF ReviewHasGrounds, TamperGrounds
    <2>1. PICK v \in Honest : computed[v] = {result} /\ ReviewGrounds(v, result)
        BY AcceptedIsGrounded DEF Grounded
    <2> QED BY <2>1 DEF ReviewGrounds
<1> QED BY <1>1, RoundInvariant, PTL

-----------------------------------------------------------------------------
\* What a faulty node has computed is a forgery.
ForgeriesOnly ==
    \A v \in Faulty : \A result \in computed[v] : result \in UNION {Forgeries[k] : k \in Kinds}

\* No honest node ever computes for a faulty one.
LEMMA ForgeriesStep == RoundInv /\ ForgeriesOnly /\ [Next]_vars => ForgeriesOnly'
<1> SUFFICES ASSUME RoundInv, ForgeriesOnly, [Next]_vars PROVE ForgeriesOnly'
    OBVIOUS
<1>1. ASSUME NEW v \in Nodes, Render(v) \/ Judge(v) PROVE ForgeriesOnly'
    <2>1. v \in Honest
        BY <1>1 DEF Render, Judge, Running
    <2>2. \E results : computed' = [computed EXCEPT ![v] = results]
        BY <1>1 DEF Render, Judge, JudgeEvaluation, JudgeReview
    <2>3. \A u \in Faulty : computed'[u] = computed[u]
        BY <2>1, <2>2, NodeAssumption DEF RoundInv, Honest
    <2> QED BY <2>3 DEF ForgeriesOnly
<1>2. CASE Forge
    <2>1. PICK result \in Forgeries[kind] : computed' = [computed EXCEPT ![leader] = {result}]
        BY <1>2 DEF Forge
    <2>2. \A v \in Faulty : computed'[v] = IF v = leader THEN {result} ELSE computed[v]
        BY <2>1, NodeAssumption DEF RoundInv
    <2>3. kind \in Kinds
        BY DEF RoundInv
    <2> QED BY <2>1, <2>2, <2>3 DEF ForgeriesOnly
<1>3. ASSUME UNCHANGED computed PROVE ForgeriesOnly'
    BY <1>3 DEF ForgeriesOnly
<1> QED BY <1>1, <1>2, <1>3 DEF Next, Vote, Edit, vars

\* Every variable keeps its type if what faulty leaders propose is typed at all:
\* a node has at most one result, and no run renders more often than it needs.
THEOREM RoundTypeCorrect ==
    ASSUME \A k \in Kinds : Forgeries[k] \subseteq Results
    PROVE  Spec => []TypeOK
<1>1. Init => ForgeriesOnly
    BY NodeAssumption DEF Init, ForgeriesOnly
<1>2. RoundInv /\ GroundsInv /\ ForgeriesOnly => TypeOK
    <2> SUFFICES ASSUME RoundInv, GroundsInv, ForgeriesOnly PROVE TypeOK
        OBVIOUS
    <2>1. \A v \in Nodes : computed[v] \subseteq Results
        <3>1. \A v \in Honest : computed[v] \subseteq Results
            BY DEF RoundInv, ValidShape, ValidEvaluationShape, ValidChallengeReviewShape,
                   ValidCommitment, Results
        <3>2. \A v \in Faulty : computed[v] \subseteq Results
            BY DEF ForgeriesOnly
        <3> QED BY <3>1, <3>2 DEF Honest
    <2>2. \A v \in Nodes : Cardinality(computed[v]) <= 1
        <3> SUFFICES ASSUME NEW v \in Nodes PROVE Cardinality(computed[v]) <= 1
            OBVIOUS
        <3>1. CASE computed[v] = {}
            BY <3>1, FS_EmptySet
        <3>2. CASE \E result : computed[v] = {result}
            <4>1. PICK result : computed[v] = {result}
                BY <3>2
            <4>2. Cardinality({result}) = 1
                BY FS_Singleton
            <4> QED BY <4>1, <4>2
        <3> QED BY <3>1, <3>2 DEF RoundInv
    <2>3. computed \in [Nodes -> SUBSET Results]
        BY <2>1 DEF RoundInv
    <2> QED BY <2>2, <2>3 DEF TypeOK, RoundInv, GroundsInv
<1> QED BY <1>1, <1>2, RoundInvariant, ForgeriesStep, PTL DEF Spec
=============================================================================
