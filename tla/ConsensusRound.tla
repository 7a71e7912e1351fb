--------------------------- MODULE ConsensusRound ---------------------------
(***************************************************************************)
(* One round of gl.vm.run_nondet_unsafe(leader_fn, validator_fn) for each  *)
(* of the four methods that call it: submit_content, evaluate_submission,  *)
(* challenge_submission and review_challenge.  A leader computes a result  *)
(* and every validator computes its own, at another time, from a page that *)
(* may have been edited or fail to load in between; a validator agrees     *)
(* only with a well-formed result equal to its own.                        *)
(*                                                                         *)
(* The round itself is GenLayer's: a leader whose result a majority of the *)
(* nodes stands behind, itself included, is taken.  A round that is not    *)
(* taken reverts the transaction or is run again under another leader,     *)
(* which is this specification from its initial state.                     *)
(***************************************************************************)
EXTENDS EvidencePipeline

CONSTANTS
    Nodes,               \* the validators of the round, the leader among them
    Faulty,              \* those that may propose and vote anything
    Kinds,               \* which of the four methods run
    Submitted,           \* evidence_sha256 of the submission
    Filed,               \* evidence_sha256 of the challenge
    StatedReason,        \* reason_code of the challenge
    Forgeries,           \* kind -> what a faulty leader may propose
    MaxEdits             \* bounds the model: how often the pages are edited

ASSUME NodeAssumption ==
    /\ IsFiniteSet(Nodes)
    /\ Faulty \subseteq Nodes
    /\ 2 * Cardinality(Faulty) < Cardinality(Nodes)

\* submit_content took the page for bounded and tagged, and
\* challenge_submission took its page for bounded.
ASSUME RecordAssumption ==
    /\ Submitted \in Digests /\ SizeOf[Submitted] = "bounded" /\ TagIn[Submitted]
    /\ Filed \in Digests /\ SizeOf[Filed] = "bounded"
    /\ StatedReason \in ChallengeReasonCodes
    /\ Kinds \subseteq {"submit", "evaluate", "challenge", "review"}
    /\ MaxEdits \in Nat

VARIABLES
    kind,                \* the method that runs
    leader,              \* the node whose result is voted on
    page,                \* the digest the submission's page has now
    evidence_page,       \* the digest the challenge's page has now
    edits,               \* how often they were edited
    renders,             \* what each node's renders gave, in order
    computed,            \* each node's result: {} until there is one
    votes,               \* what each validator said of the leader's result
    served               \* history: the digests each page has had

vars == <<kind, leader, page, evidence_page, edits, renders, computed, votes, served>>

Honest == Nodes \ Faulty

\* How many renders a run that is not cut short makes, and of which page.
RendersNeeded == IF kind = "review" THEN 4 ELSE 1

NextPage(v) ==
    IF kind = "challenge" \/ Len(renders[v]) >= 2 THEN evidence_page ELSE page

Init ==
    /\ kind \in Kinds
    /\ leader \in Nodes
    /\ page \in Digests
    /\ evidence_page \in Digests
    /\ edits = 0
    /\ renders = [v \in Nodes |-> <<>>]
    /\ computed = [v \in Nodes |-> {}]
    /\ votes = [v \in Nodes |-> "none"]
    /\ served = [page |-> {page}, evidence |-> {evidence_page}]

ValidShape(result) ==
    CASE kind = "evaluate" -> ValidEvaluationShape(result)
      [] kind = "review" -> ValidChallengeReviewShape(result)
      [] OTHER -> ValidCommitment(result)

Proposal == computed[leader]

\* A validator looks at the leader's result before it renders anything.
Running(v) ==
    /\ v \in Honest
    /\ computed[v] = {}
    /\ v # leader => \E result \in Proposal : ValidShape(result)

\* What a run that has made these renders has come to without the model.
DecidedBy(rendered) ==
    CASE kind = "review" -> RendersDecide(StatedReason, rendered, Submitted, Filed)
      [] kind = "evaluate" -> {}
      [] OTHER -> {RenderCommitment(rendered[1], kind = "submit")}

Render(v) ==
    /\ Running(v)
    /\ Len(renders[v]) < RendersNeeded
    /\ \E rendered \in {NextPage(v), "RAISED", "NOT_TEXT"} :
        /\ renders' = [renders EXCEPT ![v] = Append(@, rendered)]
        /\ computed' = [computed EXCEPT ![v] = DecidedBy(renders'[v])]
    /\ UNCHANGED <<kind, leader, page, evidence_page, edits, votes, served>>

\* The two prompts of an evaluation; a page that is not judged has no use for
\* their answers.
JudgeEvaluation(v) ==
    /\ kind = "evaluate"
    /\ \E extracted \in BOOLEAN, judgment \in Judgments :
        computed' = [computed EXCEPT
            ![v] = {EvaluateEvidence(renders[v][1], Submitted, extracted, judgment)}]

JudgeReview(v) ==
    /\ kind = "review"
    /\ \E extracted \in BOOLEAN, judgment \in ChallengeJudgments :
        computed' = [computed EXCEPT
            ![v] = {JudgedReview(StatedReason, Submitted, Filed, extracted, judgment)}]

Judge(v) ==
    /\ Running(v)
    /\ Len(renders[v]) = RendersNeeded
    /\ JudgeEvaluation(v) \/ JudgeReview(v)
    /\ UNCHANGED <<kind, leader, page, evidence_page, edits, renders, votes, served>>

Forge ==
    /\ leader \in Faulty
    /\ Proposal = {}
    /\ \E result \in Forgeries[kind] : computed' = [computed EXCEPT ![leader] = {result}]
    /\ UNCHANGED <<kind, leader, page, evidence_page, edits, renders, votes, served>>

\* Bug: agrees with whatever is well formed.
Bug_Agrees(v) == \E result \in Proposal : ValidShape(result)

\* validator_fn of an honest node that has run.
Agrees(v) ==
    \E result \in Proposal :
        /\ ValidShape(result)
        /\ \E own \in computed[v] : ValidShape(own) /\ own = result

Vote(v) ==
    /\ v # leader
    /\ votes[v] = "none"
    /\ Proposal # {}
    /\ \/ /\ v \in Faulty
          /\ \E vote \in {"agree", "disagree"} : votes' = [votes EXCEPT ![v] = vote]
       \/ /\ v \in Honest
          /\ computed[v] # {} \/ ~(\E result \in Proposal : ValidShape(result))
          /\ votes' = [votes EXCEPT ![v] = IF Agrees(v) THEN "agree" ELSE "disagree"]
    /\ UNCHANGED <<kind, leader, page, evidence_page, edits, renders, computed, served>>

\* The owner of a page publishes another text.
Edit ==
    /\ edits < MaxEdits
    /\ edits' = edits + 1
    /\ \/ /\ \E text \in Digests \ {page} :
                page' = text /\ served' = [served EXCEPT !.page = @ \cup {text}]
          /\ UNCHANGED evidence_page
       \/ /\ \E text \in Digests \ {evidence_page} :
                evidence_page' = text /\ served' = [served EXCEPT !.evidence = @ \cup {text}]
          /\ UNCHANGED page
    /\ UNCHANGED <<kind, leader, renders, computed, votes>>

Next ==
    \/ \E v \in Nodes : Render(v) \/ Judge(v) \/ Vote(v)
    \/ Forge
    \/ Edit

Spec == Init /\ [][Next]_vars

\* The result the method goes on with, if a majority stands behind one.
Accepted ==
    IF 2 * Cardinality({leader} \cup {v \in Nodes : votes[v] = "agree"}) > Cardinality(Nodes)
    THEN Proposal ELSE {}

-----------------------------------------------------------------------------
\* What a round may rely on.

Results == Commitments \cup Evaluations \cup Reviews

\* Every variable has its type.
TypeOK ==
    /\ kind \in Kinds
    /\ leader \in Nodes
    /\ page \in Digests
    /\ evidence_page \in Digests
    /\ edits \in 0..MaxEdits
    /\ renders \in [Nodes -> Seq(Renders)]
    /\ \A v \in Nodes : Len(renders[v]) <= RendersNeeded
    /\ computed \in [Nodes -> SUBSET Results]
    /\ \A v \in Nodes : Cardinality(computed[v]) <= 1
    /\ votes \in [Nodes -> {"none", "agree", "disagree"}]
    /\ served \in [page: SUBSET Digests, evidence: SUBSET Digests]

\* The assertion that follows each round never fails: whatever the web and the
\* model answer, a result that is taken is one the contract can store.
AgreedIsWellFormed == \A result \in Accepted : ValidShape(result)

\* No leader decides alone: a result that is taken is what an honest node
\* computed from its own renders.
AgreedWasComputedHonestly ==
    \A result \in Accepted : \E v \in Honest : computed[v] = {result}

\* A commitment that is taken as ok was served during the round, is within the
\* size limit, and has the claim tag when it is a submission's.
CommittedPageWasServed ==
    kind \in {"submit", "challenge"} =>
        \A result \in Accepted : result.ok =>
            /\ result.evidence_hash \in IF kind = "submit" THEN served.page ELSE served.evidence
            /\ SizeOf[result.evidence_hash] = "bounded"
            /\ kind = "submit" /\ result.claim_tag_present => TagIn[result.evidence_hash]

\* An evaluation that judges criteria is about the page that was submitted; one
\* that rejects without judging saw a page without the claim tag.  A fetch that
\* failed or a page that was edited is never held against the criteria.
VerdictIsAboutTheCommittedPage ==
    kind = "evaluate" =>
        \A result \in Accepted :
            /\ result.criteria_bits # <<>> =>
                result.evidence_hash = Submitted /\ Submitted \in served.page
            /\ result.decision = "REJECT" /\ result.criteria_bits = <<>> =>
                \E text \in served.page : ~TagIn[text] /\ result.evidence_hash = text

\* What docs/CONTENT_BOUNTY_V2_SPEC.md:47-48 says of evidence found empty when
\* it is evaluated: it is inconclusive rather than rejected.  The code does not
\* do this: it looks for the claim tag first, and an empty page has none.
EmptyEvidenceIsInconclusive ==
    kind = "evaluate" =>
        \A result \in Accepted :
            result.evidence_hash \in Digests /\ SizeOf[result.evidence_hash] = "empty" =>
                result.decision = "INCONCLUSIVE"

\* A review that ends a challenge either saw the submission's page changed, or
\* judged the stated reason on exactly the two texts on record.
ReviewHasGrounds ==
    kind = "review" =>
        \A result \in Accepted : result.outcome # "INCONCLUSIVE" =>
            \/ /\ result.outcome = "UPHOLD"
               /\ result.reason_code = "SOURCE_TAMPERED"
               /\ result.original_hash \in served.page \ {Submitted}
            \/ /\ result.reason_code = StatedReason
               /\ \E v \in Honest :
                    /\ computed[v] = {result}
                    /\ renders[v] = <<Submitted, Submitted, Filed, Filed>>
=============================================================================
