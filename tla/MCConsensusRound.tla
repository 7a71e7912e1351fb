-------------------------- MODULE MCConsensusRound --------------------------
(***************************************************************************)
(* Three nodes, one of them faulty; pages that differ in what the pipeline *)
(* tells apart.                                                            *)
(***************************************************************************)
EXTENDS ConsensusRound, TLC

CONSTANTS n1, n2, n3, original_page, filed_page, untagged_page, empty_page, oversized_page

MCNodes == {n1, n2, n3}

MCDigests == {original_page, filed_page, untagged_page, empty_page, oversized_page}

MCSizeOf == [text \in MCDigests |->
    CASE text = empty_page -> "empty" [] text = oversized_page -> "oversized" [] OTHER -> "bounded"]

\* The challenge's page has the tag too, so that served in the place of the
\* submission's it is an edit only the digest tells apart.
MCTagIn == [text \in MCDigests |-> text \in {original_page, filed_page, oversized_page}]

MCJudgments ==
    {[raised |-> FALSE, items |-> <<"met", "met">>],
     [raised |-> FALSE, items |-> <<"met", "unmet">>],
     [raised |-> FALSE, items |-> <<"met">>],
     [raised |-> FALSE, items |-> <<"met", "invalid">>],
     [raised |-> TRUE, items |-> <<>>]}

MCChallengeJudgments ==
    {[raised |-> FALSE, outcome |-> "UPHOLD", reason_code |-> "AUTHORSHIP_DISPUTE"],
     [raised |-> FALSE, outcome |-> "DISMISS", reason_code |-> "AUTHORSHIP_DISPUTE"],
     [raised |-> FALSE, outcome |-> "INCONCLUSIVE", reason_code |-> "AUTHORSHIP_DISPUTE"],
     [raised |-> FALSE, outcome |-> "UPHOLD", reason_code |-> "RIGHTS_OR_PLAGIARISM"]}

\* A faulty leader's best efforts: a favourable result for another page, one
\* that is not well formed, and one an honest node might have had.
MCForgeries == [k \in {"submit", "evaluate", "challenge", "review"} |->
    CASE k = "evaluate" ->
            {NormalizeJudgment([raised |-> FALSE, items |-> <<"met", "met">>], original_page),
             NormalizeJudgment([raised |-> FALSE, items |-> <<"met", "met">>], filed_page),
             RejectedResult(original_page, "CLAIM_TAG_MISSING"),
             [RejectedResult(original_page, "CRITERIA_NOT_MET") EXCEPT !.decision = "APPROVE"]}
      [] k = "review" ->
            {Tampered(filed_page, TRUE), NoSourceControl(original_page),
             ReviewResult("DISMISS", "AUTHORSHIP_DISPUTE", "", original_page, filed_page, TRUE),
             ReviewResult("DISMISS", "AUTHORSHIP_DISPUTE", "", original_page, NoDigest, TRUE)}
      [] OTHER ->
            {RenderCommitment(original_page, k = "submit"),
             [Refused(untagged_page, "bounded", "") EXCEPT !.ok = TRUE, !.claim_tag_present = TRUE],
             [Refused(empty_page, "empty", "") EXCEPT !.ok = TRUE]}]
=============================================================================
