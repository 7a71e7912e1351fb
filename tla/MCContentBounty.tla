--------------------------- MODULE MCContentBounty ---------------------------
(***************************************************************************)
(* Values for ContentBounty's constants.  The consensus results are one of *)
(* each kind the contract tells apart.                                     *)
(***************************************************************************)
EXTENDS ContentBountyProperties, StatusActions, TLC

CONSTANTS alice, bob, d1, d2

Evaluation(decision, bits, hash, reason, tag) ==
    [decision |-> decision, criteria_bits |-> bits, score_bucket |-> ScoreBucket(bits),
     evidence_hash |-> hash, reason_code |-> reason, claim_tag_present |-> tag]

MCEvaluationResults ==
    {Evaluation("APPROVE", <<1, 1>>, d1, "ALL_REQUIRED_CRITERIA_MET", TRUE),
     Evaluation("REJECT", <<1, 0>>, d1, "CRITERIA_NOT_MET", TRUE),
     Evaluation("REJECT", <<>>, d2, "CLAIM_TAG_MISSING", FALSE),
     Evaluation("INCONCLUSIVE", <<>>, NoDigest, "FETCH_FAILED", FALSE)}

Review(outcome, reason, class, original, evidence) ==
    [outcome |-> outcome, reason_code |-> reason, error_class |-> class,
     original_hash |-> original, evidence_hash |-> evidence, claim_tag_present |-> TRUE]

MCReviewResults ==
    {Review("UPHOLD", "SOURCE_TAMPERED", "", d2, NoDigest),
     Review("DISMISS", "AUTHORSHIP_DISPUTE", "", d1, d2),
     Review("INCONCLUSIVE", "AUTHORSHIP_DISPUTE", "[LLM_ERROR]", d1, d2)}

\* For the runs whose question does not turn on why a judgment went the way
\* it did: one result for each way.
MCPlainEvaluations ==
    {Evaluation("APPROVE", <<1, 1>>, d1, "ALL_REQUIRED_CRITERIA_MET", TRUE),
     Evaluation("REJECT", <<>>, d1, "CLAIM_TAG_MISSING", FALSE)}

MCPlainReviews ==
    {Review("UPHOLD", "SOURCE_TAMPERED", "", d1, NoDigest),
     Review("DISMISS", "AUTHORSHIP_DISPUTE", "", d1, d1)}

MCProgressEvaluations ==
    MCPlainEvaluations
        \cup {Evaluation("INCONCLUSIVE", <<>>, NoDigest, "FETCH_FAILED", FALSE)}

MCProgressReviews ==
    MCPlainReviews
        \cup {Review("INCONCLUSIVE", "AUTHORSHIP_DISPUTE", "[LLM_ERROR]", d1, d1)}

MCAddresses == {alice, bob}
MCDigests == {d1, d2}

\* Accounts are interchangeable: no definition names one.
Symmetry == Permutations(MCAddresses)
=============================================================================
