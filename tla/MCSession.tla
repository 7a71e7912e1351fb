----------------------------- MODULE MCSession -----------------------------
(***************************************************************************)
(* Values for Session's constants.                                         *)
(***************************************************************************)
EXTENDS Session, TLC

CONSTANTS alice, bob

MCAccounts == {alice, bob}

\* One bounty that awaits a submission and one with an approved submission.
MCStages == <<NoStage, "APPROVED_PENDING">>

MCApproved == <<"APPROVED_PENDING">>

\* Accounts are interchangeable: no definition names one.
Symmetry == Permutations(MCAccounts)
=============================================================================
