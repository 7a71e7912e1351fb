------------------------- MODULE StudionetMilestone -------------------------
(***************************************************************************)
(* The milestone run on Studionet (scripts/live-studionet-milestone.mjs).  *)
(* An operator starts it once per stage; stages hand ids to each other     *)
(* through a state file.  A stage is a straight line of writes and reads,  *)
(* here a program over one register, `id`: the record it works on.  It     *)
(* guesses the id of what it is about to create, or has just created, from *)
(* a count, and it ignores whether its writes were executed or reverted.   *)
(*                                                                         *)
(* The contract is public: any account may write to it between two steps   *)
(* of a stage.  Reads are of the finalized state, which may trail the      *)
(* chain by any number of transactions (docs/MILESTONE-1.md, section 6)    *)
(* but never goes back.  Transaction hashes and what is only printed are   *)
(* left out.  The contract is the one of ContentBounty, cut down to        *)
(* statuses: deadlines and everything else it may refuse for is a write    *)
(* that may always revert.  A submission that is not approved stays        *)
(* PENDING, and withdrawals change nothing a stage looks at.               *)
(***************************************************************************)
EXTENDS Naturals, Sequences, FiniteSetsExt

CONSTANTS
    PageSize,              \* of get_bounties_page in nextBountyId, 50
    MaxLost,               \* attempts of withRetries whose answer was lost
    MaxBounties,           \* bounds the model: bounties of one contract
    MaxSubmissions,        \* bounds the model: submissions of one contract
    MaxChallenges,         \* bounds the model: challenges of one contract
    MaxRuns,               \* bounds the model: stages started, deploy included
    MaxElsewhere           \* bounds the model: transactions from elsewhere

ASSUME MilestoneAssumption ==
    /\ PageSize \in Nat \ {0}
    /\ {MaxLost, MaxBounties, MaxSubmissions, MaxChallenges, MaxRuns,
        MaxElsewhere} \subseteq Nat

VARIABLES
    chain,                 \* the records of the deployed contract
    shown,                 \* the finalized state that reads see
    file,                  \* the state file: ids by key
    stage, at, id, tries,  \* the running stage, its next step, its register
    runs, elsewhere,       \* stages started, and transactions from elsewhere
    missed,                \* history: whose transactions reads do not show
    calm,                  \* history: nothing came between the count and now
    adopted,               \* history: keys saved calmly since the deployment
    aim                    \* history: the bounty of the recorded challenge submission

process == <<stage, at, id, tries>>
history == <<missed, calm, adopted, aim>>
bounds == <<runs, elsewhere>>
vars == <<chain, shown, file, process, bounds, history>>

BountyKeys == {"bountyId", "challengeBountyId", "injectedBountyId"}

Keys == BountyKeys \union {"submissionId", "challengeSubmissionId"}

\* A record is of the run's own accounts or of others.
Makers == {"run", "others"}

\* Bounties and submissions count from 0, challenges from 1.
Exists(c, kind, n) == IF kind = "challenges" THEN n \in 1..Len(c[kind]) ELSE n < Len(c[kind])

Record(c, kind, n) == IF kind = "challenges" THEN c[kind][n] ELSE c[kind][n + 1]

Empty == [bounties |-> <<>>, submissions |-> <<>>, challenges |-> <<>>]

(***************************************************************************)
(* The stages.  "load" takes the register from the file, "ask" from the    *)
(* command line, "count" from the chain.                                   *)
(***************************************************************************)
PostAnd(steps) == <<<<"count", "bounties">>, <<"write", "post_bounty">>>> \o steps

Evaluate == <<<<"write", "evaluate_submission">>, <<"read", "submissions">>>>

SubmitAndEvaluate(key) ==
    <<<<"load", key>>, <<"write", "submit_content">>, <<"count", "submissions">>>> \o Evaluate

Review ==
    <<<<"write", "review_challenge">>, <<"decided", "PROPOSED">>,
      <<"write", "finalize_challenge">>, <<"decided", "SETTLED">>, <<"write", "withdraw_bond">>>>

\* Post, submit, evaluate, claim, withdraw.
ApprovalStages ==
    [post |-> PostAnd(<<<<"read", "bounties">>, <<"save", "bountyId">>>>),
     submit |-> <<<<"load", "bountyId">>, <<"write", "submit_content">>,
                  <<"load", "submissionId">>, <<"read", "submissions">>, <<"save", "submissionId">>>>,
     evaluate |-> <<<<"load", "submissionId">>>> \o Evaluate,
     claim |-> <<<<"load", "submissionId">>, <<"write", "claim_reward">>>>,
     withdraw |-> <<<<"load", "submissionId">>, <<"write", "withdraw_reward">>>>]

\* The first and the third of six; the others are refused whatever happened.
RefusalStages ==
    [refusals |-> <<<<"load", "submissionId">>, <<"refuse", "withdraw_reward">>,
                    <<"refuse", "claim_reward">>>>]

ScenarioStages ==
    [challenge_post |-> PostAnd(<<<<"save", "challengeBountyId">>>>),
     challenge_submit |-> SubmitAndEvaluate("challengeBountyId")
                          \o <<<<"save", "challengeSubmissionId">>>>,
     bond_withdraw |-> <<<<"ask", "challenges">>, <<"decided", "SETTLED">>,
                         <<"write", "withdraw_bond">>>>]

ChallengeStages ==
    [review |-> <<<<"count", "latestChallenge">>, <<"confirm", "challenges">>>> \o Review,
     evaluate_id |-> <<<<"ask", "submissions">>>> \o Evaluate,
     challenge |-> <<<<"load", "challengeSubmissionId">>, <<"read", "submissions">>,
                     <<"write", "challenge_submission">>, <<"count", "challenges">>>> \o Review]

InjectedStages ==
    [injected |-> PostAnd(<<<<"save", "injectedBountyId">>>>),
     injected_submit |-> SubmitAndEvaluate("injectedBountyId"),
     evaluate_injected |-> <<<<"ask", "submissions">>, <<"confirm", "submissions">>>> \o Evaluate]

RefundStages ==
    [refund |-> PostAnd(<<<<"write", "cancel_bounty">>, <<"write", "withdraw_refund">>>>)]

StageTables ==
    {ApprovalStages, RefusalStages, ScenarioStages, ChallengeStages, InjectedStages, RefundStages}

Stages == UNION {DOMAIN table : table \in StageTables}

Program(name) == (CHOOSE table \in StageTables : name \in DOMAIN table)[name]

Step == Program(stage)[at]

Running(do) == stage # "none" /\ Step[1] = do

\* The end of the program ends the process, as an error that is thrown does.
End == stage' = "none" /\ at' = 0 /\ id' = 0 /\ tries' = 0

Go(n) ==
    IF at = Len(Program(stage)) THEN End
    ELSE at' = at + 1 /\ id' = n /\ tries' = 0 /\ UNCHANGED stage

(***************************************************************************)
(* What a write on record n may leave: nothing changes when it reverts.    *)
(* The accounts of `who` are several: the run posts, submits and           *)
(* challenges with one account each, the others with any number.           *)
(***************************************************************************)
Set(kind, n, field, value) ==
    [chain EXCEPT ![kind][IF kind = "challenges" THEN n ELSE n + 1][field] = value]

Added(kind, record) == [chain EXCEPT ![kind] = Append(@, record)]

Undisputed(n) ==
    \A i \in DOMAIN chain.challenges :
        chain.challenges[i].submission = n => chain.challenges[i].status = "SETTLED"

Moves(kind, n, field, from, to) ==
    IF Exists(chain, kind, n) /\ Record(chain, kind, n)[field] \in from
    THEN {Set(kind, n, field, value) : value \in to} ELSE {}

Owns(who, kind, n) == Exists(chain, kind, n) /\ Record(chain, kind, n).by = who

Submitted(who, n) ==
    \E i \in DOMAIN chain.submissions :
        chain.submissions[i].bounty = n /\ chain.submissions[i].by = who

Effects(who, fn, n) ==
    CASE fn = "post_bounty" ->
           IF Len(chain.bounties) < MaxBounties
           THEN {Added("bounties", [by |-> who, status |-> "OPEN"])} ELSE {}
      [] fn = "submit_content" ->
           IF /\ Len(chain.submissions) < MaxSubmissions
              /\ Exists(chain, "bounties", n) /\ Record(chain, "bounties", n).status = "OPEN"
              /\ who = "run" => ~Submitted(who, n)
           THEN {Added("submissions", [by |-> who, bounty |-> n, status |-> "PENDING"])} ELSE {}
      [] fn = "evaluate_submission" ->
           Moves("submissions", n, "status", {"PENDING"}, {"APPROVED"})
      [] fn = "claim_reward" ->
           IF Owns(who, "submissions", n) /\ Undisputed(n)
           THEN Moves("submissions", n, "status", {"APPROVED"}, {"CLAIMED"}) ELSE {}
      [] fn = "challenge_submission" ->
           IF /\ Len(chain.challenges) < MaxChallenges
              /\ Exists(chain, "submissions", n)
              /\ Record(chain, "submissions", n).status = "APPROVED" /\ Undisputed(n)
           THEN {Added("challenges", [submission |-> n, status |-> "OPEN"])} ELSE {}
      [] fn = "review_challenge" ->
           Moves("challenges", n, "status", {"OPEN"}, {"OPEN", "PROPOSED"})
      [] fn = "finalize_challenge" ->
           Moves("challenges", n, "status", {"PROPOSED"}, {"SETTLED"})
      [] fn = "cancel_bounty" ->
           IF Owns(who, "bounties", n) /\ \A i \in DOMAIN chain.submissions : chain.submissions[i].bounty # n
           THEN Moves("bounties", n, "status", {"OPEN"}, {"CANCELLED"}) ELSE {}
      [] fn \in {"withdraw_reward", "withdraw_bond", "withdraw_refund"} -> {chain}

WriteMethods ==
    {"post_bounty", "submit_content", "evaluate_submission", "claim_reward",
     "challenge_submission", "review_challenge", "finalize_challenge", "cancel_bounty",
     "withdraw_reward", "withdraw_bond", "withdraw_refund"}

(***************************************************************************)
(* The rest of the world.                                                  *)
(***************************************************************************)
\* A transaction that the running stage does not wait for: of another
\* account, or of the run's own, sent by a process that was stopped.
Elsewhere ==
    /\ elsewhere < MaxElsewhere /\ elsewhere' = elsewhere + 1
    /\ \E who \in Makers, fn \in WriteMethods, n \in UNION {0..Len(chain[kind]) : kind \in DOMAIN chain} :
           chain' \in Effects(who, fn, n) \ {chain}
    /\ missed' = "more" /\ calm' = FALSE
    /\ UNCHANGED <<shown, file, process, runs, adopted, aim>>

\* The finalized state catches up with the chain.
Show ==
    /\ shown' = chain /\ missed' = "nothing"
    /\ UNCHANGED <<chain, file, process, bounds, calm, adopted, aim>>

(***************************************************************************)
(* The process.                                                            *)
(***************************************************************************)
\* A stage reads the state file as it starts.
StartStage ==
    /\ stage = "none" /\ runs < MaxRuns
    /\ runs' = runs + 1
    /\ stage' \in Stages
    /\ at' = 1
    /\ calm' = FALSE
    /\ missed' = IF missed = "nothing" THEN "nothing" ELSE "more"
    /\ UNCHANGED <<chain, shown, file, id, tries, elsewhere, adopted, aim>>

\* The stage deploy: the file keeps what it says of the contract before.
Deploy ==
    /\ stage = "none" /\ runs < MaxRuns
    /\ runs' = runs + 1
    /\ chain' = Empty /\ shown' = Empty
    /\ missed' = "nothing" /\ adopted' = {}
    /\ UNCHANGED <<file, process, elsewhere, calm, aim>>

\* state.bountyId ?? 0 and state.submissionId ?? 0; the other keys throw
\* when they are missing.
Load ==
    LET key == Step[2]
    IN  /\ Running("load")
        /\ IF key \in DOMAIN file THEN Go(file[key])
           ELSE IF key \in {"bountyId", "submissionId"} THEN Go(0) ELSE End
        /\ UNCHANGED <<chain, shown, file, bounds, history>>

\* --id, which the operator takes from what a stage or the report printed.
Ask ==
    /\ Running("ask")
    /\ \E n \in {m \in 0..MaxBounties : Exists(chain, Step[2], m)} : Go(n)
    /\ UNCHANGED <<chain, shown, file, bounds, history>>

\* The stage's own transaction is executed, or reverts.
Sends ==
    /\ chain' \in {chain} \union Effects("run", Step[2], id)
    /\ missed' = IF missed = "more" THEN "more" ELSE "stage"
    /\ UNCHANGED <<shown, file, bounds, calm, adopted, aim>>

\* client.writeContract and waitFinalized.  An answer lost after the node
\* has the transaction makes withRetries send another.
Write ==
    /\ Running("write")
    /\ Sends
    /\ \/ Go(id)
       \/ tries < MaxLost /\ tries' = tries + 1 /\ UNCHANGED <<stage, at, id>>

\* expectRevert sends once and goes on, whatever comes of it.
Refuse == Running("refuse") /\ Sends /\ Go(id)

\* Bug: the id of the latest submission, not of the next one.
Bug_NextId(seen, kind) ==
    CASE kind = "bounties" -> Min({Len(seen.bounties), PageSize})
      [] kind = "submissions" -> IF seen.submissions = <<>> THEN 0 ELSE Len(seen.submissions) - 1
      [] kind = "challenges" -> Len(seen.challenges) + 1
      [] kind = "latestChallenge" -> Len(seen.challenges)

\* Bug: the id of the latest bounty on the page, not of the next one.
Bug_NextIdOfPage(seen, kind) ==
    CASE kind = "bounties" ->
           IF seen.bounties = <<>> THEN 0 ELSE Min({Len(seen.bounties), PageSize}) - 1
      [] kind = "submissions" -> Len(seen.submissions)
      [] kind = "challenges" -> Len(seen.challenges) + 1
      [] kind = "latestChallenge" -> Len(seen.challenges)

\* nextBountyId, nextSubmissionId, nextChallengeId, and the latter less one.
NextId(seen, kind) ==
    CASE kind = "bounties" -> Min({Len(seen.bounties), PageSize})
      [] kind = "submissions" -> Len(seen.submissions)
      [] kind = "challenges" -> Len(seen.challenges) + 1
      [] kind = "latestChallenge" -> Len(seen.challenges)

\* The guess is good if the count misses at most what this stage has sent,
\* and the bounties fit on the page.
Count ==
    /\ Running("count")
    /\ Go(NextId(shown, Step[2]))
    /\ calm' = (missed # "more" /\ (Step[2] = "bounties" => Len(shown.bounties) <= PageSize))
    /\ UNCHANGED <<chain, shown, file, bounds, missed, adopted, aim>>

\* A read of a record that does not exist throws, after its retries.
ReadRecord ==
    /\ Running("read")
    /\ IF Exists(shown, Step[2], id) THEN Go(id) ELSE End
    /\ UNCHANGED <<chain, shown, file, bounds, history>>

\* confirm polls for a record that waits to be worked on: an open challenge,
\* with or without a proposal, or a pending submission.  Stop is what happens
\* when it gives up.
Confirm ==
    /\ Running("confirm")
    /\ Exists(shown, Step[2], id)
    /\ Record(shown, Step[2], id).status
           \in IF Step[2] = "challenges" THEN {"OPEN", "PROPOSED"} ELSE {"PENDING"}
    /\ Go(id)
    /\ UNCHANGED <<chain, shown, file, bounds, history>>

\* A challenge is read back, and without the outcome that the rest of the
\* stage needs the stage ends: no final proposal, or no recipient of a bond.
Decided ==
    /\ Running("decided")
    /\ IF /\ Exists(shown, "challenges", id)
          /\ Record(shown, "challenges", id).status \in {Step[2], "SETTLED"}
       THEN Go(id) ELSE End
    /\ UNCHANGED <<chain, shown, file, bounds, history>>

KindOf(key) == IF key \in BountyKeys THEN "bounties" ELSE "submissions"

\* writeState merges into the file.
Save ==
    LET key == Step[2]
    IN  /\ Running("save")
        /\ file' = [k \in DOMAIN file \union {key} |-> IF k = key THEN id ELSE file[k]]
        /\ adopted' = IF calm /\ Exists(chain, KindOf(key), id)
                      THEN adopted \union {key} ELSE adopted \ {key}
        /\ aim' = IF key = "challengeSubmissionId" THEN file["challengeBountyId"] ELSE aim
        /\ Go(id)
        /\ UNCHANGED <<chain, shown, bounds, missed, calm>>

\* Retries run out, or the operator stops the process.
Stop ==
    /\ stage # "none"
    /\ End
    /\ UNCHANGED <<chain, shown, file, bounds, history>>

\* The first deployment has been made.
Init ==
    /\ chain = Empty /\ shown = Empty
    /\ file = <<>>
    /\ stage = "none" /\ at = 0 /\ id = 0 /\ tries = 0
    /\ runs = 0 /\ elsewhere = 0
    /\ missed = "nothing" /\ calm = FALSE /\ adopted = {} /\ aim = 0

Next ==
    \/ Elsewhere \/ Show
    \/ StartStage \/ Deploy
    \/ Load \/ Ask \/ Write \/ Refuse \/ Count \/ ReadRecord \/ Confirm \/ Decided
    \/ Save \/ Stop

Spec == Init /\ [][Next]_vars

(***************************************************************************)
(* Properties.                                                             *)
(***************************************************************************)

\* A stage saves the id of a record that is not its own, or a submission to
\* another bounty than its scenario's, only if the guess was disturbed: a
\* transaction that is not the stage's was executed between the state it
\* counted and the save, or the page of bounties was too short.  Its own
\* writes may revert or be sent twice, whatever earlier stages left on the
\* contract and in the file.  The stages ignore the result of their writes,
\* so this rests on the count, taken before a post and after a submission,
\* and on the submission being read back before its id is saved
\* (live-studionet-milestone.mjs:202-210, 390-435).
AdoptedRecordsAreTheScenarios ==
    /\ \A key \in adopted \intersect BountyKeys : Owns("run", "bounties", file[key])
    /\ "challengeSubmissionId" \in adopted =>
           /\ Owns("run", "submissions", file["challengeSubmissionId"])
           /\ Record(chain, "submissions", file["challengeSubmissionId"]).bounty = aim

\* Two scenarios work on the same bounty only if the guess of one of them was
\* disturbed in this way or its post reverted: a refund, a challenge and an
\* approval never meet on one bounty otherwise, in whatever order and however
\* often the stages are run (live-studionet-milestone.mjs:202-205, 265, 396,
\* 596).
ScenariosShareNoBounty ==
    \A key, other \in adopted \intersect BountyKeys : file[key] = file[other] => key = other

\* docs/MILESTONE-1.md:213-215 and the comment of confirm
\* (live-studionet-milestone.mjs:184-186): the finalized state is polled
\* until it shows the expected change before a dependent transaction is
\* sent.  So once it shows the submission of the challenge scenario, the
\* evaluation that follows is sent for a submission it shows.
EvaluationWaitsForItsSubmission ==
    /\ stage = "challenge_submit" /\ Step = <<"write", "evaluate_submission">>
    /\ \E i \in DOMAIN shown.submissions :
           shown.submissions[i].by = "run" /\ shown.submissions[i].bounty = file["challengeBountyId"]
    => Exists(shown, "submissions", id)
=============================================================================
