---------------------- MODULE StudionetMilestoneProofs ----------------------
(***************************************************************************)
(* Proofs about StudionetMilestone: what the records of the state file     *)
(* are, for pages, retries, contracts and redeployments of every size.     *)
(*                                                                         *)
(* The stages are programs, and five of them save an id.  PointInv says    *)
(* what holds at the steps of four: between a count that nothing of        *)
(* another account followed and the save, whose records the register and   *)
(* those after it are.  It rests on records being added at the end by      *)
(* whoever writes, and never removed, and on what reads do not show yet.   *)
(***************************************************************************)
EXTENDS StudionetMilestone, SequenceTheorems, TLAPS

-----------------------------------------------------------------------------
\* The programs.

Kinds == {"bounties", "submissions", "challenges"}

\* What a step of a program may be, except a save.
QuietSteps ==
    ({"write", "refuse"} \X WriteMethods)
    \union ({"count"} \X (Kinds \union {"latestChallenge"}))
    \union ({"read", "confirm", "ask"} \X Kinds)
    \union ({"decided"} \X {"PROPOSED", "SETTLED"})
    \union ({"load"} \X Keys)

PostingStages == {"post", "challenge_post", "injected"}

SavingStages == PostingStages \union {"submit", "challenge_submit"}

Steps == QuietSteps \union ({"save"} \X Keys)

\* The steps that several stages share save nothing.
LEMMA ReviewIsQuiet == Review \in Seq(QuietSteps) /\ Len(Review) = 5
<1>1. /\ <<"write", "review_challenge">> \in QuietSteps
      /\ <<"decided", "PROPOSED">> \in QuietSteps
      /\ <<"write", "finalize_challenge">> \in QuietSteps
      /\ <<"decided", "SETTLED">> \in QuietSteps
      /\ <<"write", "withdraw_bond">> \in QuietSteps
    BY DEF QuietSteps, WriteMethods
<1> QED BY <1>1 DEF Review

\* Nor does an evaluation, whose two steps are these.
LEMMA EvaluateIsQuiet ==
    /\ Evaluate \in Seq(QuietSteps) /\ Len(Evaluate) = 2
    /\ Evaluate[1] = <<"write", "evaluate_submission">>
    /\ Evaluate[2] = <<"read", "submissions">>
<1>1. /\ <<"write", "evaluate_submission">> \in QuietSteps
      /\ <<"read", "submissions">> \in QuietSteps
    BY DEF QuietSteps, WriteMethods, Kinds
<1> QED BY <1>1 DEF Evaluate

\* A program p that runs s and then t.
Joins(p, s, t) ==
    /\ Len(p) = Len(s) + Len(t)
    /\ \A i \in 1..Len(s) : p[i] = s[i]
    /\ \A i \in 1..Len(t) : p[Len(s) + i] = t[i]

\* Concatenation makes such a program.
LEMMA Joined ==
    ASSUME NEW S, NEW s \in Seq(S), NEW t \in Seq(S), NEW p, p = s \o t
    PROVE  p \in Seq(S) /\ Joins(p, s, t)
<1>1. p \in Seq(S)
    BY ConcatProperties, Zenon
<1> QED BY <1>1 DEF Joins

\* A stage that posts a bounty goes on with the steps it is given.
LEMMA PostAndIs ==
    ASSUME NEW S, QuietSteps \subseteq S, NEW steps \in Seq(S)
    PROVE  /\ PostAnd(steps) \in Seq(S) /\ Len(PostAnd(steps)) = 2 + Len(steps)
           /\ PostAnd(steps)[1] = <<"count", "bounties">>
           /\ PostAnd(steps)[2] = <<"write", "post_bounty">>
           /\ \A i \in 1..Len(steps) : PostAnd(steps)[2 + i] = steps[i]
<1> DEFINE count == <<"count", "bounties">>
           write == <<"write", "post_bounty">>
           opening == <<count, write>>
<1>1. opening \in Seq(S) /\ Len(opening) = 2 /\ opening[1] = count /\ opening[2] = write
    <2>1. count \in QuietSteps /\ write \in QuietSteps
        BY DEF QuietSteps, WriteMethods, Kinds
    <2> HIDE DEF count, write
    <2>2. count \in S /\ write \in S
        BY <2>1
    <2> QED BY <2>2
<1>2. PostAnd(steps) = opening \o steps
    BY DEF PostAnd
<1> HIDE DEF opening
<1> QED
    <2>1. PostAnd(steps) \in Seq(S) /\ Joins(PostAnd(steps), opening, steps)
        BY <1>1, <1>2, Joined, Zenon
    <2> QED BY <1>1, <2>1 DEF Joins

\* A stage that submits and evaluates, step by step.
LEMMA SubmitAndEvaluateIs ==
    ASSUME NEW key \in Keys
    PROVE  /\ SubmitAndEvaluate(key) \in Seq(QuietSteps) /\ Len(SubmitAndEvaluate(key)) = 5
           /\ SubmitAndEvaluate(key)[1] = <<"load", key>>
           /\ SubmitAndEvaluate(key)[2] = <<"write", "submit_content">>
           /\ SubmitAndEvaluate(key)[3] = <<"count", "submissions">>
           /\ SubmitAndEvaluate(key)[4] = <<"write", "evaluate_submission">>
           /\ SubmitAndEvaluate(key)[5] = <<"read", "submissions">>
<1> DEFINE opening == <<<<"load", key>>, <<"write", "submit_content">>, <<"count", "submissions">>>>
<1>1. /\ <<"load", key>> \in QuietSteps
      /\ <<"write", "submit_content">> \in QuietSteps
      /\ <<"count", "submissions">> \in QuietSteps
    BY DEF QuietSteps, WriteMethods, Kinds
<1>2. /\ opening \in Seq(QuietSteps) /\ Len(opening) = 3
      /\ opening[1] = <<"load", key>>
      /\ opening[2] = <<"write", "submit_content">>
      /\ opening[3] = <<"count", "submissions">>
    BY <1>1
<1>3. SubmitAndEvaluate(key) = opening \o Evaluate
    BY DEF SubmitAndEvaluate
<1> HIDE DEF opening
<1>4. /\ SubmitAndEvaluate(key) \in Seq(QuietSteps) /\ Len(SubmitAndEvaluate(key)) = 5
      /\ \A i \in 1..3 : SubmitAndEvaluate(key)[i] = opening[i]
      /\ \A i \in 1..2 : SubmitAndEvaluate(key)[3 + i] = Evaluate[i]
    <2>1. /\ SubmitAndEvaluate(key) \in Seq(QuietSteps)
          /\ Joins(SubmitAndEvaluate(key), opening, Evaluate)
        BY <1>2, <1>3, EvaluateIsQuiet, Joined, Zenon
    <2> QED BY <1>2, <2>1, EvaluateIsQuiet DEF Joins
<1>5. /\ SubmitAndEvaluate(key)[1] = opening[1]
      /\ SubmitAndEvaluate(key)[2] = opening[2]
      /\ SubmitAndEvaluate(key)[3] = opening[3]
      /\ SubmitAndEvaluate(key)[4] = Evaluate[1]
      /\ SubmitAndEvaluate(key)[5] = Evaluate[2]
    BY <1>4
<1> QED BY <1>2, <1>4, <1>5, EvaluateIsQuiet

\* Which table names which stage.
LEMMA StageNames ==
    /\ DOMAIN ApprovalStages = {"post", "submit", "evaluate", "claim", "withdraw"}
    /\ DOMAIN RefusalStages = {"refusals"}
    /\ DOMAIN ScenarioStages = {"challenge_post", "challenge_submit", "bond_withdraw"}
    /\ DOMAIN ChallengeStages = {"review", "evaluate_id", "challenge"}
    /\ DOMAIN InjectedStages = {"injected", "injected_submit", "evaluate_injected"}
    /\ DOMAIN RefundStages = {"refund"}
    BY DEF ApprovalStages, RefusalStages, ScenarioStages, ChallengeStages, InjectedStages,
           RefundStages

\* A stage is looked up in the one table that names it.
LEMMA StageTable ==
    ASSUME NEW name \in Stages
    PROVE  \E table \in StageTables : name \in DOMAIN table /\ Program(name) = table[name]
<1>1. \E table \in StageTables : name \in DOMAIN table
    BY DEF Stages
<1> QED BY <1>1 DEF Program

\* The stage post reads the bounty back before it saves its id.
LEMMA PostIs ==
    /\ "post" \in Stages
    /\ Program("post") \in Seq(Steps) /\ Len(Program("post")) = 4
    /\ Program("post")[1] = <<"count", "bounties">>
    /\ Program("post")[2] = <<"write", "post_bounty">>
    /\ Program("post")[3] = <<"read", "bounties">>
    /\ Program("post")[4] = <<"save", "bountyId">>
<1>1. "post" \in Stages
    BY StageNames DEF Stages, StageTables
<1>2. Program("post") = ApprovalStages["post"]
    BY <1>1, StageTable, StageNames DEF StageTables
<1> DEFINE read == <<"read", "bounties">>
           save == <<"save", "bountyId">>
           rest == <<read, save>>
<1>3. Program("post") = PostAnd(rest)
    BY <1>2 DEF ApprovalStages
<1>4. read \in Steps /\ save \in Steps
    BY DEF Steps, QuietSteps, Kinds, Keys, BountyKeys
<1> HIDE DEF read, save
<1>5. rest \in Seq(Steps) /\ Len(rest) = 2 /\ rest[1] = read /\ rest[2] = save
    BY <1>4
<1> HIDE DEF rest
<1>6. QuietSteps \subseteq Steps
    BY DEF Steps
<1>7. /\ PostAnd(rest) \in Seq(Steps) /\ Len(PostAnd(rest)) = 2 + Len(rest)
      /\ PostAnd(rest)[1] = <<"count", "bounties">>
      /\ PostAnd(rest)[2] = <<"write", "post_bounty">>
      /\ \A i \in 1..Len(rest) : PostAnd(rest)[2 + i] = rest[i]
    BY <1>5, <1>6, PostAndIs
<1>8. PostAnd(rest)[3] = read /\ PostAnd(rest)[4] = save
    BY <1>5, <1>7
<1> QED BY <1>1, <1>3, <1>5, <1>7, <1>8 DEF read, save

\* The stages of the other two scenarios save the id of theirs unread.
LEMMA ScenarioPostIs ==
    ASSUME NEW name \in {"challenge_post", "injected"}
    PROVE  /\ name \in Stages
           /\ Program(name) \in Seq(Steps) /\ Len(Program(name)) = 3
           /\ Program(name)[1] = <<"count", "bounties">>
           /\ Program(name)[2] = <<"write", "post_bounty">>
           /\ \E key \in BountyKeys : Program(name)[3] = <<"save", key>>
<1>1. name \in Stages
    BY StageNames DEF Stages, StageTables
<1>2. PICK key \in BountyKeys : Program(name) = PostAnd(<<<<"save", key>>>>)
    <2>1. CASE name = "challenge_post"
        <3>1. Program(name) = ScenarioStages["challenge_post"]
            BY <1>1, <2>1, StageTable, StageNames DEF StageTables
        <3> QED BY <3>1 DEF ScenarioStages, BountyKeys
    <2>2. CASE name = "injected"
        <3>1. Program(name) = InjectedStages["injected"]
            BY <1>1, <2>2, StageTable, StageNames DEF StageTables
        <3> QED BY <3>1 DEF InjectedStages, BountyKeys
    <2> QED BY <2>1, <2>2
<1> DEFINE save == <<"save", key>>
           rest == <<save>>
<1>3. save \in Steps
    BY DEF Steps, Keys
<1> HIDE DEF save
<1>4. rest \in Seq(Steps) /\ Len(rest) = 1 /\ rest[1] = save
    BY <1>3
<1>5. Program(name) = PostAnd(rest)
    BY <1>2 DEF save
<1> HIDE DEF rest
<1>6. QuietSteps \subseteq Steps
    BY DEF Steps
<1>7. /\ PostAnd(rest) \in Seq(Steps) /\ Len(PostAnd(rest)) = 2 + Len(rest)
      /\ PostAnd(rest)[1] = <<"count", "bounties">>
      /\ PostAnd(rest)[2] = <<"write", "post_bounty">>
      /\ \A i \in 1..Len(rest) : PostAnd(rest)[2 + i] = rest[i]
    BY <1>4, <1>6, PostAndIs
<1>8. PostAnd(rest)[3] = save
    BY <1>4, <1>7
<1> QED BY <1>1, <1>4, <1>5, <1>7, <1>8 DEF save

\* The stage submit reads the submission back before it saves its id.
LEMMA SubmitIs ==
    /\ "submit" \in Stages
    /\ Program("submit") \in Seq(Steps) /\ Len(Program("submit")) = 5
    /\ Program("submit")[1] = <<"load", "bountyId">>
    /\ Program("submit")[2] = <<"write", "submit_content">>
    /\ Program("submit")[3] = <<"load", "submissionId">>
    /\ Program("submit")[4] = <<"read", "submissions">>
    /\ Program("submit")[5] = <<"save", "submissionId">>
<1>1. "submit" \in Stages
    BY StageNames DEF Stages, StageTables
<1>2. Program("submit") = ApprovalStages["submit"]
    BY <1>1, StageTable, StageNames DEF StageTables
<1>3. Program("submit") = <<<<"load", "bountyId">>, <<"write", "submit_content">>,
                            <<"load", "submissionId">>, <<"read", "submissions">>,
                            <<"save", "submissionId">>>>
    BY <1>2 DEF ApprovalStages
<1>4. /\ <<"load", "bountyId">> \in Steps /\ <<"write", "submit_content">> \in Steps
      /\ <<"load", "submissionId">> \in Steps /\ <<"read", "submissions">> \in Steps
      /\ <<"save", "submissionId">> \in Steps
    BY DEF Steps, QuietSteps, Kinds, Keys, BountyKeys, WriteMethods
<1>5. Program("submit") \in Seq(Steps)
    <2> DEFINE a == <<"load", "bountyId">>
               b == <<"write", "submit_content">>
               c == <<"load", "submissionId">>
               d == <<"read", "submissions">>
               e == <<"save", "submissionId">>
    <2>1. Program("submit") = <<a, b, c, d, e>>
        BY <1>3
    <2>2. a \in Steps /\ b \in Steps /\ c \in Steps /\ d \in Steps /\ e \in Steps
        BY <1>4
    <2> HIDE DEF a, b, c, d, e
    <2>3. <<a, b, c, d, e>> \in Seq(Steps)
        BY <2>2
    <2> QED BY <2>1, <2>3, Zenon
<1>6. Len(Program("submit")) = 5
    BY <1>3
<1>7. /\ Program("submit")[1] = <<"load", "bountyId">>
      /\ Program("submit")[2] = <<"write", "submit_content">>
      /\ Program("submit")[3] = <<"load", "submissionId">>
      /\ Program("submit")[4] = <<"read", "submissions">>
      /\ Program("submit")[5] = <<"save", "submissionId">>
    BY <1>3
<1> QED BY <1>1, <1>5, <1>6, <1>7

\* The stage challenge-submit counts, evaluates, reads back and saves.
LEMMA ChallengeSubmitIs ==
    /\ "challenge_submit" \in Stages
    /\ Program("challenge_submit") \in Seq(Steps) /\ Len(Program("challenge_submit")) = 6
    /\ Program("challenge_submit")[1] = <<"load", "challengeBountyId">>
    /\ Program("challenge_submit")[2] = <<"write", "submit_content">>
    /\ Program("challenge_submit")[3] = <<"count", "submissions">>
    /\ Program("challenge_submit")[4] = <<"write", "evaluate_submission">>
    /\ Program("challenge_submit")[5] = <<"read", "submissions">>
    /\ Program("challenge_submit")[6] = <<"save", "challengeSubmissionId">>
<1>1. "challenge_submit" \in Stages
    BY StageNames DEF Stages, StageTables
<1>2. Program("challenge_submit") = ScenarioStages["challenge_submit"]
    BY <1>1, StageTable, StageNames DEF StageTables
<1> DEFINE first == SubmitAndEvaluate("challengeBountyId")
           save == <<"save", "challengeSubmissionId">>
           rest == <<save>>
<1>3. Program("challenge_submit") = first \o rest
    BY <1>2 DEF ScenarioStages
<1>4. save \in Steps
    BY DEF Steps, Keys
<1>5. "challengeBountyId" \in Keys
    BY DEF Keys, BountyKeys
<1>6. /\ first \in Seq(QuietSteps) /\ Len(first) = 5
      /\ first[1] = <<"load", "challengeBountyId">>
      /\ first[2] = <<"write", "submit_content">>
      /\ first[3] = <<"count", "submissions">>
      /\ first[4] = <<"write", "evaluate_submission">>
      /\ first[5] = <<"read", "submissions">>
    BY <1>5, SubmitAndEvaluateIs
<1> HIDE DEF save, first
<1>7. rest \in Seq(Steps) /\ Len(rest) = 1 /\ rest[1] = save
    BY <1>4
<1> HIDE DEF rest
<1>8. first \in Seq(Steps)
    BY <1>6 DEF Steps
<1>9. /\ Program("challenge_submit") \in Seq(Steps)
      /\ Joins(Program("challenge_submit"), first, rest)
    BY <1>3, <1>7, <1>8, Joined, Zenon
<1> QED BY <1>1, <1>6, <1>7, <1>9 DEF Joins, save

\* A program of at least one step, none of which is a save.
Quiet(program) == program \in Seq(QuietSteps) /\ Len(program) > 0

\* A program that is written out.
LEMMA WrittenOut ==
    ASSUME NEW a \in QuietSteps, NEW b \in QuietSteps, NEW c \in QuietSteps, NEW d \in QuietSteps
    PROVE  Quiet(<<a>>) /\ Quiet(<<a, b>>) /\ Quiet(<<a, b, c>>) /\ Quiet(<<a, b, c, d>>)
    BY DEF Quiet

\* The shared steps.
LEMMA QuietParts ==
    /\ Quiet(Evaluate) /\ Quiet(Review)
    /\ \A key \in Keys : Quiet(SubmitAndEvaluate(key))
    BY EvaluateIsQuiet, ReviewIsQuiet, SubmitAndEvaluateIs DEF Quiet

\* Quiet programs one after the other.
LEMMA QuietJoined ==
    ASSUME NEW s, NEW t, Quiet(s), Quiet(t)
    PROVE  Quiet(s \o t)
<1> DEFINE p == s \o t
<1> HIDE DEF p
<1>1. p \in Seq(QuietSteps) /\ Joins(p, s, t) /\ s \in Seq(QuietSteps) /\ t \in Seq(QuietSteps)
    BY Joined, Zenon DEF Quiet, p
<1>2. Len(s) > 0 /\ Len(t) > 0
    BY DEF Quiet
<1>3. Quiet(p)
    BY <1>1, <1>2 DEF Quiet, Joins
<1> QED BY <1>3 DEF p

\* A stage that posts a bounty and goes on quietly.
LEMMA QuietPost ==
    ASSUME NEW steps, Quiet(steps)
    PROVE  Quiet(PostAnd(steps))
    BY PostAndIs DEF Quiet

\* The stages, table by table.
LEMMA QuietApproval ==
    ASSUME NEW name \in DOMAIN ApprovalStages, name \notin SavingStages
    PROVE  Quiet(ApprovalStages[name])
<1>1. /\ <<"load", "submissionId">> \in QuietSteps
      /\ <<"write", "claim_reward">> \in QuietSteps
      /\ <<"write", "withdraw_reward">> \in QuietSteps
    BY DEF QuietSteps, WriteMethods, Keys
<1>2. Quiet(ApprovalStages["claim"])
    BY <1>1, WrittenOut, Zenon DEF ApprovalStages
<1>3. Quiet(ApprovalStages["withdraw"])
    BY <1>1, WrittenOut, Zenon DEF ApprovalStages
<1>4. Quiet(ApprovalStages["evaluate"])
    <2>1. Quiet(<<<<"load", "submissionId">>>>)
        BY <1>1, WrittenOut, Zenon
    <2> QED BY <2>1, QuietParts, QuietJoined, Zenon DEF ApprovalStages
<1> QED BY <1>2, <1>3, <1>4, StageNames DEF SavingStages, PostingStages

\* The stage refusals.
LEMMA QuietRefusal ==
    ASSUME NEW name \in DOMAIN RefusalStages
    PROVE  Quiet(RefusalStages[name])
<1>1. /\ <<"load", "submissionId">> \in QuietSteps
      /\ <<"refuse", "withdraw_reward">> \in QuietSteps
      /\ <<"refuse", "claim_reward">> \in QuietSteps
    BY DEF QuietSteps, WriteMethods, Keys
<1>2. Quiet(RefusalStages["refusals"])
    BY <1>1, WrittenOut, Zenon DEF RefusalStages
<1> QED BY <1>2, StageNames

\* The stage bond-withdraw.
LEMMA QuietScenario ==
    ASSUME NEW name \in DOMAIN ScenarioStages, name \notin SavingStages
    PROVE  Quiet(ScenarioStages[name])
<1>1. /\ <<"ask", "challenges">> \in QuietSteps
      /\ <<"decided", "SETTLED">> \in QuietSteps
      /\ <<"write", "withdraw_bond">> \in QuietSteps
    BY DEF QuietSteps, WriteMethods, Kinds
<1>2. Quiet(ScenarioStages["bond_withdraw"])
    BY <1>1, WrittenOut, Zenon DEF ScenarioStages
<1> QED BY <1>2, StageNames DEF SavingStages, PostingStages

\* The stages review, evaluate-id and challenge.
LEMMA QuietChallenge ==
    ASSUME NEW name \in DOMAIN ChallengeStages
    PROVE  Quiet(ChallengeStages[name])
<1>1. /\ <<"count", "latestChallenge">> \in QuietSteps
      /\ <<"confirm", "challenges">> \in QuietSteps
      /\ <<"ask", "submissions">> \in QuietSteps
      /\ <<"load", "challengeSubmissionId">> \in QuietSteps
      /\ <<"read", "submissions">> \in QuietSteps
      /\ <<"write", "challenge_submission">> \in QuietSteps
      /\ <<"count", "challenges">> \in QuietSteps
    BY DEF QuietSteps, WriteMethods, Kinds, Keys
<1>2. Quiet(ChallengeStages["review"])
    <2>1. Quiet(<<<<"count", "latestChallenge">>, <<"confirm", "challenges">>>>)
        BY <1>1, WrittenOut, Zenon
    <2> QED BY <2>1, QuietParts, QuietJoined, Zenon DEF ChallengeStages
<1>3. Quiet(ChallengeStages["evaluate_id"])
    <2>1. Quiet(<<<<"ask", "submissions">>>>)
        BY <1>1, WrittenOut, Zenon
    <2> QED BY <2>1, QuietParts, QuietJoined, Zenon DEF ChallengeStages
<1>4. Quiet(ChallengeStages["challenge"])
    <2>1. Quiet(<<<<"load", "challengeSubmissionId">>, <<"read", "submissions">>,
                <<"write", "challenge_submission">>, <<"count", "challenges">>>>)
        BY <1>1, WrittenOut, Zenon
    <2> QED BY <2>1, QuietParts, QuietJoined, Zenon DEF ChallengeStages
<1> QED BY <1>2, <1>3, <1>4, StageNames

\* The other stages of the injected scenario.
LEMMA QuietInjected ==
    ASSUME NEW name \in DOMAIN InjectedStages, name \notin SavingStages
    PROVE  Quiet(InjectedStages[name])
<1>1. /\ <<"ask", "submissions">> \in QuietSteps
      /\ <<"confirm", "submissions">> \in QuietSteps
      /\ "injectedBountyId" \in Keys
    BY DEF QuietSteps, Kinds, Keys, BountyKeys
<1>2. Quiet(InjectedStages["injected_submit"])
    BY <1>1, QuietParts, Zenon DEF InjectedStages
<1>3. Quiet(InjectedStages["evaluate_injected"])
    <2>1. Quiet(<<<<"ask", "submissions">>, <<"confirm", "submissions">>>>)
        BY <1>1, WrittenOut, Zenon
    <2> QED BY <2>1, QuietParts, QuietJoined, Zenon DEF InjectedStages
<1> QED BY <1>2, <1>3, StageNames DEF SavingStages, PostingStages

\* The stage refund.
LEMMA QuietRefund ==
    ASSUME NEW name \in DOMAIN RefundStages
    PROVE  Quiet(RefundStages[name])
<1>1. /\ <<"write", "cancel_bounty">> \in QuietSteps
      /\ <<"write", "withdraw_refund">> \in QuietSteps
    BY DEF QuietSteps, WriteMethods
<1>2. Quiet(RefundStages["refund"])
    BY <1>1, WrittenOut, QuietPost, Zenon DEF RefundStages
<1> QED BY <1>2, StageNames

\* Only five stages save an id.
LEMMA OtherStagesAreQuiet ==
    ASSUME NEW name \in Stages, name \notin SavingStages
    PROVE  Quiet(Program(name))
    BY StageTable, QuietApproval, QuietRefusal, QuietScenario, QuietChallenge, QuietInjected,
       QuietRefund DEF StageTables

\* Every stage has a program of at least one step.
LEMMA ProgramIs ==
    ASSUME NEW name \in Stages
    PROVE  Program(name) \in Seq(Steps) /\ Len(Program(name)) > 0
<1>1. CASE name \in {"challenge_post", "injected"}
    BY <1>1, ScenarioPostIs
<1>2. CASE name \in {"post", "submit", "challenge_submit"}
    BY <1>2, PostIs, SubmitIs, ChallengeSubmitIs
<1>3. CASE name \notin SavingStages
    BY <1>3, OtherStagesAreQuiet DEF Quiet, Steps
<1> QED BY <1>1, <1>2, <1>3 DEF SavingStages, PostingStages

-----------------------------------------------------------------------------
\* The records of a contract.

Statuses == {"OPEN", "CANCELLED", "PENDING", "APPROVED", "CLAIMED", "PROPOSED", "SETTLED"}

Records(kind) ==
    IF kind = "bounties" THEN [by : Makers, status : Statuses]
    ELSE IF kind = "submissions" THEN [by : Makers, bounty : Nat, status : Statuses]
    ELSE [submission : Nat, status : Statuses]

IsChain(c) == DOMAIN c = Kinds /\ \A kind \in Kinds : c[kind] \in Seq(Records(kind))

\* What never changes about a record.
SameRecord(kind, r, s) ==
    /\ kind \in {"bounties", "submissions"} => s["by"] = r["by"]
    /\ kind = "submissions" => s["bounty"] = r["bounty"]

\* Records are added at the end, and none is removed.
Kept(c, d) ==
    \A kind \in Kinds :
        /\ Len(c[kind]) <= Len(d[kind])
        /\ \A i \in 1..Len(c[kind]) : SameRecord(kind, c[kind][i], d[kind][i])

\* What is added is of the account that writes, a submission to the bounty it
\* is made to.
AddedBy(who, fn, n, c, d) ==
    /\ \A i \in 1..Len(d["bounties"]) :
           i > Len(c["bounties"]) => d["bounties"][i]["by"] = who
    /\ \A i \in 1..Len(d["submissions"]) :
           i > Len(c["submissions"]) =>
               /\ fn = "submit_content"
               /\ d["submissions"][i]["by"] = who /\ d["submissions"][i]["bounty"] = n

Place(kind, n) == IF kind = "challenges" THEN n ELSE n + 1

\* A contract is kept by doing nothing, and by what keeps what it was kept by.
LEMMA KeptIs ==
    ASSUME NEW c, IsChain(c)
    PROVE  /\ Kept(c, c)
           /\ \A d, e : IsChain(d) /\ Kept(c, d) /\ IsChain(e) /\ Kept(d, e) => Kept(c, e)
<1>1. ASSUME NEW kind \in Kinds PROVE Len(c[kind]) \in Nat
    BY DEF IsChain
<1>2. Kept(c, c)
    BY <1>1 DEF Kept, SameRecord
<1>3. ASSUME NEW d, NEW e, IsChain(d), Kept(c, d), IsChain(e), Kept(d, e)
      PROVE  Kept(c, e)
    <2> SUFFICES ASSUME NEW kind \in Kinds
                 PROVE  /\ Len(c[kind]) <= Len(e[kind])
                        /\ \A i \in 1..Len(c[kind]) : SameRecord(kind, c[kind][i], e[kind][i])
        BY DEF Kept
    <2>1. Len(c[kind]) \in Nat /\ Len(d[kind]) \in Nat /\ Len(e[kind]) \in Nat
        BY <1>1, <1>3 DEF IsChain
    <2>2. /\ Len(c[kind]) <= Len(d[kind]) /\ Len(d[kind]) <= Len(e[kind])
          /\ \A i \in 1..Len(c[kind]) : SameRecord(kind, c[kind][i], d[kind][i])
          /\ \A i \in 1..Len(d[kind]) : SameRecord(kind, d[kind][i], e[kind][i])
        BY <1>3 DEF Kept
    <2>3. \A i \in 1..Len(c[kind]) : SameRecord(kind, c[kind][i], e[kind][i])
        BY <2>1, <2>2 DEF SameRecord
    <2> QED BY <2>1, <2>2, <2>3
<1> QED BY <1>2, <1>3

\* The contract as it is deployed.
LEMMA EmptyIs == IsChain(Empty) /\ Kept(Empty, Empty)
<1>1. IsChain(Empty)
    BY DEF Empty, IsChain, Kinds
<1> QED BY <1>1, KeptIs

\* A record whose status changes is a record, and the same in the rest.
LEMMA RecordWithStatus ==
    ASSUME NEW kind \in Kinds, NEW r \in Records(kind), NEW value \in Statuses
    PROVE  /\ [r EXCEPT !["status"] = value] \in Records(kind)
           /\ SameRecord(kind, r, [r EXCEPT !["status"] = value])
<1>1. CASE kind = "bounties"
    <2>1. r \in [by : Makers, status : Statuses]
        BY <1>1 DEF Records
    <2>2. /\ [r EXCEPT !["status"] = value] \in [by : Makers, status : Statuses]
          /\ [r EXCEPT !["status"] = value]["by"] = r["by"]
        BY <2>1, ZenonT(60)
    <2> QED BY <1>1, <2>2 DEF Records, SameRecord
<1>2. CASE kind = "submissions"
    <2>1. r \in [by : Makers, bounty : Nat, status : Statuses]
        BY <1>2 DEF Records
    <2>2. [r EXCEPT !["status"] = value] \in [by : Makers, bounty : Nat, status : Statuses]
        BY <2>1, ZenonT(60)
    <2>3. [r EXCEPT !["status"] = value]["by"] = r["by"]
        BY <2>1, ZenonT(60)
    <2>4. [r EXCEPT !["status"] = value]["bounty"] = r["bounty"]
        BY <2>1, ZenonT(60)
    <2> QED BY <1>2, <2>2, <2>3, <2>4 DEF Records, SameRecord
<1>3. CASE kind = "challenges"
    <2>1. r \in [submission : Nat, status : Statuses]
        BY <1>3 DEF Records
    <2>2. [r EXCEPT !["status"] = value] \in [submission : Nat, status : Statuses]
        BY <2>1, ZenonT(60)
    <2> QED BY <1>3, <2>2 DEF Records, SameRecord
<1> QED BY <1>1, <1>2, <1>3 DEF Kinds

\* A status changes.
LEMMA SetKeeps ==
    ASSUME IsChain(chain), NEW kind \in Kinds, NEW n \in Nat, Exists(chain, kind, n),
           NEW value \in Statuses, NEW d, d = Set(kind, n, "status", value)
    PROVE  /\ IsChain(d) /\ Kept(chain, d)
           /\ \A k \in Kinds : Len(d[k]) = Len(chain[k])
<1> DEFINE s == chain[kind]
           p == Place(kind, n)
           r == [s[p] EXCEPT !["status"] = value]
           t == [s EXCEPT ![p] = r]
<1>1. s \in Seq(Records(kind)) /\ p \in 1..Len(s)
    BY DEF IsChain, Exists, Place, Kinds
<1>2. d = [chain EXCEPT ![kind] = t]
    BY DEF Set, Place
<1> HIDE DEF s, p
<1>3. r \in Records(kind) /\ SameRecord(kind, s[p], r)
    <2>1. s[p] \in Records(kind)
        BY <1>1, ElementOfSeq
    <2> QED BY <2>1, RecordWithStatus
<1> HIDE DEF r
<1>4. /\ t \in Seq(Records(kind)) /\ Len(t) = Len(s)
      /\ \A i \in 1..Len(s) : t[i] = IF i = p THEN r ELSE s[i]
    BY <1>1, <1>3
<1> HIDE DEF t
<1>5. DOMAIN d = Kinds /\ d[kind] = t /\ \A k \in Kinds : k # kind => d[k] = chain[k]
    BY <1>2 DEF IsChain
<1>6. IsChain(d)
    BY <1>4, <1>5 DEF IsChain
<1>7. \A k \in Kinds : Len(d[k]) = Len(chain[k]) /\ Len(chain[k]) \in Nat
    BY <1>4, <1>5 DEF s, IsChain
<1>8. ASSUME NEW k \in Kinds, NEW i \in 1..Len(chain[k])
      PROVE  SameRecord(k, chain[k][i], d[k][i])
    <2>1. CASE k = kind
        BY <1>3, <1>4, <1>5, <1>8, <2>1 DEF s, SameRecord
    <2>2. CASE k # kind
        BY <1>5, <2>2 DEF SameRecord
    <2> QED BY <2>1, <2>2
<1> QED BY <1>6, <1>7, <1>8 DEF Kept

\* A record is added.
LEMMA AddedKeeps ==
    ASSUME IsChain(chain), NEW kind \in Kinds, NEW r \in Records(kind),
           NEW d, d = Added(kind, r)
    PROVE  /\ IsChain(d) /\ Kept(chain, d)
           /\ d[kind][Len(chain[kind]) + 1] = r /\ Len(d[kind]) = Len(chain[kind]) + 1
           /\ \A k \in Kinds : k # kind => Len(d[k]) = Len(chain[k])
<1> DEFINE s == chain[kind]
           t == Append(s, r)
<1>1. s \in Seq(Records(kind))
    BY DEF IsChain
<1>2. d = [chain EXCEPT ![kind] = t]
    BY DEF Added
<1> HIDE DEF s
<1>3. /\ t \in Seq(Records(kind)) /\ Len(t) = Len(s) + 1 /\ Len(s) \in Nat
      /\ \A i \in 1..Len(s) : t[i] = s[i]
      /\ t[Len(s) + 1] = r
    BY <1>1, AppendProperties
<1> HIDE DEF t
<1>4. DOMAIN d = Kinds /\ d[kind] = t /\ \A k \in Kinds : k # kind => d[k] = chain[k]
    BY <1>2 DEF IsChain
<1>5. IsChain(d)
    BY <1>3, <1>4 DEF IsChain
<1>6. \A k \in Kinds : Len(chain[k]) <= Len(d[k])
    <2>1. \A k \in Kinds : Len(chain[k]) \in Nat
        BY DEF IsChain
    <2> QED BY <1>3, <1>4, <2>1 DEF s
<1>7. ASSUME NEW k \in Kinds, NEW i \in 1..Len(chain[k])
      PROVE  SameRecord(k, chain[k][i], d[k][i])
    <2>1. CASE k = kind
        BY <1>3, <1>4, <1>7, <2>1 DEF s, SameRecord
    <2>2. CASE k # kind
        BY <1>4, <2>2 DEF SameRecord
    <2> QED BY <2>1, <2>2
<1> QED BY <1>3, <1>4, <1>5, <1>6, <1>7 DEF Kept, s

\* What a write leaves.
LEMMA WriteKeeps ==
    ASSUME IsChain(chain), NEW who \in Makers, NEW fn \in WriteMethods, NEW n \in Nat,
           NEW d \in {chain} \union Effects(who, fn, n)
    PROVE  IsChain(d) /\ Kept(chain, d) /\ AddedBy(who, fn, n, chain, d)
<1>1. Len(chain["bounties"]) \in Nat /\ Len(chain["submissions"]) \in Nat
    BY DEF IsChain, Kinds
<1>2. CASE d = chain
    BY <1>1, <1>2, KeptIs DEF AddedBy
<1>3. ASSUME NEW kind \in Kinds, NEW from, NEW to \in SUBSET Statuses,
             d \in Moves(kind, n, "status", from, to)
      PROVE  IsChain(d) /\ Kept(chain, d) /\ AddedBy(who, fn, n, chain, d)
    <2>1. Exists(chain, kind, n) /\ \E value \in to : d = Set(kind, n, "status", value)
        BY <1>3 DEF Moves
    <2>2. /\ IsChain(d) /\ Kept(chain, d)
          /\ Len(d["submissions"]) = Len(chain["submissions"])
          /\ Len(d["bounties"]) = Len(chain["bounties"])
        BY <1>3, <2>1, SetKeeps DEF Kinds
    <2> QED BY <1>1, <2>2 DEF AddedBy
<1>4. CASE fn = "post_bounty" /\ d \in Effects(who, fn, n)
    <2> DEFINE r == [by |-> who, status |-> "OPEN"]
    <2>1. d = Added("bounties", r)
        BY <1>4 DEF Effects
    <2>2. r \in Records("bounties") /\ r["by"] = who
        BY DEF Records, Statuses
    <2> HIDE DEF r
    <2>3. /\ IsChain(d) /\ Kept(chain, d)
          /\ d["bounties"][Len(chain["bounties"]) + 1] = r
          /\ Len(d["bounties"]) = Len(chain["bounties"]) + 1
          /\ Len(d["submissions"]) = Len(chain["submissions"])
        BY <2>1, <2>2, AddedKeeps DEF Kinds
    <2> QED BY <1>1, <2>2, <2>3 DEF AddedBy
<1>5. CASE fn = "submit_content" /\ d \in Effects(who, fn, n)
    <2> DEFINE r == [by |-> who, bounty |-> n, status |-> "PENDING"]
    <2>1. d = Added("submissions", r)
        BY <1>5 DEF Effects
    <2>2. r \in Records("submissions") /\ r["by"] = who /\ r["bounty"] = n
        BY DEF Records, Statuses
    <2> HIDE DEF r
    <2>3. /\ IsChain(d) /\ Kept(chain, d)
          /\ d["submissions"][Len(chain["submissions"]) + 1] = r
          /\ Len(d["submissions"]) = Len(chain["submissions"]) + 1
          /\ Len(d["bounties"]) = Len(chain["bounties"])
        BY <2>1, <2>2, AddedKeeps DEF Kinds
    <2> QED BY <1>1, <1>5, <2>2, <2>3 DEF AddedBy
<1>6. CASE fn = "challenge_submission" /\ d \in Effects(who, fn, n)
    <2> DEFINE r == [submission |-> n, status |-> "OPEN"]
    <2>1. d = Added("challenges", r)
        BY <1>6 DEF Effects
    <2>2. r \in Records("challenges")
        BY DEF Records, Statuses
    <2> HIDE DEF r
    <2>3. /\ IsChain(d) /\ Kept(chain, d)
          /\ Len(d["submissions"]) = Len(chain["submissions"])
          /\ Len(d["bounties"]) = Len(chain["bounties"])
        BY <2>1, <2>2, AddedKeeps DEF Kinds
    <2> QED BY <1>1, <2>3 DEF AddedBy
<1>7. CASE fn = "evaluate_submission" /\ d \in Effects(who, fn, n)
    <2>1. d \in Moves("submissions", n, "status", {"PENDING"}, {"APPROVED"})
        BY <1>7 DEF Effects
    <2> QED BY <1>3, <2>1 DEF Statuses, Kinds
<1>8. CASE fn = "claim_reward" /\ d \in Effects(who, fn, n)
    <2>1. d \in Moves("submissions", n, "status", {"APPROVED"}, {"CLAIMED"})
        BY <1>8 DEF Effects
    <2> QED BY <1>3, <2>1 DEF Statuses, Kinds
<1>9. CASE fn = "review_challenge" /\ d \in Effects(who, fn, n)
    <2>1. d \in Moves("challenges", n, "status", {"OPEN"}, {"OPEN", "PROPOSED"})
        BY <1>9 DEF Effects
    <2> QED BY <1>3, <2>1 DEF Statuses, Kinds
<1>10. CASE fn = "finalize_challenge" /\ d \in Effects(who, fn, n)
    <2>1. d \in Moves("challenges", n, "status", {"PROPOSED"}, {"SETTLED"})
        BY <1>10 DEF Effects
    <2> QED BY <1>3, <2>1 DEF Statuses, Kinds
<1>11. CASE fn = "cancel_bounty" /\ d \in Effects(who, fn, n)
    <2>1. d \in Moves("bounties", n, "status", {"OPEN"}, {"CANCELLED"})
        BY <1>11 DEF Effects
    <2> QED BY <1>3, <2>1 DEF Statuses, Kinds
<1>12. CASE /\ fn \in {"withdraw_reward", "withdraw_bond", "withdraw_refund"}
            /\ d \in Effects(who, fn, n)
    BY <1>2, <1>12 DEF Effects
<1> QED
    BY <1>2, <1>4, <1>5, <1>6, <1>7, <1>8, <1>9, <1>10, <1>11, <1>12 DEF WriteMethods

-----------------------------------------------------------------------------
\* The inductive invariant.

TypeInv ==
    /\ IsChain(chain) /\ IsChain(shown) /\ Kept(shown, chain)
    /\ \A key \in DOMAIN file : file[key] \in Nat
    /\ adopted \subseteq DOMAIN file
    /\ id \in Nat
    /\ missed \in {"nothing", "stage", "more"}
    /\ stage = "none" \/ (stage \in Stages /\ at \in 1..Len(Program(stage)))

\* Reads that miss nothing count every record.
ShownInv ==
    missed = "nothing" =>
        /\ Len(shown["bounties"]) = Len(chain["bounties"])
        /\ Len(shown["submissions"]) = Len(chain["submissions"])

\* The bounties that bear the id n or a later one are of the run.
RunsFrom(n) ==
    \A i \in 1..Len(chain["bounties"]) : i > n => chain["bounties"][i]["by"] = "run"

\* And these submissions are too, made to the bounty of the scenario.
ScenariosFrom(n) ==
    \A i \in 1..Len(chain["submissions"]) :
        i > n => /\ chain["submissions"][i]["by"] = "run"
                 /\ chain["submissions"][i]["bounty"] = file["challengeBountyId"]

AdoptedBelow(n) == \A key \in adopted \intersect BountyKeys : file[key] < n

PostingPoint ==
    stage \in PostingStages =>
        /\ at = 1 => missed # "stage"
        /\ at > 1 /\ calm => RunsFrom(id) /\ AdoptedBelow(id)

SubmittingPoint ==
    stage = "challenge_submit" =>
        /\ at = 1 => missed # "stage"
        /\ at > 1 => "challengeBountyId" \in DOMAIN file
        /\ at = 2 => id = file["challengeBountyId"]
        /\ at \in {2, 3} /\ missed # "more" => ScenariosFrom(Len(shown["submissions"]))
        /\ at > 3 /\ calm => ScenariosFrom(id)

PointInv == PostingPoint /\ SubmittingPoint

FileInv == AdoptedRecordsAreTheScenarios /\ ScenariosShareNoBounty

MilestoneInv == TypeInv /\ ShownInv /\ PointInv /\ FileInv

-----------------------------------------------------------------------------
\* Steps and points.

\* The running step.
LEMMA StepIs ==
    ASSUME TypeInv, stage # "none"
    PROVE  /\ stage \in Stages /\ at \in 1..Len(Program(stage))
           /\ Step \in Steps
           /\ stage \notin SavingStages => Step \in QuietSteps
<1>1. stage \in Stages /\ at \in 1..Len(Program(stage))
    BY DEF TypeInv
<1>2. Step \in Steps
    BY <1>1, ProgramIs, ElementOfSeq DEF Step
<1>3. stage \notin SavingStages => Step \in QuietSteps
    BY <1>1, OtherStagesAreQuiet, ElementOfSeq DEF Step, Quiet
<1> QED BY <1>1, <1>2, <1>3

\* A stage that posts a bounty counts first, and saves the id last.
LEMMA PostingSteps ==
    ASSUME TypeInv, stage \in PostingStages
    PROVE  /\ at \in Nat /\ at > 0
           /\ at = 1 => Step = <<"count", "bounties">>
           /\ at > 1 => Step[1] \in {"write", "read", "save"}
           /\ Step[1] = "save" => at = Len(Program(stage)) /\ Step[2] \in BountyKeys
<1>1. stage # "none" /\ stage \in Stages /\ at \in 1..Len(Program(stage))
    BY StepIs DEF PostingStages
<1>2. CASE stage = "post"
    <2>1. Step = Program("post")[at] /\ Len(Program(stage)) = 4
        BY <1>2, PostIs DEF Step
    <2>2. at = 1 => Step = <<"count", "bounties">>
        BY <2>1, PostIs
    <2>3. at = 2 => Step = <<"write", "post_bounty">>
        BY <2>1, PostIs
    <2>4. at = 3 => Step = <<"read", "bounties">>
        BY <2>1, PostIs
    <2>5. at = 4 => Step = <<"save", "bountyId">>
        BY <2>1, PostIs
    <2> QED BY <1>1, <2>1, <2>2, <2>3, <2>4, <2>5 DEF BountyKeys
<1>3. CASE stage \in {"challenge_post", "injected"}
    <2>1. Step = Program(stage)[at] /\ Len(Program(stage)) = 3
        BY <1>3, ScenarioPostIs DEF Step
    <2>2. at = 1 => Step = <<"count", "bounties">>
        BY <1>3, <2>1, ScenarioPostIs
    <2>3. at = 2 => Step = <<"write", "post_bounty">>
        BY <1>3, <2>1, ScenarioPostIs
    <2>4. at = 3 => \E key \in BountyKeys : Step = <<"save", key>>
        BY <1>3, <2>1, ScenarioPostIs
    <2> QED BY <1>1, <2>1, <2>2, <2>3, <2>4
<1> QED BY <1>2, <1>3 DEF PostingStages

\* The stage challenge-submit.
LEMMA SubmittingSteps ==
    ASSUME TypeInv, stage = "challenge_submit"
    PROVE  /\ at \in 1..6
           /\ at = 1 => Step = <<"load", "challengeBountyId">>
           /\ at = 2 => Step = <<"write", "submit_content">>
           /\ at = 3 => Step = <<"count", "submissions">>
           /\ at = 4 => Step = <<"write", "evaluate_submission">>
           /\ at = 5 => Step = <<"read", "submissions">>
           /\ at = 6 => Step = <<"save", "challengeSubmissionId">>
           /\ Len(Program(stage)) = 6
<1>1. /\ Step = Program("challenge_submit")[at] /\ Program(stage) = Program("challenge_submit")
      /\ at \in 1..Len(Program(stage))
    BY StepIs DEF Step
<1>2. at = 1 => Step = <<"load", "challengeBountyId">>
    BY <1>1, ChallengeSubmitIs
<1>3. at = 2 => Step = <<"write", "submit_content">>
    BY <1>1, ChallengeSubmitIs
<1>4. at = 3 => Step = <<"count", "submissions">>
    BY <1>1, ChallengeSubmitIs
<1>5. at = 4 => Step = <<"write", "evaluate_submission">>
    BY <1>1, ChallengeSubmitIs
<1>6. at = 5 => Step = <<"read", "submissions">>
    BY <1>1, ChallengeSubmitIs
<1>7. at = 6 => Step = <<"save", "challengeSubmissionId">>
    BY <1>1, ChallengeSubmitIs
<1>8. Len(Program(stage)) = 6
    BY <1>1, ChallengeSubmitIs, Zenon
<1>9. at \in 1..6
    BY <1>1, <1>8
<1> QED BY <1>2, <1>3, <1>4, <1>5, <1>6, <1>7, <1>8, <1>9

\* A save is the last step of its stage.
LEMMA SavedAt ==
    ASSUME TypeInv, Running("save")
    PROVE  /\ at = Len(Program(stage)) /\ Step[2] \in Keys
           /\ Step[2] \in BountyKeys => stage \in PostingStages
           /\ Step[2] = "challengeSubmissionId" => stage = "challenge_submit"
<1>1. stage # "none" /\ Step[1] = "save"
    BY DEF Running
<1>2. CASE stage \notin SavingStages
    <2>1. Step \in QuietSteps
        BY <1>1, <1>2, StepIs
    <2> QED BY <1>1, <2>1 DEF QuietSteps
<1>3. CASE stage \in PostingStages
    BY <1>1, <1>3, PostingSteps DEF Keys, BountyKeys
<1>4. CASE stage = "submit"
    <2>1. at \in 1..5 /\ Step = Program("submit")[at] /\ Len(Program(stage)) = 5
        BY <1>1, <1>4, StepIs, SubmitIs DEF Step
    <2>2. at = 5
        BY <1>1, <2>1, SubmitIs
    <2>3. Step = <<"save", "submissionId">>
        BY <2>1, <2>2, SubmitIs
    <2> QED BY <2>1, <2>2, <2>3 DEF Keys, BountyKeys
<1>5. CASE stage = "challenge_submit"
    <2>1. at = 6 /\ Len(Program(stage)) = 6
        BY <1>1, <1>5, SubmittingSteps
    <2>2. Step = <<"save", "challengeSubmissionId">>
        BY <1>5, <2>1, SubmittingSteps
    <2> QED BY <1>5, <2>1, <2>2 DEF Keys, BountyKeys
<1> QED BY <1>2, <1>3, <1>4, <1>5 DEF SavingStages

\* A step of the program ends it or takes it one point on.
LEMMA GoesOn ==
    ASSUME TypeInv, stage # "none", NEW n \in Nat, Go(n) \/ End
    PROVE  /\ id' \in Nat
           /\ stage' = "none" \/ (stage' \in Stages /\ at' \in 1..Len(Program(stage')))
           /\ stage' = "none" \/ (Go(n) /\ stage' = stage /\ at' = at + 1 /\ id' = n)
<1>1. stage \in Stages /\ at \in 1..Len(Program(stage)) /\ Len(Program(stage)) \in Nat
    BY StepIs, ProgramIs
<1>2. CASE End
    BY <1>2 DEF End
<1>3. CASE Go(n) /\ at = Len(Program(stage))
    BY <1>3 DEF Go, End
<1>4. CASE Go(n) /\ at # Len(Program(stage))
    BY <1>1, <1>4 DEF Go
<1> QED BY <1>2, <1>3, <1>4

\* A stage that is over has nothing to keep.
LEMMA NoPoint ==
    ASSUME stage' = "none" PROVE PointInv'
    BY DEF PointInv, PostingPoint, SubmittingPoint, PostingStages

\* A guessed id is a number, and the next one if the page is long enough.
LEMMA NextIdIs ==
    ASSUME NEW c, IsChain(c), NEW kind \in Kinds \union {"latestChallenge"}
    PROVE  /\ NextId(c, kind) \in Nat
           /\ kind = "bounties" /\ Len(c["bounties"]) <= PageSize =>
                NextId(c, kind) = Len(c["bounties"])
           /\ kind = "submissions" => NextId(c, kind) = Len(c["submissions"])
<1>1. /\ Len(c["bounties"]) \in Nat /\ Len(c["submissions"]) \in Nat /\ Len(c["challenges"]) \in Nat
      /\ PageSize \in Nat
    BY MilestoneAssumption DEF IsChain, Kinds
<1>2. CASE kind = "bounties"
    <2>1. NextId(c, kind) = Min({Len(c["bounties"]), PageSize})
        BY <1>2 DEF NextId
    <2>2. ASSUME NEW n \in Nat, NEW m \in Nat
          PROVE  Min({n, m}) \in Nat /\ (n <= m => Min({n, m}) = n)
        <3>1. \E x \in {n, m} : \A y \in {n, m} : x <= y
            OBVIOUS
        <3> QED BY <3>1 DEF Min
    <2> QED BY <1>1, <1>2, <2>1, <2>2
<1>3. CASE kind \in {"submissions", "challenges", "latestChallenge"}
    BY <1>1, <1>3 DEF NextId
<1> QED BY <1>2, <1>3 DEF Kinds

\* A record stays what it is while the contract goes on.
LEMMA RecordStays ==
    ASSUME NEW c, NEW d, IsChain(c), IsChain(d), Kept(c, d), NEW n \in Nat,
           NEW kind \in {"bounties", "submissions"}, Exists(c, kind, n)
    PROVE  Exists(d, kind, n) /\ SameRecord(kind, c[kind][n + 1], d[kind][n + 1])
<1>1. /\ Len(c[kind]) \in Nat /\ Len(d[kind]) \in Nat
      /\ Len(c[kind]) <= Len(d[kind])
      /\ \A i \in 1..Len(c[kind]) : SameRecord(kind, c[kind][i], d[kind][i])
    BY DEF IsChain, Kept, Kinds
<1>2. n < Len(c[kind])
    BY DEF Exists
<1> QED BY <1>1, <1>2 DEF Exists

\* The file stays right while the contract goes on.
LEMMA FileStaysRight ==
    ASSUME TypeInv, FileInv, UNCHANGED <<file, adopted, aim>>, IsChain(chain'), Kept(chain, chain')
    PROVE  FileInv'
<1>1. ASSUME NEW n \in Nat, NEW kind \in {"bounties", "submissions"}, Exists(chain, kind, n)
      PROVE  Exists(chain', kind, n) /\ SameRecord(kind, chain[kind][n + 1], chain'[kind][n + 1])
    BY <1>1, RecordStays DEF TypeInv
<1>2. \A key \in adopted : file[key] \in Nat
    BY DEF TypeInv
<1>3. ASSUME NEW key \in adopted \intersect BountyKeys
      PROVE  /\ Exists(chain', "bounties", file[key])
             /\ chain'["bounties"][file[key] + 1]["by"] = "run"
    <2>1. /\ Exists(chain, "bounties", file[key])
          /\ chain["bounties"][file[key] + 1]["by"] = "run"
        BY DEF FileInv, AdoptedRecordsAreTheScenarios, Owns, Record
    <2> QED BY <1>1, <1>2, <2>1 DEF SameRecord
<1>4. ASSUME "challengeSubmissionId" \in adopted
      PROVE  /\ Exists(chain', "submissions", file["challengeSubmissionId"])
             /\ chain'["submissions"][file["challengeSubmissionId"] + 1]["by"] = "run"
             /\ chain'["submissions"][file["challengeSubmissionId"] + 1]["bounty"] = aim
    <2>1. /\ Exists(chain, "submissions", file["challengeSubmissionId"])
          /\ chain["submissions"][file["challengeSubmissionId"] + 1]["by"] = "run"
          /\ chain["submissions"][file["challengeSubmissionId"] + 1]["bounty"] = aim
        BY <1>4 DEF FileInv, AdoptedRecordsAreTheScenarios, Owns, Record
    <2> QED BY <1>1, <1>2, <1>4, <2>1 DEF SameRecord
<1>5. AdoptedRecordsAreTheScenarios'
    BY <1>3, <1>4 DEF AdoptedRecordsAreTheScenarios, Exists, Record, Owns
<1>6. ScenariosShareNoBounty'
    BY DEF FileInv, ScenariosShareNoBounty
<1> QED BY <1>5, <1>6 DEF FileInv

-----------------------------------------------------------------------------
\* The steps of the process.

\* Steps that leave the contract, what reads show of it and the file.
LEMMA ProcessStep ==
    ASSUME MilestoneInv, UNCHANGED <<chain, shown, file, missed, adopted, aim>>, id' \in Nat,
           stage' = "none" \/ (stage' \in Stages /\ at' \in 1..Len(Program(stage')))
    PROVE  TypeInv' /\ ShownInv' /\ FileInv'
<1>1. IsChain(chain') /\ Kept(chain, chain')
    BY KeptIs DEF MilestoneInv, TypeInv, IsChain
<1>2. FileInv'
    BY <1>1, FileStaysRight DEF MilestoneInv
<1>3. TypeInv'
    BY DEF MilestoneInv, TypeInv, IsChain, Kept
<1>4. ShownInv'
    BY DEF MilestoneInv, ShownInv
<1> QED BY <1>2, <1>3, <1>4

\* What the stages know of the contract stays as it is.
LEMMA KnownStays ==
    ASSUME UNCHANGED <<chain, shown, file, adopted>>
    PROVE  \A n : /\ RunsFrom(n) => RunsFrom(n)'
                  /\ ScenariosFrom(n) => ScenariosFrom(n)'
                  /\ AdoptedBelow(n) => AdoptedBelow(n)'
    BY DEF RunsFrom, ScenariosFrom, AdoptedBelow

\* A step with the same register, after the count, keeps what is known.
LEMMA RegisterStays ==
    ASSUME MilestoneInv, UNCHANGED <<chain, shown, file, calm, adopted>>,
           stage # "none", stage' = stage, at' = at + 1, id' = id,
           Step[1] \notin {"load", "ask", "count"},
           stage = "challenge_submit" => at > 3
    PROVE  PointInv'
<1>1. TypeInv /\ PointInv
    BY DEF MilestoneInv
<1>2. ASSUME stage \in PostingStages PROVE PostingPoint'
    <2>1. at \in Nat /\ at > 1
        BY <1>1, <1>2, PostingSteps
    <2> QED BY <1>1, <1>2, <2>1, KnownStays DEF PointInv, PostingPoint
<1>3. ASSUME stage = "challenge_submit" PROVE SubmittingPoint'
    <2>1. at \in Nat /\ at > 3
        BY <1>1, <1>3, SubmittingSteps
    <2> QED BY <1>1, <1>3, <2>1, KnownStays DEF PointInv, SubmittingPoint
<1> QED BY <1>2, <1>3 DEF PointInv, PostingPoint, SubmittingPoint

\* A step of other stages has no point to keep.
LEMMA ElsewhereNoPoint ==
    ASSUME stage' = "none" \/ stage' = stage,
           stage \notin PostingStages, stage # "challenge_submit"
    PROVE  PointInv'
    BY DEF PointInv, PostingPoint, SubmittingPoint, PostingStages

\* The count is the next id, or not calm.
LEMMA CountStep == MilestoneInv /\ Count => MilestoneInv'
<1> SUFFICES ASSUME MilestoneInv, Count PROVE MilestoneInv'
    OBVIOUS
<1> DEFINE n == NextId(shown, Step[2])
<1>1. /\ TypeInv /\ ShownInv /\ PointInv /\ FileInv /\ stage # "none" /\ Step[1] = "count"
      /\ Go(n)
      /\ calm' = (missed # "more" /\ (Step[2] = "bounties" => Len(shown.bounties) <= PageSize))
      /\ UNCHANGED <<chain, shown, file, missed, adopted, aim>>
    BY DEF MilestoneInv, Count, Running
<1>2. Step[2] \in Kinds \union {"latestChallenge"}
    BY <1>1, StepIs DEF Steps, QuietSteps
<1>3. /\ n \in Nat
      /\ Step[2] = "bounties" /\ Len(shown["bounties"]) <= PageSize => n = Len(shown["bounties"])
      /\ Step[2] = "submissions" => n = Len(shown["submissions"])
    BY <1>1, <1>2, NextIdIs DEF TypeInv
<1> HIDE DEF n
<1>4. /\ TypeInv' /\ ShownInv' /\ FileInv'
      /\ stage' = "none" \/ (stage' = stage /\ at' = at + 1 /\ id' = n)
    BY <1>1, <1>3, GoesOn, ProcessStep
<1>5. ASSUME stage' = stage, at' = at + 1, id' = n, stage \in PostingStages
      PROVE  PostingPoint'
    <2>1. at = 1 /\ Step = <<"count", "bounties">>
        BY <1>1, <1>5, PostingSteps
    <2>2. missed # "stage"
        BY <1>1, <1>5, <2>1 DEF PointInv, PostingPoint
    <2>3. ASSUME calm'
          PROVE  RunsFrom(n) /\ AdoptedBelow(n)
        <3>1. n = Len(shown["bounties"]) /\ missed = "nothing"
            BY <1>1, <1>3, <2>1, <2>2, <2>3 DEF TypeInv
        <3>2. n = Len(chain["bounties"]) /\ n \in Nat
            BY <1>1, <1>3, <3>1 DEF ShownInv
        <3>3. \A key \in adopted \intersect BountyKeys : file[key] < n
            BY <1>1, <3>2 DEF FileInv, AdoptedRecordsAreTheScenarios, Owns, Exists
        <3> QED BY <3>2, <3>3 DEF RunsFrom, AdoptedBelow
    <2>4. calm' => RunsFrom(id)' /\ AdoptedBelow(id)'
        BY <1>1, <1>5, <2>3 DEF RunsFrom, AdoptedBelow
    <2>5. at' # 1
        BY <1>5, <2>1
    <2> QED BY <2>4, <2>5 DEF PostingPoint
<1>6. ASSUME stage' = stage, at' = at + 1, id' = n, stage = "challenge_submit"
      PROVE  SubmittingPoint'
    <2>1. at = 3 /\ Step = <<"count", "submissions">>
        BY <1>1, <1>6, SubmittingSteps
    <2>2. /\ "challengeBountyId" \in DOMAIN file
          /\ missed # "more" => ScenariosFrom(n)
        BY <1>1, <1>3, <1>6, <2>1 DEF PointInv, SubmittingPoint
    <2>3. calm' => ScenariosFrom(id)'
        <3>1. calm' => missed # "more"
            BY <1>1
        <3> QED BY <1>1, <1>6, <2>2, <3>1 DEF ScenariosFrom
    <2>4. at' = 4
        BY <1>6, <2>1
    <2> QED BY <1>1, <2>2, <2>3, <2>4 DEF SubmittingPoint
<1>7. PointInv'
    BY <1>4, <1>5, <1>6, NoPoint DEF PointInv, PostingPoint, SubmittingPoint
<1> QED BY <1>4, <1>7 DEF MilestoneInv

\* Reading, polling and reading a challenge back keep the register.
LEMMA ReadStep == MilestoneInv /\ (ReadRecord \/ Confirm \/ Decided) => MilestoneInv'
<1> SUFFICES ASSUME MilestoneInv, ReadRecord \/ Confirm \/ Decided PROVE MilestoneInv'
    OBVIOUS
<1>1. /\ TypeInv /\ stage # "none" /\ Step[1] \in {"read", "confirm", "decided"}
      /\ Go(id) \/ End
      /\ UNCHANGED <<chain, shown, file, missed, calm, adopted, aim>>
    BY DEF MilestoneInv, ReadRecord, Confirm, Decided, Running, history
<1>2. /\ TypeInv' /\ ShownInv' /\ FileInv'
      /\ stage' = "none" \/ (stage' = stage /\ at' = at + 1 /\ id' = id)
    BY <1>1, GoesOn, ProcessStep DEF TypeInv
<1>3. stage = "challenge_submit" => at > 3
    BY <1>1, SubmittingSteps
<1> QED BY <1>1, <1>2, <1>3, RegisterStays, NoPoint DEF MilestoneInv

\* No stage that saves the id of a bounty or of the challenge submission is
\* given an id by the operator.
LEMMA AskStep == MilestoneInv /\ Ask => MilestoneInv'
<1> SUFFICES ASSUME MilestoneInv, Ask PROVE MilestoneInv'
    OBVIOUS
<1>1. /\ TypeInv /\ stage # "none" /\ Step[1] = "ask"
      /\ UNCHANGED <<chain, shown, file, missed, calm, adopted, aim>>
    BY DEF MilestoneInv, Ask, Running, history
<1>2. PICK n \in Nat : Go(n)
    BY MilestoneAssumption DEF Ask
<1>3. /\ TypeInv' /\ ShownInv' /\ FileInv'
      /\ stage' = "none" \/ stage' = stage
    BY <1>1, <1>2, GoesOn, ProcessStep
<1>4. stage # "challenge_submit" /\ stage \notin PostingStages
    BY <1>1, SubmittingSteps, PostingSteps
<1> QED BY <1>3, <1>4, ElsewhereNoPoint DEF MilestoneInv

\* The challenge scenario starts from the bounty in the file.
LEMMA LoadStep == MilestoneInv /\ Load => MilestoneInv'
<1> SUFFICES ASSUME MilestoneInv, Load PROVE MilestoneInv'
    OBVIOUS
<1>1. /\ TypeInv /\ ShownInv /\ PointInv /\ stage # "none" /\ Step[1] = "load"
      /\ UNCHANGED <<chain, shown, file, missed, calm, adopted, aim>>
    BY DEF MilestoneInv, Load, Running, history
<1>2. PICK n \in Nat :
        /\ Go(n) \/ End
        /\ \/ Step[2] \in DOMAIN file /\ n = file[Step[2]]
           \/ Step[2] \in {"bountyId", "submissionId"}
           \/ End
    <2>1. CASE Step[2] \in DOMAIN file
        BY <1>1, <2>1 DEF Load, TypeInv
    <2>2. CASE Step[2] \notin DOMAIN file
        BY <2>2 DEF Load
    <2> QED BY <2>1, <2>2
<1>3. /\ TypeInv' /\ ShownInv' /\ FileInv'
      /\ stage' = "none" \/ (Go(n) /\ stage' = stage /\ at' = at + 1 /\ id' = n)
    BY <1>1, <1>2, GoesOn, ProcessStep
<1>4. stage \notin PostingStages
    BY <1>1, PostingSteps
<1>5. ASSUME stage = "challenge_submit", stage' = stage, at' = at + 1, id' = n
      PROVE  SubmittingPoint'
    <2>1. at = 1 /\ Step[2] = "challengeBountyId"
        BY <1>1, <1>5, SubmittingSteps
    <2>2. "challengeBountyId" \in DOMAIN file /\ n = file["challengeBountyId"]
        BY <1>2, <1>5, <2>1 DEF End
    <2>3. missed # "more" => missed = "nothing"
        BY <1>1, <1>5, <2>1 DEF PointInv, SubmittingPoint, TypeInv
    <2>4. missed # "more" => Len(shown["submissions"]) = Len(chain["submissions"])
        BY <1>1, <2>3 DEF ShownInv
    <2>5. missed # "more" => ScenariosFrom(Len(shown["submissions"]))'
        <3>1. Len(chain["submissions"]) \in Nat
            BY <1>1 DEF TypeInv, IsChain, Kinds
        <3> QED BY <1>1, <2>4, <3>1 DEF ScenariosFrom
    <2> QED BY <1>1, <1>5, <2>1, <2>2, <2>5 DEF SubmittingPoint
<1> QED BY <1>3, <1>4, <1>5, NoPoint DEF MilestoneInv, PointInv, PostingPoint, SubmittingPoint

\* A record is adopted only where its point says what it is.
LEMMA SaveStep == MilestoneInv /\ Save => MilestoneInv'
<1> SUFFICES ASSUME MilestoneInv, Save PROVE MilestoneInv'
    OBVIOUS
<1> DEFINE key == Step[2]
<1>1. /\ TypeInv /\ ShownInv /\ PointInv /\ FileInv /\ stage # "none" /\ id \in Nat
      /\ Running("save") /\ Step[1] = "save"
      /\ UNCHANGED <<chain, shown, missed>>
      /\ Go(id)
      /\ file' = [k \in DOMAIN file \union {key} |-> IF k = key THEN id ELSE file[k]]
      /\ adopted' = IF calm /\ Exists(chain, KindOf(key), id)
                    THEN adopted \union {key} ELSE adopted \ {key}
      /\ aim' = IF key = "challengeSubmissionId" THEN file["challengeBountyId"] ELSE aim
    BY DEF MilestoneInv, TypeInv, Save, Running
<1>2. /\ at = Len(Program(stage)) /\ key \in Keys
      /\ key \in BountyKeys => stage \in PostingStages
      /\ key = "challengeSubmissionId" => stage = "challenge_submit"
    BY <1>1, SavedAt
<1> HIDE DEF key
<1>3. stage' = "none" /\ id' \in Nat
    BY <1>1, <1>2 DEF Go, End
<1>4. /\ DOMAIN file' = DOMAIN file \union {key}
      /\ file'[key] = id
      /\ \A k \in DOMAIN file : k # key => file'[k] = file[k]
    BY <1>1
<1>5. adopted \subseteq DOMAIN file /\ adopted' \subseteq adopted \union {key}
    BY <1>1 DEF TypeInv
<1>6. \A k \in adopted' : k # key => k \in adopted /\ file'[k] = file[k]
    BY <1>4, <1>5
<1>7. ASSUME key \in adopted', key \in BountyKeys
      PROVE  Owns("run", "bounties", id) /\ AdoptedBelow(id)
    <2>1. calm /\ Exists(chain, "bounties", id)
        BY <1>1, <1>7 DEF KindOf
    <2>2. at \in Nat /\ at > 1
        BY <1>1, <1>2, <1>7, PostingSteps
    <2>3. RunsFrom(id) /\ AdoptedBelow(id)
        BY <1>1, <1>2, <1>7, <2>1, <2>2 DEF PointInv, PostingPoint
    <2>4. chain["bounties"][id + 1]["by"] = "run"
        <3>1. id < Len(chain["bounties"]) /\ Len(chain["bounties"]) \in Nat
            BY <1>1, <2>1 DEF Exists, TypeInv, IsChain, Kinds
        <3> QED BY <1>1, <2>3, <3>1 DEF RunsFrom
    <2> QED BY <2>1, <2>3, <2>4 DEF Owns, Record
<1>8. ASSUME key \in adopted', key = "challengeSubmissionId"
      PROVE  /\ Owns("run", "submissions", id)
             /\ Record(chain, "submissions", id)["bounty"] = file["challengeBountyId"]
    <2>1. calm /\ Exists(chain, "submissions", id)
        BY <1>1, <1>8 DEF KindOf, BountyKeys
    <2>2. at = 6
        BY <1>1, <1>2, <1>8, SubmittingSteps
    <2>3. ScenariosFrom(id)
        BY <1>1, <1>2, <1>8, <2>1, <2>2 DEF PointInv, SubmittingPoint
    <2>4. /\ chain["submissions"][id + 1]["by"] = "run"
          /\ chain["submissions"][id + 1]["bounty"] = file["challengeBountyId"]
        <3>1. id < Len(chain["submissions"]) /\ Len(chain["submissions"]) \in Nat
            BY <1>1, <2>1 DEF Exists, TypeInv, IsChain, Kinds
        <3> QED BY <1>1, <2>3, <3>1 DEF ScenariosFrom
    <2> QED BY <2>1, <2>4 DEF Owns, Record
<1>9. TypeInv'
    <2>1. \A k \in DOMAIN file' : file'[k] \in Nat
        BY <1>1, <1>4 DEF TypeInv
    <2>2. adopted' \subseteq DOMAIN file'
        BY <1>4, <1>5
    <2>3. /\ IsChain(chain)' /\ IsChain(shown)' /\ Kept(shown, chain)'
          /\ missed' \in {"nothing", "stage", "more"}
        BY <1>1 DEF TypeInv, IsChain, Kept
    <2> QED BY <1>3, <2>1, <2>2, <2>3 DEF TypeInv
<1>10. AdoptedRecordsAreTheScenarios'
    <2>1. ASSUME NEW k \in adopted' \intersect BountyKeys
          PROVE  Owns("run", "bounties", file'[k])
        <3>1. CASE k = key
            BY <1>4, <1>7, <2>1, <3>1
        <3>2. CASE k # key
            BY <1>1, <1>6, <2>1, <3>2 DEF FileInv, AdoptedRecordsAreTheScenarios
        <3> QED BY <3>1, <3>2
    <2>2. ASSUME "challengeSubmissionId" \in adopted'
          PROVE  /\ Owns("run", "submissions", file'["challengeSubmissionId"])
                 /\ Record(chain, "submissions", file'["challengeSubmissionId"])["bounty"] = aim'
        <3>1. CASE key = "challengeSubmissionId"
            BY <1>1, <1>4, <1>8, <2>2, <3>1
        <3>2. CASE key # "challengeSubmissionId"
            BY <1>1, <1>6, <2>2, <3>2 DEF FileInv, AdoptedRecordsAreTheScenarios
        <3> QED BY <3>1, <3>2
    <2> QED BY <1>1, <2>1, <2>2 DEF AdoptedRecordsAreTheScenarios, Owns, Exists, Record
<1>11. ScenariosShareNoBounty'
    <2> SUFFICES ASSUME NEW k \in adopted' \intersect BountyKeys,
                        NEW other \in adopted' \intersect BountyKeys,
                        file'[k] = file'[other]
                 PROVE  k = other
        BY DEF ScenariosShareNoBounty
    <2>1. ASSUME NEW j \in adopted' \intersect BountyKeys, j # key, key \in adopted' \intersect BountyKeys
          PROVE  file'[j] # file'[key]
        <3>1. j \in adopted \intersect BountyKeys /\ file'[j] = file[j] /\ file[j] \in Nat
            BY <1>1, <1>6, <2>1 DEF TypeInv
        <3>2. file[j] < id
            BY <1>7, <2>1, <3>1 DEF AdoptedBelow
        <3> QED BY <1>1, <1>4, <3>1, <3>2
    <2>2. CASE k # key /\ other # key
        BY <1>1, <1>6, <2>2 DEF FileInv, ScenariosShareNoBounty
    <2>3. CASE k = key \/ other = key
        BY <2>1, <2>3
    <2> QED BY <2>2, <2>3
<1>12. ShownInv'
    BY <1>1 DEF ShownInv
<1> QED BY <1>3, <1>9, <1>10, <1>11, <1>12, NoPoint DEF MilestoneInv, FileInv

-----------------------------------------------------------------------------
\* The steps of the contract.

\* A transaction, of the running stage or from elsewhere.
LEMMA Transaction ==
    ASSUME MilestoneInv, NEW who \in Makers, NEW fn \in WriteMethods, NEW n \in Nat,
           chain' \in {chain} \union Effects(who, fn, n), missed' \in {"stage", "more"},
           UNCHANGED <<shown, file, adopted, aim>>, id' \in Nat,
           stage' = "none" \/ (stage' \in Stages /\ at' \in 1..Len(Program(stage')))
    PROVE  /\ TypeInv' /\ ShownInv' /\ FileInv'
           /\ Kept(chain, chain') /\ AddedBy(who, fn, n, chain, chain')
<1>1. TypeInv /\ FileInv
    BY DEF MilestoneInv
<1>2. IsChain(chain') /\ Kept(chain, chain') /\ AddedBy(who, fn, n, chain, chain')
    BY <1>1, WriteKeeps DEF TypeInv
<1>3. FileInv'
    BY <1>1, <1>2, FileStaysRight
<1>4. IsChain(chain)' /\ IsChain(shown)'
    BY <1>1, <1>2 DEF TypeInv, IsChain
<1>5. Kept(shown, chain)'
    <2>1. Kept(shown, chain')
        BY <1>1, <1>2, KeptIs DEF TypeInv
    <2> QED BY <2>1 DEF Kept
<1>6. TypeInv'
    BY <1>1, <1>4, <1>5 DEF TypeInv
<1>7. ShownInv'
    BY DEF ShownInv
<1> QED BY <1>2, <1>3, <1>6, <1>7

\* What the run adds is the run's.
LEMMA RunAdds ==
    ASSUME MilestoneInv, NEW fn, NEW m \in Nat, IsChain(chain'), Kept(chain, chain'),
           AddedBy("run", fn, m, chain, chain'), UNCHANGED file, NEW n \in Nat
    PROVE  /\ RunsFrom(n) =>
                \A i \in 1..Len(chain'["bounties"]) : i > n => chain'["bounties"][i]["by"] = "run"
           /\ ScenariosFrom(n) /\ (fn = "submit_content" => m = file["challengeBountyId"]) =>
                \A i \in 1..Len(chain'["submissions"]) :
                    i > n => /\ chain'["submissions"][i]["by"] = "run"
                             /\ chain'["submissions"][i]["bounty"] = file["challengeBountyId"]
<1>1. /\ Len(chain["bounties"]) \in Nat /\ Len(chain["submissions"]) \in Nat
      /\ Len(chain'["bounties"]) \in Nat /\ Len(chain'["submissions"]) \in Nat
    BY DEF MilestoneInv, TypeInv, IsChain, Kinds
<1>2. ASSUME RunsFrom(n), NEW i \in 1..Len(chain'["bounties"]), i > n
      PROVE  chain'["bounties"][i]["by"] = "run"
    <2>1. CASE i > Len(chain["bounties"])
        BY <2>1 DEF AddedBy
    <2>2. CASE i \in 1..Len(chain["bounties"])
        <3>1. SameRecord("bounties", chain["bounties"][i], chain'["bounties"][i])
            BY <2>2 DEF Kept, Kinds
        <3> QED BY <1>2, <2>2, <3>1 DEF RunsFrom, SameRecord
    <2> QED BY <1>1, <2>1, <2>2
<1>3. ASSUME ScenariosFrom(n), fn = "submit_content" => m = file["challengeBountyId"],
             NEW i \in 1..Len(chain'["submissions"]), i > n
      PROVE  /\ chain'["submissions"][i]["by"] = "run"
             /\ chain'["submissions"][i]["bounty"] = file["challengeBountyId"]
    <2>1. CASE i > Len(chain["submissions"])
        BY <1>3, <2>1 DEF AddedBy
    <2>2. CASE i \in 1..Len(chain["submissions"])
        <3>1. SameRecord("submissions", chain["submissions"][i], chain'["submissions"][i])
            BY <2>2 DEF Kept, Kinds
        <3> QED BY <1>3, <2>2, <3>1 DEF ScenariosFrom, SameRecord
    <2> QED BY <1>1, <2>1, <2>2
<1> QED BY <1>2, <1>3

\* What the stage sends keeps what it knows.
LEMMA SendsStep == MilestoneInv /\ (Write \/ Refuse) => MilestoneInv'
<1> SUFFICES ASSUME MilestoneInv, Write \/ Refuse PROVE MilestoneInv'
    OBVIOUS
<1>1. /\ TypeInv /\ PointInv /\ stage # "none" /\ Step[1] \in {"write", "refuse"}
      /\ id \in Nat
      /\ chain' \in {chain} \union Effects("run", Step[2], id)
      /\ missed' = IF missed = "more" THEN "more" ELSE "stage"
      /\ UNCHANGED <<shown, file, calm, adopted, aim>>
      /\ Go(id) \/ UNCHANGED <<stage, at, id>>
    BY DEF MilestoneInv, TypeInv, Write, Refuse, Sends, Running
<1>2. Step[2] \in WriteMethods
    <2>1. Step \in Steps
        BY <1>1, StepIs
    <2> QED BY <1>1, <2>1 DEF Steps, QuietSteps
<1>3. /\ id' \in Nat
      /\ stage' = "none" \/ (stage' \in Stages /\ at' \in 1..Len(Program(stage')))
      /\ stage' = "none" \/ (stage' = stage /\ at' \in {at, at + 1} /\ id' = id)
    BY <1>1, GoesOn DEF TypeInv
<1>4. "run" \in Makers /\ missed' \in {"stage", "more"}
    BY <1>1 DEF Makers
<1>5. /\ TypeInv' /\ ShownInv' /\ FileInv'
      /\ Kept(chain, chain') /\ AddedBy("run", Step[2], id, chain, chain')
    BY <1>1, <1>2, <1>3, <1>4, Transaction
<1>6. IsChain(chain') /\ Len(shown["submissions"]) \in Nat
    BY <1>1, <1>5 DEF TypeInv, IsChain, Kinds
<1>7. ASSUME NEW n \in Nat
      PROVE  /\ RunsFrom(n) =>
                  \A i \in 1..Len(chain'["bounties"]) : i > n => chain'["bounties"][i]["by"] = "run"
             /\ ScenariosFrom(n) /\ (Step[2] = "submit_content" => id = file["challengeBountyId"]) =>
                  \A i \in 1..Len(chain'["submissions"]) :
                      i > n => /\ chain'["submissions"][i]["by"] = "run"
                               /\ chain'["submissions"][i]["bounty"] = file["challengeBountyId"]
    BY <1>1, <1>5, <1>6, RunAdds
<1>8. ASSUME stage' = stage, at' \in {at, at + 1}, id' = id, stage \in PostingStages
      PROVE  PostingPoint'
    <2>1. at \in Nat /\ at > 1
        BY <1>1, <1>8, PostingSteps
    <2>2. ASSUME calm' PROVE RunsFrom(id)' /\ AdoptedBelow(id)'
        <3>1. RunsFrom(id) /\ AdoptedBelow(id)
            BY <1>1, <1>8, <2>1, <2>2 DEF PointInv, PostingPoint
        <3> QED BY <1>1, <1>7, <1>8, <3>1 DEF RunsFrom, AdoptedBelow
    <2>3. at' # 1
        BY <1>8, <2>1
    <2> QED BY <2>2, <2>3 DEF PostingPoint
<1>9. ASSUME stage' = stage, at' \in {at, at + 1}, id' = id, stage = "challenge_submit"
      PROVE  SubmittingPoint'
    <2>1. at \in {2, 4} /\ "challengeBountyId" \in DOMAIN file
        BY <1>1, <1>9, SubmittingSteps DEF PointInv, SubmittingPoint
    <2>2. CASE at = 2
        <3>1. id = file["challengeBountyId"]
            BY <1>1, <1>9, <2>2 DEF PointInv, SubmittingPoint
        <3>2. ASSUME missed' # "more" PROVE ScenariosFrom(Len(shown["submissions"]))'
            <4>1. ScenariosFrom(Len(shown["submissions"]))
                BY <1>1, <1>9, <2>2, <3>2 DEF PointInv, SubmittingPoint
            <4> QED BY <1>1, <1>6, <1>7, <3>1, <4>1 DEF ScenariosFrom
        <3>3. at' \in {2, 3}
            BY <1>9, <2>2
        <3> QED BY <1>1, <1>9, <2>1, <3>1, <3>2, <3>3 DEF SubmittingPoint
    <2>3. CASE at = 4
        <3>1. Step[2] = "evaluate_submission"
            BY <1>1, <1>9, <2>3, SubmittingSteps
        <3>2. ASSUME calm' PROVE ScenariosFrom(id)'
            <4>1. ScenariosFrom(id)
                BY <1>1, <1>9, <2>3, <3>2 DEF PointInv, SubmittingPoint
            <4> QED BY <1>1, <1>7, <1>9, <3>1, <4>1 DEF ScenariosFrom
        <3>3. at' \in {4, 5}
            BY <1>9, <2>3
        <3> QED BY <1>1, <2>1, <3>2, <3>3 DEF SubmittingPoint
    <2> QED BY <2>1, <2>2, <2>3
<1>10. PointInv'
    BY <1>3, <1>8, <1>9, NoPoint DEF PointInv, PostingPoint, SubmittingPoint
<1> QED BY <1>5, <1>10 DEF MilestoneInv

\* A transaction from elsewhere ends the calm, and reads miss more.
LEMMA ElsewhereStep == MilestoneInv /\ Elsewhere => MilestoneInv'
<1> SUFFICES ASSUME MilestoneInv, Elsewhere PROVE MilestoneInv'
    OBVIOUS
<1>1. /\ TypeInv /\ PointInv
      /\ missed' = "more" /\ calm' = FALSE
      /\ UNCHANGED <<shown, file, stage, at, id, adopted, aim>>
    BY DEF MilestoneInv, Elsewhere, process
<1>2. PICK who \in Makers, fn \in WriteMethods, n \in Nat : chain' \in Effects(who, fn, n)
    <2>1. PICK who \in Makers, fn \in WriteMethods,
               n \in UNION {0..Len(chain[kind]) : kind \in DOMAIN chain} :
                   chain' \in Effects(who, fn, n) \ {chain}
        BY DEF Elsewhere
    <2>2. n \in Nat
        <3>1. \A kind \in DOMAIN chain : 0..Len(chain[kind]) \subseteq Nat
            BY <1>1 DEF TypeInv, IsChain
        <3> QED BY <2>1, <3>1
    <2> QED BY <2>1, <2>2
<1>3. id' \in Nat /\ (stage' = "none" \/ (stage' \in Stages /\ at' \in 1..Len(Program(stage'))))
    BY <1>1 DEF TypeInv
<1>4. TypeInv' /\ ShownInv' /\ FileInv'
    BY <1>1, <1>2, <1>3, Transaction
<1>5. PointInv'
    BY <1>1 DEF PointInv, PostingPoint, SubmittingPoint
<1> QED BY <1>4, <1>5 DEF MilestoneInv

\* Reads catch up.
LEMMA ShowStep == MilestoneInv /\ Show => MilestoneInv'
<1> SUFFICES ASSUME MilestoneInv, Show PROVE MilestoneInv'
    OBVIOUS
<1>1. /\ TypeInv /\ PointInv /\ FileInv /\ IsChain(chain)
      /\ shown' = chain /\ missed' = "nothing"
      /\ UNCHANGED <<chain, file, stage, at, id, calm, adopted, aim>>
    BY DEF MilestoneInv, TypeInv, Show, process
<1>2. Kept(chain, chain) /\ Kept(chain, chain') /\ IsChain(chain')
    BY <1>1, KeptIs DEF IsChain
<1>3. FileInv'
    BY <1>1, <1>2, FileStaysRight
<1>4. IsChain(chain)' /\ IsChain(shown)' /\ Kept(shown, chain)'
    BY <1>1, <1>2 DEF IsChain, Kept
<1>5. TypeInv'
    BY <1>1, <1>4 DEF TypeInv
<1>6. ShownInv'
    BY <1>1 DEF ShownInv
<1>7. PostingPoint'
    BY <1>1 DEF PointInv, PostingPoint, RunsFrom, AdoptedBelow
<1>8. ScenariosFrom(Len(shown["submissions"]))'
    <2>1. Len(chain["submissions"]) \in Nat
        BY <1>1 DEF IsChain, Kinds
    <2> QED BY <1>1, <2>1 DEF ScenariosFrom
<1>9. SubmittingPoint'
    <2>1. ScenariosFrom(id) => ScenariosFrom(id)'
        BY <1>1 DEF ScenariosFrom
    <2> QED BY <1>1, <1>8, <2>1 DEF PointInv, SubmittingPoint
<1> QED BY <1>3, <1>5, <1>6, <1>7, <1>9 DEF MilestoneInv, PointInv

\* A stage begins or ends, or the contract is deployed anew.
LEMMA StageStep == MilestoneInv /\ (StartStage \/ Stop \/ Deploy) => MilestoneInv'
<1> SUFFICES ASSUME MilestoneInv, StartStage \/ Stop \/ Deploy PROVE MilestoneInv'
    OBVIOUS
<1>1. CASE StartStage
    <2>1. /\ UNCHANGED <<chain, shown, file, adopted, aim, id>>
          /\ stage' \in Stages /\ at' = 1 /\ calm' = FALSE
          /\ missed' = IF missed = "nothing" THEN "nothing" ELSE "more"
        BY <1>1 DEF StartStage
    <2>2. at' \in 1..Len(Program(stage')) /\ id' \in Nat
        <3>1. ASSUME NEW s \in Stages PROVE 1 \in 1..Len(Program(s))
            BY ProgramIs
        <3> QED BY <2>1, <3>1 DEF MilestoneInv, TypeInv
    <2>3. FileInv'
        <3>1. IsChain(chain') /\ Kept(chain, chain')
            BY <2>1, KeptIs DEF MilestoneInv, TypeInv, IsChain
        <3> QED BY <2>1, <3>1, FileStaysRight DEF MilestoneInv
    <2>4. TypeInv'
        BY <2>1, <2>2 DEF MilestoneInv, TypeInv, IsChain, Kept
    <2>5. ShownInv' /\ PointInv'
        BY <2>1 DEF MilestoneInv, ShownInv, PointInv, PostingPoint, SubmittingPoint
    <2> QED BY <2>3, <2>4, <2>5 DEF MilestoneInv
<1>2. CASE Stop
    <2>1. UNCHANGED <<chain, shown, file, missed, adopted, aim>> /\ stage' = "none" /\ id' \in Nat
        BY <1>2 DEF Stop, End, history
    <2> QED BY <2>1, ProcessStep, NoPoint DEF MilestoneInv
<1>3. CASE Deploy
    <2>1. /\ chain' = Empty /\ shown' = Empty /\ adopted' = {} /\ missed' = "nothing"
          /\ stage' = "none" /\ UNCHANGED <<file, id, aim>>
        BY <1>3 DEF Deploy, process
    <2>2. TypeInv'
        BY <2>1, EmptyIs DEF MilestoneInv, TypeInv, IsChain, Kept
    <2>3. FileInv' /\ ShownInv'
        BY <2>1
           DEF MilestoneInv, FileInv, AdoptedRecordsAreTheScenarios, ScenariosShareNoBounty,
               ShownInv
    <2> QED BY <2>1, <2>2, <2>3, NoPoint DEF MilestoneInv
<1> QED BY <1>1, <1>2, <1>3

\* Nothing happens.
LEMMA NothingStep == MilestoneInv /\ UNCHANGED vars => MilestoneInv'
<1> SUFFICES ASSUME MilestoneInv, UNCHANGED vars PROVE MilestoneInv'
    OBVIOUS
<1>1. UNCHANGED <<chain, shown, file, stage, at, id, missed, calm, adopted, aim>>
    BY DEF vars, process, history
<1>2. TypeInv' /\ ShownInv' /\ FileInv'
    BY <1>1, ProcessStep DEF MilestoneInv, TypeInv
<1>3. PointInv'
    BY <1>1
       DEF MilestoneInv, PointInv, PostingPoint, SubmittingPoint, RunsFrom, ScenariosFrom,
           AdoptedBelow
<1> QED BY <1>2, <1>3 DEF MilestoneInv

\* Every step keeps the invariant.
LEMMA MilestoneInvStep == MilestoneInv /\ [Next]_vars => MilestoneInv'
    BY CountStep, ReadStep, AskStep, LoadStep, SendsStep, SaveStep, ElsewhereStep, ShowStep,
       StageStep, NothingStep DEF Next

\* It holds when the first deployment has been made.
LEMMA MilestoneInvInit == Init => MilestoneInv
<1> SUFFICES ASSUME Init PROVE MilestoneInv
    OBVIOUS
<1>1. DOMAIN file = {}
    BY DEF Init
<1> QED
    BY <1>1, EmptyIs
       DEF Init, MilestoneInv, TypeInv, ShownInv, PointInv, PostingPoint, SubmittingPoint,
           PostingStages, FileInv, AdoptedRecordsAreTheScenarios, ScenariosShareNoBounty

\* However many accounts use the contract and however far reads trail it: an
\* id that a stage saves names a record of the run's own, and the submission
\* of the challenge scenario was made to its bounty, unless a transaction that
\* is not the stage's came between the state it counted and the save, or the
\* page of bounties was too short.
THEOREM RecordsAreTheScenarios == Spec => []AdoptedRecordsAreTheScenarios
<1>1. MilestoneInv => AdoptedRecordsAreTheScenarios
    BY DEF MilestoneInv, FileInv
<1> QED BY <1>1, MilestoneInvInit, MilestoneInvStep, PTL DEF Spec

\* With the same exceptions two scenarios whose posts succeeded never work on
\* one bounty, in whatever order and however often their stages are run.
THEOREM ScenariosAreApart == Spec => []ScenariosShareNoBounty
<1>1. MilestoneInv => ScenariosShareNoBounty
    BY DEF MilestoneInv, FileInv
<1> QED BY <1>1, MilestoneInvInit, MilestoneInvStep, PTL DEF Spec
=============================================================================
