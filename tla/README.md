# A TLA+ verification project for ContentBounty

ContentBounty pays creators for published work. A poster escrows a reward with
a rubric, creators submit pages, GenLayer validators render the page and ask a
language model to judge it, an approval can be challenged with a bond, and
whoever is owed money withdraws it. This directory models that system in TLA+,
model-checks it with TLC on small instances, and proves part of it with TLAPS
for every instance.

Line numbers without a file are lines of `contracts/content_bounty.py`.

## The system

| Component | State it keeps | Operations | Interacts with |
|---|---|---|---|
| Contract lifecycle (`contracts/content_bounty.py`) | bounties, submissions, challenges, uniqueness keys | `post_bounty`, `submit_content`, `evaluate_submission`, `challenge_submission`, `review_challenge`, `finalize_challenge`, `timeout_challenge`, `claim_reward`, `cancel_bounty`, `expire_bounty` | reads the transaction's datetime; takes results from consensus rounds |
| Contract escrow (same file) | `escrow_balance`, reward, refund and bond liabilities, the native balance | `withdraw_reward`, `withdraw_refund`, `withdraw_bond`, and the parts of the methods above that record liabilities | `emit_transfer`; published by `get_escrow_accounting` |
| Evidence pipeline (same file, 405-1006) | none | commit to a page, evaluate it, review a challenge | web render and model prompts of one validator |
| Consensus rounds (same file, the `leader_fn`/`validator_fn` pairs) | one round | compute, compare | `gl.vm.run_nondet_unsafe` |
| Input validation (275-403) | none | rubric, URI policy, claim tag | called by the write methods |
| Views (1252-1264, 1597-1807) | none | paging, accounting, verdicts | read by the frontend and the live runs |
| Frontend eligibility (`frontend/src/lib/statusActions.ts`) | none | `availableActions` | mirrors the contract's guards over a loaded snapshot |
| Frontend session (`frontend/src/App.vue`, `transactionClassifier.ts`) | loaded records, transaction list, wallet | load, select, write, track | contract views, receipts, local storage |
| Wallet verification (`walletNetwork.ts`, `networkSelection.ts`) | none | verify, then write | wallet RPC and reference RPC |
| Live-run observation (`scripts/live-lifecycle.mjs`, `live-rpc-error.mjs`) | observations | wait for accepted, then finalized | RPC that fails for a moment |
| Scenario executor and recovery (`scripts/live-scenario-*.mjs`, `live-proof-store.mjs`, `tests/integration/live_consensus.mjs`) | the proof file, rewritten after each step | ensure a bounty, a submission, an evaluation, a closure; replace what expired | the contract, across crashes |
| Mutation checkpoint and worker (`live-mutation-state.mjs`, `hosting/live-evidence/worker.mjs`) | checkpoint, durable object | begin, post, confirm, reconcile | webhook |
| Milestone run (`scripts/live-studionet-milestone.mjs`) | a state file of ids | one stage per start: guess an id, write, read back, save | the public contract, through late reads and retried writes |
| Deployment, preflight, export (`deploy.mjs`, other `scripts/`) | files | straight-line checks | RPC, files |

### What is hard about it

* **Order.** Any account may call any method at any time. What a method may do
  depends on two deadlines of the bounty, one of the submission and one of the
  challenge, and on a chain of references (bounty, provisional winner, active
  challenge) that three records keep between them.
* **Split settlement.** No state transition pays. Eleven methods write the four
  status fields from which liabilities are computed, and each payment is
  another transaction by another account.
* **Disagreement.** Validators render a page at different times, a review
  renders each page twice, and pages are edited and fail to load.
* **Staleness and crashes**, outside the contract: the interface acts on a
  snapshot and on receipts that may answer out of order, the wallet may be
  pointed elsewhere during the check that precedes a write, and a live run may
  stop between a transaction and the checkpoint that names it.

`PROJECT.json` lists each hazard at its line, with the properties that watch
for it, or the reason why none does.

### What makes each component correct

* Lifecycle: one provisional winner; one open challenge, on that winner; a claim
  only for an approval that stood; a final proposal that binds; nothing
  undecided left behind by a closed bounty; statuses and verdicts that agree
  with history; progress whatever the participants leave undone.
* Escrow: balance equals published liabilities; each deposit goes to one payee,
  once, in full.
* Pipeline and rounds: what is accepted was computed by an honest node, is about
  the committed text, and can be stored without failing the assertion that
  follows.
* Frontend: offers what the contract would accept; shows the selected record;
  calls final only what is; writes to the verified chain.
* Live runs: what a record adopts is its own; a page is never changed unannounced;
  a replaced scenario leaves no reward behind; a complete run did what it says.
* Milestone run: what one stage hands to the next is a record of its own scenario,
  unless another account disturbs its guess.

## Modules

| Module | Models | Extends |
|---|---|---|
| `Protocol` | closed sets, shape checks, bond size | |
| `ContentBounty` | every public write method, and time | `Protocol` |
| `BountyEscrow` | the abstract promise about deposits | |
| `ContentBountyProperties` | what the contract must get right; the refinement mapping to `BountyEscrow` | `ContentBounty` |
| `StatusActions` | what the interface offers, against the contract's guards | `ContentBounty` |
| `MCContentBounty` | values for TLC | `ContentBountyProperties`, `StatusActions` |
| `EvidencePipeline` | what one validator computes | `Protocol` |
| `ConsensusRound` | a round of the four kinds, and its properties | `EvidencePipeline` |
| `MCConsensusRound` | values for TLC | `ConsensusRound` |
| `ReceiptClassifier` | how the interface and the live run read a receipt | |
| `Session` | one tab of the interface, its wallet and the chain behind it | `ReceiptClassifier` |
| `MCSession` | values for TLC | `Session` |
| `WalletNetwork` | the network check before a write, and the write | |
| `LiveRun` | the live run around its mutation scenario, with crashes and restarts | `ReceiptClassifier` |
| `StudionetMilestone` | the stages of the milestone run and its state file | |
| `ContentBountyProofs` | proofs: types, challenges, bonds and proposals | `ContentBountyProperties` |
| `SettlementProofs` | proofs: candidates, winners, settlement, uniqueness, verdicts, what the interface offers | `ContentBountyProofs`, `StatusActions` |
| `EscrowProofs` | proofs: the contract implements `BountyEscrow` and is solvent | `SettlementProofs` |
| `ConsensusRoundProofs` | proofs: what an accepted result may be relied on for | `ConsensusRound` |
| `SessionProofs` | proofs: one tab of the interface | `Session` |
| `LiveRunProofs` | proofs: the live run and its artifact | `LiveRun` |
| `WalletNetworkProofs` | proofs: where a write goes, and what turns a wallet away | `WalletNetwork` |
| `StudionetMilestoneProofs` | proofs: what the state file's ids name | `StudionetMilestone` |

### How the model corresponds to the code

**Transactions.** A write method is one action with the name of the method in
CamelCase. GenLayer runs transactions one at a time and reverts one whose
assertion fails, so every assertion is a guard (gathered in an operator
`Can...`) and a refused call is no step. Everything a call changes is in its
action, the superseding of other submissions included. `finalize_challenge`
has its two branches as `UpholdChallenge` and `DismissChallenge`.

**Data.** `bounties`, `submissions` and `challenges` are functions on ids, as
the code's arrays are; ids count from 0, and from 1 for challenges, where 0
means none. The three maps of used keys are sets of tuples. A digest is a model
value. The fields that are only displayed (titles, URIs, timestamps other than
deadlines, versions) are left out. `submission_ids_by_bounty` is the field
`submission_ids` of its bounty.

**Time.** `clock` is the datetime of the next transaction, and `Tick` advances
it. Comparisons (`<`, `<=`, `>=`) are the code's.

**Money.** `balance` is the native balance, increased by the value of payable
calls and decreased by `EmitTransfer`. `received` is what each account was
paid. A payable call with the wrong value reverts and is no step; the native
credit such a call may leave behind on some networks only adds to the
balance, and is outside the model.

**Consensus results** are parameters of `ContentBounty` (`EvaluationResults`,
`ReviewResults`), constrained by the shape checks the code asserts.
`EvidencePipeline` computes them and `ConsensusRound` agrees on them. Two of
its theorems tie the halves together: an accepted result has the asserted
shape, and an honest node computed it.

**The pipeline** keeps each early return in its order. A page is its digest;
`SizeOf` and `TagIn` say whether it is empty or oversized and whether it has the
claim tag. A render gives the digest of the page as it is then, raises, or gives
what is no string. Prompt text and JSON parsing become the set of answers they
let through. `RendersDecide` says which of a review's four renders ends it.

**The round** interleaves renders, model answers and votes of the nodes with
edits of both pages. Faulty nodes propose any member of `Forgeries` and vote as
they like. A result is accepted when a majority, the leader included, stands
behind it. That rule, the web and the model are external.

**Eligibility.** `AvailableActions` is a record with one Boolean per button,
rule by rule as `availableActions` has it, over the records `App.vue` loads: all
submissions of the selected bounty, and of the challenges the latest of each
submission. It is compared with the `Can...` operators of `ContentBounty`.

**The session.** An asynchronous function runs from one `await` to the next
without interruption; each stretch is an action, and what awaits its answer is a
record of `tasks` with the locals it resumes with. An answer holds what the
chain held when it was requested, or what it holds now. One submission per
bounty stands for the list, and four of the thirteen writes stand for all, which
go through the same `runWrite`. The network check is one step here that may
refuse; `WalletNetwork` opens it. `actionBusy` is cleared where the code clears
it: at once when a list fails, and otherwise only after the details of its
submissions (`DetailsArrive`). The awaits by which `onMounted` finds the wallet and
loads its first list (App.vue:1169-1182) are one step. Of `settlementLabel` the one
sentence about a transaction is modelled, that of a WITHDRAWN reward (369-409).

**The wallet check.** One action per RPC request, the two of a pair in either
order. Chains are sequences of blocks that grow and fork; the wallet's endpoint
is one of the selected network's two, one of another network with the same chain
id, or one of a network with its own.

**The live run.** `proof` is the artifact on disk, `local` what the process has
in memory, and `pc` what it awaits. One action is what it does up to the next
await or the next write of the artifact that matters by itself. `Crash` and
`Outage` may come at any of them, and `Start` begins again from the artifact.
The chain executes, finalizes and drops transactions on its own, and bounties
expire by its clock. It is simpler than the network: what was accepted is not
overturned on appeal, and no transaction is CANCELED or times out.

**The milestone run.** Each stage is a program over one register, the record id
it works on: it loads the id from the file, takes it from the command line or
guesses it from a count, then writes, reads and saves. A write may revert; one
whose answer is lost is sent again by `withRetries`. The contract is public:
`Elsewhere` is a transaction, between any two steps of a stage, of another account
or of the run's own that the stage does not wait for. Reads see `shown`, the
finalized state, which may trail `chain` by any number of transactions but never
goes back (`Show`). Four variables are histories. `missed` says whether what reads
do not show is at most what the stage sent itself. `calm` says that the stage's
guess was undisturbed: its count missed nothing else, and nothing came from
elsewhere since. `adopted` is the set of keys saved calmly, and `aim` the bounty for
which the scenario's submission was made.

**`Bug_` operators** are plausible mistakes in the operator they are named
after. No definition uses them. `PROJECT.json` pairs each property of each
passing run with the mistake that breaks it under that run's own configuration.

## Runs

| Run | Configuration | States (distinct) | Question |
|---|---|---|---|
| `lifecycle` | `Lifecycle.cfg` | 1.8 million | do lifecycle, verdicts and money stay consistent around one bounty, and does the interface offer what the contract takes? |
| `two_bounties` | `TwoBounties.cfg` | 530 thousand | do bounties sharing balance, ids and accounts mix? |
| `progress` | `Progress.cfg` | 50 thousand | can anything stay stuck? |
| `round` | `Round.cfg` | 4.0 million | what may an accepted result be relied on for? |
| `session` | `Session.cfg` | 3.2 million | do late answers mix up tags, lists and phases? |
| `wallet_network` | `WalletNetwork.cfg` | 9.2 million | which write reaches another network, and which right one is turned away? |
| `live_run` | `LiveRun.cfg` | 4.1 million | does a run survive a stop at any await? |
| `milestone` | `StudionetMilestone.cfg` | 3.4 million | when do stages that guess ids save records that are not theirs? |
| `empty_evidence` | `EmptyEvidence.cfg` | violation | is empty evidence inconclusive, as the specification says? |
| `no_duplicate_write` | `NoDuplicateWrite.cfg` | violation | do restarts send no write twice, as the guide says? |
| `accepted_is_final` | `AcceptedIsFinal.cfg` | violation | is nothing accepted presented as final, as the README says? |
| `unseen_submission` | `UnseenSubmission.cfg` | violation | does a stage wait to see its submission before it sends the evaluation, as the milestone document says? |

Deadlock checking is off because each model ends: the bounded clock stops, a
round in which all have voted is over, a tab has had its `MaxEvents`, a write
was sent or refused, a run is complete or out of starts, and stages end when the
counters of the model do.

### Bounds, and why they suffice

* *Lifecycle.* Two accounts, any of which plays any role, are the fewest with a
  creator and a challenger who are not the same; with two submissions both are
  creators, and the poster is one of them. Two submissions are needed for a
  competing winner and for superseding; two challenges for a second one after
  the first was upheld, dismissed or timed out, on the same or on the other
  submission. Two attempts of each kind let a retry succeed and reach the limit.
  Windows are one tick, so every deadline is met early, exactly and late within
  `MaxTime = 5`; `PostBounty` is refused when what it can lead to would not end
  within the bound. The evaluation results are one of each kind the contract
  distinguishes, as are the reviews. Accounts are interchangeable, so the run
  uses symmetry; it checks no liveness.
* *TwoBounties.* Two rewards, one on each side of the bond's floor (5% rounded
  down is 0 and 3, with `MIN_CHALLENGE_BOND = 1`), one submission per bounty (so the submission
  limit binds), one challenge and one attempt. A single digest makes the
  uniqueness of evidence bind within a bounty and not across bounties.
* *Progress.* As lifecycle with one challenge and one attempt, without symmetry.
* *Round.* Three nodes of which one is faulty are the smallest round in which a
  majority can include a faulty node. Five pages: the submitted one, the
  challenge's (which has the tag, so that in the submission's place it is an
  edit only the digest tells apart), one without the tag, an empty and an
  oversized one that keeps the tag. Two edits are needed to change a page away and back between renders. The
  judgments are one of each kind `_normalize_judgment` distinguishes.

* *Session.* Two bounties and two accounts are the fewest that can be mistaken
  for each other; one bounty awaits a submission and one has an approved
  submission, so all four writes can be reached. Four events (a click, a
  selection, a change of account, a reload) allow two changes and a return while
  an answer to the first is awaited; two transactions are one write and one more
  that is tracked with it. Storage keeps one entry, so the cap binds.
* *WalletNetwork.* Lag and margin are one block and chains reach height three, so
  that heads lag by less than, exactly and more than what is permitted, and the
  chain is both long enough and too short for the older block. Two switches are
  away and back; one fork is either a replaced block or a disagreement.
* *LiveRun.* One replacement and two attempts reach each limit; the clock allows
  a deadline to pass before, between and after the steps; five transactions are
  the three of a complete scenario and two more, which make a closure with a new
  post or repeated evaluations; three starts are two crashes;
  one round may end undetermined. `NoDuplicateWrite.cfg` needs one crash only.
* *StudionetMilestone.* Two bounties and two submissions are the fewest that can be
  mistaken for each other; a page of one makes the count of bounties stop as the
  page size of 50 does; one lost answer sends any one write twice; four stages or
  deployments are the posts of two scenarios and a stage of each, or leave ids of an
  earlier deployment in the file; one transaction from elsewhere is enough to
  disturb a guess, and comes at any time. One challenge is the one the scenario makes.
  `UnseenSubmission.cfg` needs two stages on a contract nobody else uses.

`MaxBounties`, `MaxSubmissions`, `MaxChallenges`, `MaxTime`, `MaxEdits`,
`MaxEvents`, `MaxTransactions`, `MaxHeight`, `MaxSwitches`, `MaxForks`,
`MaxTxs`, `MaxStarts`, `MaxUndetermined`, `MaxRuns` and `MaxElsewhere` bound the
models and have no counterpart in the code. `MaxLost` stands for the seven retries
of `withRetries`: one repeated write shows what more of them would.

### Fairness

Only `progress` states liveness; the models of the interface and of the live runs
state safety, since a user need not click and an operator need not restart.
`progress` assumes that time advances; that `finalize_challenge`,
`timeout_challenge` and `expire_bounty`, which anyone may call, are called when
they stay available; and that an account owed money calls `claim_reward` and its
withdrawals. Nothing is assumed of evaluators, challengers, reviewers,
submitters or posters. Each is weak fairness of one call on one record. The
assumption about `claim_reward` is needed: the code lets nobody else settle a
provisional winner, `expire_bounty` refuses one (1587), and once the dispute
window is over no new challenge can be filed, so a winner who never claims keeps
the bounty LOCKED and its reward in escrow. state/DESIGN.md:214 names an
unclaimed reward as a limitation.

### What the runs show

Every property of the eight passing runs holds. The four violation runs show
where the documents and the code differ:

* `EmptyEvidenceIsInconclusive`: docs/CONTENT_BOUNTY_V2_SPEC.md:46-48 says
  evidence found empty at evaluation is inconclusive. The claim tag is looked
  for first (647), an empty page has none, and the submission is rejected for
  good. The EMPTY_EVIDENCE result at 650 is unreachable. The same goes for the
  two NO_SOURCE_CONTROL results of a review (885-893, 913-921): a page with the
  committed digest has the tag it was committed with.
* `NoDuplicateWrite`: docs/LIVE_CONSENSUS_TESTING.md:194-198 says that restarts
  "do not submit a duplicate write". The hash of a transaction is checkpointed
  only when the send answers (live_consensus.mjs:241). For an evaluation
  nothing is recovered from the chain (live-scenario-executor.mjs:171-181), so a
  crash in between spends another attempt; for the others a restart that looks
  before the transaction was executed sends it again, and a second post escrows a
  second reward.
* `AcceptedIsNeverPresentedAsFinalized`: README.md:406. For a WITHDRAWN reward
  `settlementLabel` reads the entry of the claim (App.vue:377) and says that the
  withdrawal finalized, while the withdrawal may be only accepted.

* `EvaluationWaitsForItsSubmission`: docs/MILESTONE-1.md:212-215 and the comment of
  `confirm` (live-studionet-milestone.mjs:184-186) say that the finalized state is
  polled until the expected change is visible before a dependent transaction is
  sent. The stage `challenge-submit` does not poll. It takes the id of the
  submission it has just made from `nextSubmissionId` (425), the count: a read that
  shows the submission gives the id after it, the evaluation is sent for a submission
  that does not exist (426-432), and the stage ends at the read that follows. Only a
  read that is late, or a submission of someone else, makes the guessed id exist.
  `injected-submit` does the same (625), and `challenge` reviews the challenge after
  its own (547-554).

What else the models show, each seen in a run or while translating:

* *Contract.* README.md:209 and docs/CONTENT_BOUNTY_V2_SPEC.md:20-21 say that a
  LOCKED bounty has an evaluable submission or a provisional winner. Rejecting the
  only submission (1244-1245), or using up its attempts, leaves the bounty LOCKED;
  only `finalize_challenge` recomputes the status (1451-1454). Nothing is lost by it,
  since `submit_content` and `expire_bounty` take both statuses, but a reader of the
  status is misled.
* *Interface.* Of an older challenge whose submission was challenged again, the
  withdrawal of the bond is not offered, since only the latest is loaded
  (App.vue:574); `InterfaceMatchesContract` states the exception.
  A foreign list of submissions stays on the screen when the lists of two
  bounties were awaited at once, because the answer is not compared with the
  selection (App.vue:625); `ForeignListNeedsOverlap` says that nothing else
  causes it. `actionBusy` is one flag: opening the activity list while a write
  waits clears it (App.vue:703). An entry at the cap of 30 is dropped, whatever
  its phase (App.vue:1451), although frontend/README.md:30-31 says entries
  survive a reload.
* *Receipts.* The live run takes the result AGREE for success and the interface
  does not (transactionClassifier.ts:143): a FINALIZED/AGREE receipt, which
  README.md:142 and frontend/README.md:9 show for a Bradbury deployment, would
  be a failed transaction on the screen.
* *Wallet.* Between the last request and the signature nothing is checked again;
  `WritesReachTheSelectedNetwork` says exactly how late the endpoint must change.
  Off the shared chain id any network that answers the probe passes.
* *Live run.* A page whose change was announced and found changed only by the
  preflight of a later start is CONFIRMED without a webhook on record: the run
  completes and can never be exported. So does one whose history holds a failed
  post (`PublicScenarioHistory` refuses it). A replacement made after the page
  changed commits to the changed page and can only complete with a failed fetch.
  A closure or a submission that a crash cut off from its hash, and that was
  executed, makes every later start refuse. The second read of the bounty after
  a closure adds nothing to the first.
* *Milestone run.* `nextSubmissionId` is the count of submissions and
  `nextChallengeId` the count plus one (live-studionet-milestone.mjs:207-215),
  which before a write name the record to come. Three stages ask after it.
  docs/MILESTONE-1.md, section 6, blames stale snapshots for reverts of the kind
  that up-to-date reads bring about here. Taking one off is not enough: when the
  submission reverted, the stage would save another's (the mutation paired with
  `AdoptedRecordsAreTheScenarios`). Any account may post or submit between a count
  and what relies on it; the guessed id then exists and is saved although it is the
  other account's. The two properties of the run say that this, a count that missed
  a foreign or an earlier transaction, a full page, or a post that reverted, whose id
  is saved all the same (413) and goes to a later record, are the only ways to a
  foreign id. `withRetries` around a write sends a second one when the answer to the
  first is lost; `deploy` keeps the ids of the contract before; `nextBountyId` stops
  at its page size of 50.

## Proofs

TLC evaluates each `ASSUME` in the runs, and the theorems assume only those:

* the contract: the zero address is no account, rewards are positive, windows
  and limits are naturals, consensus results have their asserted shape;
* rounds: faulty nodes are a minority, a page with the tag is not empty, a
  submission's page was bounded and tagged when it was committed and a
  challenge's bounded. `RoundTypeCorrect` moreover takes forgeries from
  `Results`: what a faulty leader proposes is otherwise any value at all, which
  no other theorem minds;
* a tab: each bounty starts with a submission at some stage, or none;
* the live run: windows and limits are positive naturals, the other bounds naturals;
* the network check: the permitted lag, the margin and the bound on heights are
  naturals, in any order of size;
* the milestone run: the page size is a positive natural, the bounds are naturals.

So they hold for every number of accounts, bounties, submissions, challenges,
nodes, pages, edits, clicks, transactions, blocks, switches, stages and restarts.

| Module | Theorem | States |
|---|---|---|
| `ContentBountyProofs` | `TypeCorrect` | `Spec => []TypeOK` of the contract |
| | `OneOpenChallenge` | `Spec => []ActiveChallengeIsTheOpenOne` |
| | `BondGoesWhereOutcomeSays` | `Spec => []BondFollowsOutcome` |
| | `ProposalsBind` | `Spec => ProposalIsBinding` |
| `SettlementProofs` | `OneCandidate` | `Spec => []ProvisionalWinnerIsUnique` |
| | `OpenMeansIdle` | `Spec => []OpenBountyHasNoWork` |
| | `ClosedMeansSettled` | `Spec => []ClosedBountyIsSettled` |
| | `WinnerStood` | `Spec => []WinnerWasNeverOverturned` |
| | `SettlementIsFinal` | `Spec => SettledStaysSettled` |
| | `EntriesStayUnique` | `Spec => []EntriesAreUnique` |
| | `VerdictsTellTheHistory` | `Spec => []VerdictMatchesHistory` |
| | `OffersMatchTheContract` | `Spec => []InterfaceMatchesContract` |
| `EscrowProofs` | `EscrowImplemented` | `Spec => ImplementsEscrow`: the contract refines `BountyEscrow` |
| | `ContractIsSolvent` | `Spec => []Solvent` |
| `ConsensusRoundProofs` | `HonestResultsOnly` | `Spec => []AgreedWasComputedHonestly` of a round |
| | `AcceptedResultsAreWellFormed` | `Spec => []AgreedIsWellFormed` |
| | `CommitmentsWereServed` | `Spec => []CommittedPageWasServed` |
| | `VerdictsAreAboutTheCommittedPage` | `Spec => []VerdictIsAboutTheCommittedPage` |
| | `ReviewsHaveGrounds` | `Spec => []ReviewHasGrounds` |
| | `RoundTypeCorrect` | `Spec => []TypeOK` |
| `SessionProofs` | `ClaimTagStaysCurrent` | `Spec => []ClaimTagIsCurrent` of a tab |
| | `SubmissionsUseTheirClaimTag` | `Spec => []SubmissionUsesItsClaimTag` |
| | `FinalizedEntriesAreVerified` | `Spec => []FinalizedIsVerified` |
| | `ForeignListsOverlapped` | `Spec => []ForeignListNeedsOverlap` |
| | `SessionTypeCorrect` | `Spec => []TypeOK` |
| `LiveRunProofs` | `LiveRunTypeCorrect` | `Spec => []TypeOK` of the live run |
| | `HashesStayBound` | `Spec => []RecordedHashesAreBound` |
| | `CheckpointIsHonest` | `Spec => []MutationCheckpointIsHonest` |
| | `ReplacedScenariosAreClosed` | `Spec => []ReplacedScenarioIsClosed` |
| | `CompletionIsEarned` | `Spec => []CompleteIsEarned` |
| `WalletNetworkProofs` | `WritesAreCompared` | `Spec => []WritesReachTheSelectedNetwork` |
| | `NoFalseAlarms` | `Spec => []NoFalseAlarm` |
| `StudionetMilestoneProofs` | `RecordsAreTheScenarios` | `Spec => []AdoptedRecordsAreTheScenarios` |
| | `ScenariosAreApart` | `Spec => []ScenariosShareNoBounty` |

With these, every safety property of the passing runs is a theorem.

Each inductive invariant was checked by TLC on the run of its module before it
was proved. What they add to the properties, and why:

* *Types.* `TypeOK` is not inductive: a claim copies the reward of the bounty its
  submission names, and a dismissal routes the bond to the creator of the
  submission its challenge names. `TypeInv` adds `References`, that what a record
  names exists. There is one lemma per action.
* *Challenges.* `ChallengeInv` adds `ChallengeLinks`, the two directions of the
  link between a submission and its open challenge, and `BondFollowsOutcome`.
  Most actions are quiet: they keep every link, and move at most a bond from
  PENDING to WITHDRAWN (`QuietStep`). The argument for `EvaluateSubmission`,
  `ClaimReward` and `ExpireBounty` is that what they change is not under
  challenge, because only an APPROVED_PENDING submission is. Opening and closing
  a challenge are taken one by one. The action property follows from the same
  lemma (`ChallengeStep`), which includes that no final proposal is replaced.
* *Settlement.* `SettlementInv` ties three records together. `CandidateInv` makes
  a bounty and its candidate name each other, which is why a second approval
  finds `has_provisional_winner` set; `WinnerInv` does the same for a FILLED
  bounty and adds that the dispute window was over when the winner claimed.
  `IndexInv` is there because `cancel_bounty` and the superseding loop trust the
  bounty's own index of submissions. `LiabilityInv` says where a reward is by the status of its
  bounty, which the refusals of the withdrawal methods rest on. `UndecidedInv`
  carries the one subtle case: an OPEN bounty may hold a submission that could
  still be evaluated only when its evaluation deadline has passed, since
  `finalize_challenge` recomputes the status from the clock. `UpheldInv` says
  that a submission whose approval was overturned is never approved again.
* *Escrow.* The refinement maps each bounty and each bond to a deposit that is
  held, due or paid. `RewardForm` reads the deposit off the liability fields; with
  `LiabilityInv` and `WinnerInv` it shows that no step changes two deposits, that
  a recorded liability has the deposited amount, and that a deposit never leaves
  its payee. A step of the contract is then a step of `BountyEscrow` on one
  deposit or a stutter, one lemma per action.
* *Solvency.* `Solvent` equates the balance with sums over all records, and a sum
  is a fold, defined by recursion over finite sets. Induction over the size of a
  set is taken as the choice of a least counterexample (`LeastNatural`, from the
  well-foundedness of `<` on the naturals), which needs no predicate as a
  parameter. It gives that the fold's function exists (`SumFunctionExists`) and
  that any element may be taken out first (`TotalTakeOut`), and with them what a
  sum becomes when one weight changes (`TotalChanges`) or one record comes in
  (`TotalGrows`). Then each method moves the balance and one summand, or two
  summands against each other, by the same amount: one lemma per action. The claim
  and the refund rest on `LiabilityInv`: the escrow they empty is the whole reward.
* *History.* `KeysInv` says that the used keys are those of the records, so that
  a key that is not used is of no record; `LatestInv` that an open challenge is the
  latest of its submission, the one the interface loads. With both,
  `OffersMatchTheContract` goes rule by rule: what each button's condition says
  of the loaded records is what the guard says of the stored ones.
* *Rounds.* `RoundInv` says that an honest node that agreed has run and has the
  leader's very result, and that honest results are well formed. The latter rests
  on a chain of lemmas, one per function of the pipeline, up to `RendersDecide`.
  An accepted result has a majority behind it, a majority of nodes is not all
  faulty (`MajorityIsPartlyHonest`, by cardinalities), and its honest member is
  the witness. `GroundsInv` says what that witness saw: its renders are of texts
  the pages had, a review that still runs has seen what is on record at every
  render so far, and its result has the grounds of its kind (`Grounded`).
* *Tab.* `SessionInv` has a part for each thing that outlives an `await`.
  `TasksInv` is the heart of it: a request for a tag carries a number that no later
  request has, a write under way holds the tag of its own signer and bounty, and
  an observation that awaits its receipt holds one the transaction has had, final
  only if the transaction is. `ListsInv` adds that the list of a bounty no longer
  selected is awaited only together with that of the selected one, or after such
  an overlap.
* *Live run.* `RunInv` has a part for the chain (`ChainInv`), one for the artifact
  on disk (`ArtifactOK`) and one for where the process is (`PositionOK`). The
  proof has two halves. The chain forgets nothing (`TransactionsGoOn`,
  `LedgerGoesOn`), so an artifact and a position that are right stay right while
  the chain moves; and each action of the process leaves an artifact and a
  position that are right of an unmoved chain (`Arrived`), one lemma per action
  and one per function they share. Titles never repeat and only grow, which is
  why a label of a closure finds no other scenario's transaction (`LabelOK`); a
  post never reverts, which is why the failure of a post on record means that it
  can create nothing any more (`PhaseOK`); an id on record is one of a final
  transaction, which is what `CompleteIsEarned` needs of the first two steps. `Crash`
  costs nothing: `PositionOK` asks nothing of a process that is down.

* *Network check.* `ComparisonInv` says of each point of the check what a wallet
  on another network has already given away: the block it told is not the official
  one, its probe is not the genuine one, or `switched` marks a change of endpoint
  after the answer that would have. It is kept because a block of another chain
  carries that chain's name, so two that are the same are of the same chain or of
  the shared genesis. `SentInv` says that nothing moves the endpoint once the
  write is sent. `AlarmInv` is the other direction: while no fork and no switch
  has happened, what a wallet on the selected network has answered so far is the
  official answer; each head is no higher than its chain, so both have the block
  at the common height, and chains only grow, so it is still the same block.
* *Milestone run.* The stages are data, so the proof first says what each program
  is, step by step. Five of them save an id; all other steps are quiet
  (`QuietSteps`). `TypeInv` has that the chain keeps what reads show (`Kept`):
  records are added at the end, by whoever writes (`AddedBy`), never removed, and
  keep their account and bounty. `ShownInv` ties `missed` to the counts. `PointInv`
  speaks of the points between a count and a save. For the stages that post
  (`PostingPoint`): while the guess is undisturbed, every bounty from the guessed id
  on is of the run and every adopted one is below it. For `challenge-submit`
  (`SubmittingPoint`): every submission that reads do not show yet, and after the
  count every one from the guessed id on, is of the run and to the scenario's bounty.
  The fifth stage that saves, `submit`, saves what it loaded and read, of which the
  properties say nothing. `FileInv` is the two properties; it lasts because of `Kept`,
  and a redeployment empties `adopted`.

Model-checked only:

* the liveness properties of `progress`: liveness and ENABLED are out of the
  prover's reach;
* the four violations, which are counterexamples.

## Assumptions and omissions

* Transactions are atomic and serial, and their datetimes never decrease.
* All bounties of an instance have the same number of criteria.
* Overflow of 256-bit values is not modelled: amounts are bounded by the native
  supply.
* `emit_transfer` takes effect in its transaction. A transfer that is emitted
  and never delivered is outside the contract's reach.
* The browser's clock is the contract's, everywhere eligibility is compared.
* The chain of `LiveRun` and of `StudionetMilestone` is a contract cut down to
  what the run relies on; a transaction may revert, disappear or be late.

### Not modelled

* *Claim tag scan, URI policy, rubric validation*: functions of one string
  without state; `TagIn` abstracts the scan's answer.
* *Views*: they change nothing. `get_escrow_accounting` is `ExpectedNativeBalance`.
* *Session*: nine of the thirteen writes and their forms, notices, the challenge
  modal and details kept under their own ids. A second tab that shares the
  storage overwrites the other's list; one tab is modelled.
* *Network selection, SDK clients, verdict and provenance text*: tables, made
  once.
* *Live run*: the payout of the approval scenario; artifacts of earlier versions;
  the preflight's comparisons of balances, digests and URLs and the recovery of a
  deployment, each of which ends the run before anything is sent (`Outage`).
* *Milestone run*: the report, which only reads; four of the six refusals, which
  are refused whatever happened; balances.
* *Deployment*, and the *export* of proofs beyond what `Exportable` requires of
  the mutation scenario: straight-line reading and writing.

## Plan

Modelling is done as far as it adds something: the contract, the rounds, the
interface's rules and session, the wallet check and both live runs. What is left
out is listed above with the reason.

Every safety property of the passing runs is proved. What is left to TLC is
liveness, which this prover does not reach.

## Checking it

    tlc -workers 2 -config Lifecycle.cfg MCContentBounty
    tlc -workers 2 -config TwoBounties.cfg MCContentBounty
    tlc -workers 2 -config Progress.cfg MCContentBounty
    tlc -workers 2 -config Round.cfg MCConsensusRound
    tlc -workers 2 -config Session.cfg MCSession
    tlc -workers 2 -config WalletNetwork.cfg WalletNetwork
    tlc -workers 2 -config LiveRun.cfg LiveRun
    tlc -workers 2 -config StudionetMilestone.cfg StudionetMilestone
    for m in ContentBounty Settlement Escrow ConsensusRound Session LiveRun \
             WalletNetwork StudionetMilestone
    do tlapm ${m}Proofs.tla; done

The proofs take up to an hour from nothing; a second run tries only what
changed. The other configurations are named in the table of runs.
