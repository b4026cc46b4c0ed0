# TLA+ verification of SpiralHarness

SpiralHarness evolves agent harnesses (prompts and skills) under an
evaluation protocol that is frozen before any candidate is seen. The program is
a research control plane: immutable content-addressed artifacts, ledgers that
reserve budget before a model is called, a controller that owns the lifecycle
of an experiment and of its candidates, and journals of automatic searches and
studies. This directory models the parts of it whose correctness depends on the
order in which things happen, checks them with TLC on small instances, and
proves the central theorems for every instance with TLAPS.

Every definition is translated from `src/spiral_harness`; `PROJECT.json` maps
each one to the lines it stands for. Comments in the modules name the function
where the name alone does not.

## Inventory

Sizes are lines of Python. *State* is what outlives one call.

| Part | Source | State | Operations | What is hard | What makes it correct |
| --- | --- | --- | --- | --- | --- |
| Artifact store | `storage/artifact_store.py` (0.3k) | a directory tree of objects named by digest | `put_bytes`, `get_bytes` and their JSON forms | several writers and processes, power failure between any two system calls, damage from outside | a returned reference is durable; a visible object is whole; damage is reported, never repaired |
| Journals | `storage/journal.py`, `core/lifecycle.py` (0.4k) | linked events, the head kept by the caller | append at a head, replay | a stale head | one legal chain of lifecycle states |
| Attempt ledger | `execution/attempts.py`, `attempt_checkpoint.py` (0.9k) | reservations and outcomes on a chain, an incremental checkpoint, a latch | `reserve`, `reserve_at_tail`, `settle`, `burn`, `state`, reopening | shared by runners; bytes go bad; a writer epoch ends; overruns | checkpoint = replay; the budget is hard; nothing is refunded |
| Model runners | `execution/model.py` (0.6k), `pure_model.py`, `native_function_execution.py` (1.2k) | none beyond the ledger; one lock each | `execute_record` | a reservation, a backend call, two writes and a settlement, each of which may fail | a call is made only on the runner's own open reservation, and its result escapes only with terminal accounting |
| Schedules, receipts, materialization | `execution/schedule.py`, `receipts.py`, `materialization.py` (1.9k) | artifacts only | build, publish, replay | stale joins | a receipt names settled attempts of one ledger, in schedule order |
| Experiment controller | `experiments/controller.py` (2.1k) | experiment tail, candidate tails, champion, usage head, two blocking flags, a reentrant lock | 5 lifecycle, 6 candidate, 3 evidence and probe operations | lifecycle methods take no lock while a worker holds it for minutes | one champion lineage; selection, once closed, is frozen; evidence is paid |
| Usage ledger and skill probes | `experiments/experiment_usage.py`, `skill_probe_*.py` (3.3k) | a usage chain, single-use grants | reserve, begin, run two arms, close, verify, settle | the lifecycle moves under a running probe; settlement must happen anyway | reservations settle once; results imply a settlement |
| Automatic search | `experiments/search.py` (2.0k) | a search journal, optimizer capability, call counts | open, read, screen, nominate, close a round, stop | long legal call sequences, limits reached in mid round | one nomination a round, spending within the manifest |
| Study barrier | `experiments/study.py` (1.7k) | a study journal | register runs, close, authorize | every condition and seed must be in before anything sealed is read | the barrier is complete and each run joined once |
| Evolution orchestrator | `evolution/orchestrator.py` (3.9k) | a round in progress over all of the above | run a round, finalize | one step of several failing | controller, search journal and ledgers agree after each step |
| Admission, gate, decisions | `experiments/admission.py`, `decision.py`, `verification/` (4.6k) | signed evidence and batches | sign, evaluate, decide, authorize a state | artifacts of different evaluations; tasks lost on one side or on both | a promotion is the one its own trials deserve |
| Baselines and confirmatory contracts | `experiments/baseline*.py`, `confirmatory_*.py` | one ledger per batch, closures | execute a study, close, accept | other holders of the ledgers; a closure of another study | equal ceilings, a closure stands for calls that were paid |
| BFCL v2 executor and dispatch | `experiments/bfcl_v4_public_v2_executor*.py`, `_dispatch*.py`, `benchmark/..._v2_call_plan*.py` (3k) | a checkpoint in a compare-and-swap sink, single-use dispatch grants | start, resume, reserve, call, append, unlock evaluation | resuming an interrupted run without calling a model twice | a plan slot is executed at most once, and no burned call earns a promotion |
| BFCL v2 proposals, review and grading | `experiments/bfcl_v4_public_v2_meta_runtime*.py`, `_mutation_runtime.py`, `_semantic_campaign.py`, `_trusted_adapter*.py`, `_live_config.py`, `_native.py` (4.2k) | review sessions in a sink, a registry of records that wait to be graded, the unlocks issued | materialize, parse, resolve; review, resume, release; register, take, unlock, project | callers that pair the arguments of pure functions; a review that dies half way; threads that grade one node | a mutation rests on its own cell's feedback, a release is one review, a grade is of the call that was made |
| BFCL run journal | `benchmark/bfcl_v4_public_run_journal.py`, `_bfcl_v4_public_run_replay.py`, `..._run_contracts.py`, `..._pilot_plan*.py` (2.3k) | linked entries, the tail kept by the caller | open, materialize, complete, freeze candidates, freeze selections, unlock, close, reopen | several objects on one run, a publication that fails half way, barriers in the middle of a long plan | every published tail replays to what the writer remembers, and one branch is one run |
| BFCL public pilot campaign | `experiments/bfcl_v4_public_runner*.py`, `_selection_*.py`, `_campaign_*.py` (6k) | one run record per replicate, checkpoints, one terminal artifact | execute a slot, freeze, select, evaluate, verify, checkpoint, analyse | provider faults that consume slots against infrastructure faults that close | only real faults stop a campaign, a promotion is earned, the terminal claims what was verified |
| Harness-fault slice | `experiments/harness_fault_*.py`, `benchmark/harness_fault*.py` (8k) | a middleware runtime's events, three live ledgers, a development ledger | serve, grade, verify mechanism; probe, freeze, open gates, publish | evidence over three ledgers that move; gate scenarios read too early | one instant at which all ledgers stood; gates after the joint freeze |
| Four-arm development | `experiments/development_four_arm_*.py` (3k) | two ledgers, two freezes, a closure | run 58 calls, freeze, select, hold out, close | two runners over one topology, selections made on the way | a holdout harness was earned, a spent run closes |
| Matched study and SCORE feedback | `experiments/matched_v2.py`, `evolution/score_*.py`, `objective_evidence.py` (2.6k) | attestations that chain the rounds | attest objectives, attest a round, verify a chain | ledgers that move between storing and verifying; gate tasks seen before | feedback is of this round, from fresh gate tasks |
| Agents | `agents/` (0.8k) | none beyond one run | run a workflow with message visibility | bounded hand-offs | a role sees only what it may |
| Power analysis | `experiments/power_*.py` | none | simulate | numerics | out of reach here |
| Core, skills, providers, command lines | `core/`, `evidence/`, `skills/`, `providers/`, `cli*.py` | none | schemas, loading, HTTP, printing | | |

### How the parts interact

Everything refers to everything else by artifact reference, so the artifact
store is below all of it. A runner reserves in an attempt ledger, calls its
backend once, stores the execution, and settles or burns. The controller does
not call the runners for gate work: it is handed signed batches, charges them on
the usage chain and moves the candidate. For a skill candidate it does drive two
runners, inside one call that holds `_state_lock` from the reservation to the
settlement; the lifecycle methods take no lock, so they interleave with that
call. The search journal and the orchestrator call the controller and bind its
closed selection; the study barrier binds the closed searches.

A batch of gate work goes the other way: a frozen schedule is run cell by cell
through a runner, every attempt names the ledger tail it expects, and a receipt
binds what it left. Whoever made the ledger still holds it, so everything that
reads a batch later (trusted usage, the baseline gate study, mechanism evidence,
SCORE feedback) replays the ledger and looks at its tail again.

The BFCL parts form a second line. The v2 executor walks a frozen call plan, one
checkpoint per reservation and one per event, each exchanged with a sink by
compare-and-swap; recovery is another executor object over the same sink. The
pilot runner is the writer of a run journal, which decides what may follow what;
the campaign executor runs one replicate after the other, reads each result back
through the offline verifier, and derives the analysis from verified replicates
only. Around the v2 executor stand the review that releases its tasks, the runtime
that turns a cell's FIT calls into a mutation, and the plane in which it is graded:
the executor hands each of them what it journaled.

## Modules

```
TokenAccount  <=  AttemptLedger  <=  AttemptRunner       MCAttemptRunner
                       |                  |
                       +--  AttemptRunnerProofs

ChampionSelection  <=  ExperimentController             MCExperimentController
                               |         GateDecision
                               |              |
                               +- ExperimentControllerProofs

DurableStore  <=  ArtifactStore                          MCPersistence
                       |
             ArtifactStoreProofs

SearchRun  <=  AutomaticSearch  --uses-->  ChampionSelection
                    |        \
              SearchJournal   +--  AutomaticSearchProofs
                    |        /
              SearchReplay  ScoreFeedback                 MCAutomaticSearch

StudyBarrier  --  BaselineGate  ------------+
     |                 |                   |
     |           ScheduledBatch  --  HarnessFaultMechanism
     |                                     |
     +------------  StudyProofs  ----------+

FaultDevelopment     FourArmDevelopment                  MCStudies
       |                     |
       +- DevelopmentProofs -+

PublicCampaign  --  CampaignExecutor     MetaRuntime     MCPersistence
                           |                  |
                           +- CampaignExecutorProofs

RunProtocol  --  RunJournal                              MCStudies
     |
PilotRun  --  PilotCampaign                              MCPilotCampaign
                    |
SemanticCampaign    |    TrustedGrading                  MCPilotCampaign
       |            |           |
       +--  CampaignPlaneProofs +
```

`A <= B` reads: B implements A; `A -- B` reads: B extends A.

**TokenAccount** is what an attempt ledger promises to whoever pays: an account
with at most one open hold, never above what is left, never refunded, and closed
by the first charge above its hold.

**AttemptLedger** is `attempts.py` and `attempt_checkpoint.py`. The chain is two
sequences, `reservations` and `outcomes`; a reference to a tail is the length of
the chain, so `expected_tail` comparisons are comparisons of numbers.
`checkpoint` is the `AttemptLedgerState` a live writer advances by increments
(`WithReservation`, `WithOutcome` are `append_reservation` and
`append_outcome`), and `Replay` is what `replay_attempt_ledger` computes from
the chain. `damaged` holds artifacts whose verification now fails; `latched` is
`_integrity_failure`. `Reopen` is the constructor on an existing tail: it
replays, takes a new writer epoch, and is read-only on what others wrote because
`TipIsMine` and `CanConsume` compare epochs.

**AttemptRunner** adds any number of runners on one ledger. Each
step of `_execute_record` between two effects is an action: `Schedule` or
`ReserveUnscheduled`, `ReserveAtTail`, the backend's answer (`RespondWell`,
`RespondBadly`), `Persist`, `Consume`, `Compensate`, and the failure of each.
The ledger's lock covers one ledger call, so the runners interleave between
them. `Restart` may come between any two steps.

Its last part (`FunctionNext`) says which of these steps each kind of runner takes. The
fixed runner (`model.py`) may reserve at a scheduled tail; the pure reference
runner only reserves unscheduled; the native-function runner does both, consumes
one of its process-local slots with every granted reservation, and stores the
response before it looks at what it cost, so that a response that cannot be stored
burns the attempt with its usage and raises (`ResponseNotStored`).

**ChampionSelection** is what an experiment promises: the champion moves forward
only and only while selection is open, an experiment opens with nothing spent,
a live controller is never refunded, nothing moves once selection is frozen.

**ExperimentController** is `controller.py` with the usage ledgers and the probe
execution it drives. Two activities interleave:

- one lifecycle caller (`LifecycleStep`), an atomic action per method: freeze,
  start search, close selection, start sealed, complete, invalidate; register,
  admit, start probes, start gate, issue a grant, finalize. The source calls
  itself single-writer (line 1), so there is one such caller. A method that
  passed its accounting check just before another thread closed the accounting
  is ordered before that step.
- one worker that holds `_state_lock` (`TakeLock`, then `WorkerStep`): a matched
  probe (reserve, begin the grant, revert arm, placebo arm, close, verify,
  settle) or a gate evaluation (append evidence, charge it). Each step ends where
  a lifecycle method may come between. `close_selection` needs the lock and
  waits for it.

A candidate enters each lifecycle state once, so its journal tail is its state.
A candidate has one `RUNNING_PROBES` head, so a grant is named by its candidate.
A usage entry holds cumulative totals, as in the code. An arm is entered as the
charge it encumbers; what happens inside is `AttemptRunner`. A settlement fails in
three ways. The check that the accounting is open reads the ledger outside of the
`try` and may raise with everything left open (`SettlementUnread`, remembered in
`unread`); what raises inside closes the accounting (`SettlementFails`); the replay
after a stored settlement may fail and withhold the result (`SettlementUnseen`), and
a poisoned end is then found by a later call (`FindPoison`). `StartGate` can only
reject a skill candidate: its reserved mechanism checks have no producer in the
code, and the missing check fails closed. `Restart` is a new controller given the
usage head its caller held, which inside a locked call is the head from before
the call.

**GateDecision** is `verification/statistics.py`, `gate.py`, `artifacts.py`,
`mechanism.py` and `experiments/decision.py`. Producers sign the trials of an arm
and mechanism evidence; anybody names an evaluation, a stored decision and a
terminal state, over any signed artifacts; the service joins them again,
recomputes the decision and authorizes the state. Trials that are duplicated
cannot occur, because the batch validator requires unique pairs. A policy without
`expected_seeds` misses a seed lost on both sides, and a partial loss can still
reject on the surviving tasks: the model has both. Several batches may be signed
for an arm and an evaluation may pair any two of them.

**DurableStore** is what the store promises: an object appears whole, stays as it
is unless damaged from outside, and is never lost once acknowledged.

**ArtifactStore** is `put_bytes`, one action per system call, for any writers. A
directory entry is absent, cached or durable; bytes are flushed, dirty or bad; a
hard link shares the bytes of the staging file. `PowerLoss` keeps any subset of
the cached entries and may tear bytes that were not flushed. `Kill` ends one
process. A digest stands for its content: two contents with one digest are out of
scope. The objects directory itself is taken to be durable, and `fsync` of a
directory to be supported, as on POSIX systems.

**SearchRun** is what one automatic search promises to a study: it selects a
harness its experiment made champion, a closed selection does not move, one
result is issued over two closures that agree.

**SearchJournal** is `experiments/search.py`, an action per operation of
`SearchController`. The variables are the snapshot a replay of the journal
computes (state, active round, counters, champion, disclosures), because every
operation begins with that replay.

**SearchReplay** adds the events of that journal and `_replay_semantics`: the
rules of a search are written twice, as the guards of the operations and as the
checks of a replay.

**AutomaticSearch** is the loop of `evolution/orchestrator.py` over one search
journal and one experiment. The experiment takes the steps of
`ChampionSelection`, so the composition rests on the refinement that
`Controller` checks. The loop is one thread; other holders of the experiment or
of the search controller act while the loop is inside a call of the runtime or of
the plugin (`Foreign`). A second loop may be created over the same experiment,
with the old search controller or a new one (`NewLoop`).

**StudyBarrier** is `experiments/study.py`. The journal is a sequence of events
and the state its replay. A run is the three live objects that
`AutomaticSearch` composes, and a caller may pair objects of different runs.
`register_run_closure` and `authorize_sealed` verify live objects one at a time
and take no lock on them, so each verification is a step and a run may move
between two of them. `Reopen` may come at any tail.

**ScheduledBatch** is `execution/schedule.py` and `receipts.py`: the preflight
certificate, the authorization of a cell against the tail, the reservation, the
record, the receipt and the replay of trusted usage, each a step between which
another holder of the ledger may run an attempt. An attempt is its reservation and
its outcome; `AttemptRunner` has the inside.

**BaselineGate** is the GATE study over such batches, beside a study journal: a
ledger of its own for every condition and seed, usage reports against the arm's
ceilings, the closure, and the acceptance of a closure behind a sealed
authorization.

**HarnessFaultMechanism** serves requests once through the middleware runtime,
grades three comparisons and makes mechanism evidence of them: the three ledgers
are looked at one after the other, before, between and after what is published.

**FaultDevelopment** is the development run in one context and in four: probe the
faulty parent, propose a repair, compile, freeze, open the gate scenarios, run
parent, candidate, revert and placebo, decide by the frozen rule, publish, verify.
A pass of sequential calls is one action.

**FourArmDevelopment** is the four-arm runner, an action per call; the trace is the
sequence of calls, and each of the two ledgers holds the calls that are its own. A
call may be answered, fail, overrun, or be answered with white space only, which the
FULL disclosure of a parent's fit answer does not take.

**ScoreFeedback** is the admission of a matched study (`matched_v2.py`) and the
attestation of what the SCORE condition may see of a round, which is verified by
projecting the chain of rounds again. A batch replays until
its ledger moves.

**PublicCampaign** holds the events of a v2 journal and the replay that verifies
them; **CampaignExecutor** the executors over one sink. Between the reservation of
a slot and its event the executor is outside its own process's control; any
number of executors may be created, from the sink's snapshot or an older one, and
a compare-and-swap decides. The frozen plan is the parameter `Nodes`.

**MetaRuntime** is how a candidate of that campaign is proposed. The functions of
the source are pure and take whatever their caller pairs, so the model keeps what
the journal and earlier calls left (events, requests, parse results) and offers
each function all of it, of either cell and of another runtime. The resolver of a batch
looks at the nodes of the results it is given and not at the runtime they were parsed
under, so it is also given results that were parsed elsewhere (`ForeignProposals`). An
artifact stands for its fingerprint.

**SemanticCampaign** is the review campaign: a process that asks two reviewers, a
third where they disagree, and issues the release by the rule of
`benchmark/bfcl_v4_public_v2_semantic_release.py`. It may die or raise between any
two steps and is started again with any of the sessions the sink kept, under any
catalogue the provider then advertises.

**TrustedGrading** is the plane of the grader: the live configuration frozen over a
verified release, the producer's records, the registry whose `take` is under a
lock, the evaluation unlock, the projections of single grades and of the closing
PURE@B batch. The full grader is external and may raise or answer about another
call. Only one registration is single-use: after a record was taken, the producer's
caller may register the node again (`trusted_adapters.py:152` looks at what waits).

**RunProtocol** builds the call plan of a replicate as `bfcl_v4_public_pilot_plan.py`
builds it, states what its validator requires, and says which event may follow which
(`_apply_event` and the verifiers it calls).
**RunJournal** is the journal object, several of them over one store, each with
the tail it remembers and callers that name any published tail.

**PilotRun** is the selection rule with its evidence, the held-out observations, and
the single-use runner of one replicate: harness of a
slot, request, attempt and account, completion, freezes, result, and the offline
verifier. A run is one record, so **PilotCampaign** can hold the run in progress
beside the completed ones. It is the campaign executor, one action per call and
per write, with the analysis it derives at the end. A decision over a proposal that
parsed behind a diagnosis that did not (`Undiagnosed`) raises, as the selection
contract does; `trouble` remembers it beside the infrastructure faults.

Operators marked *Mutant* are wrong variants of the definition that follows them:
substituted for it, they make the named property fail, which shows that the
property depends on that line of code.

## Runs

| Run | Question | Size |
| --- | --- | --- |
| `AttemptRunner` | a native-function runner and a fixed or a pure one on one ledger: checkpoint, chain, ownership of the open reservation, single use of a slot, refinement of `TokenAccount`; does every attempt come back | 285,000 states |
| `AttemptRunnerAbandoned` | expected violation, see *Findings* | seconds |
| `Controller` | lifecycle caller against lock holder; frozen selection, accounting, refinement of `ChampionSelection`; is every started grant settled. In a second state space, terminal decisions over any signed artifacts; is every promotion deserved | 208,000 states |
| `ControllerUndecided` | expected violation, see *Findings* | seconds |
| `AutomaticSearch` | three state spaces: one loop over journal and experiment, with other holders, a second loop and a raising call, for a policy of each baseline; every journal a controller can write against its replay; SCORE feedback over ledgers that move. Budgets, one gate result per query, refinement of `SearchRun`, does a loop end | 655,000 states |
| `AutomaticSearchStranded` | expected violation, see *Findings* | seconds |
| `Studies` | six state spaces (`leg`): the study journal; the baseline GATE study behind a sealed journal; the last of three comparisons and their evidence; the development runs; the four-arm run; two run journal objects over one store. What an authorization, a closure, an acceptance, evidence and a result stand for; does every journal tail replay, is every branch one run | 1,335,000 states |
| `Persistence` | three state spaces: two executors over one sink, stopping anywhere, snapshots of any age; the proposals of two cells; two writers of the artifact store, with crashes and damage. One call per slot, one history, no promotion from burned evidence; does what is admitted rest on its own cell's calls; durability, wholeness, no repair, refinement of `DurableStore` | 362,000 states |
| `CampaignExecutorResume` | expected violation, see *Findings* | seconds |
| `PilotCampaign` | two 22-call replicates with up to two unusual answers and two failing writes; what stops, what is promoted, what the terminal claims. In two more state spaces, the semantic review and the grading of the second campaign; is a release one review, is a grade of its own call | 392,000 states |
| `PilotCampaignUndiagnosed` | expected violation, see *Findings* | seconds |
| `PilotCampaignMissing` | expected violation, see *Findings* | seconds |

### What the properties say

*Attempt ledger and runners.* `ReplaysAgree` joins two facts of the chain: the
checkpoint used by every budget decision is what a full replay would compute
(`CheckpointIsReplay`), and the writer never publishes a chain its own replay would
reject (`ChainReplays`). `BudgetHolds` (proved; the run
has it through `AccountKept`): attempts and tokens stay within the budget, and only
a last attempt can overrun.
`CallHoldsReservation`: a call in flight has the one open reservation.
`ReturnedIsAccounted`: a returned record has its outcome, at its usage, once.
`RunnersInv` joins the types with `SlotsCallOnce`: a native slot is called once in the
life of a process, however the call ended.
`ScheduledPlaceKept`: a scheduled attempt reserves directly behind the tail it
was scheduled at. `AccountKept`: the ledger implements `TokenAccount`.
`CallsComeBack`: under fairness.

*Controller.* `SelectionFrozen`: from the closing of selection to completion
there is no active candidate and no call in flight, and champion and usage head
are those the closure binds. `UsageInv` joins the types with `UsageReplays`: the
usage chain always passes its own replay, with budgets, single charges and
settlements behind reservations.
`SpendingAccounted` joins four facts: no evidence without its charge, no
reservation left open unless the accounting is closed or its settlement could not
read the ledger, no backend called without
a reservation, no result returned without its settlement. `PromiseKept`: refinement
of `ChampionSelection`, which carries the champion's lineage and that nothing is
refunded. `ExecutionSettles`: under fairness, a started grant is settled or closes the
accounting, unless its process ends or its settlement could not read the ledger. `DecisionInv` joins the types with
`PromotedDeservesIt`: a contender is promoted only on trials run for it, against its
parent, over a roster that ran (`PromotedOnOwnTrials`), and where nothing may be
missing every task gained (`TasksGained`), whichever artifacts the evaluation was put
together from.

*Automatic search.* `LoopInv` joins the types with `BudgetsHold`: whatever loops and other holders do, gate
evaluations, diagnoses, proposals, screens and optimizer calls stay within the
frozen policy. `NoGateResultTwice`: disclosures are about different candidates,
although the journal alone would accept the same authorization again.
`PromiseKept`: refinement of `SearchRun`. `LoopEnds`: under fairness.
`JournalReplays`: whatever operations a controller was let through, the replay of its
events accepts them and arrives at the snapshot the operations went by.
`FeedbackIsFresh`: in an admitted run, the champion that returned feedback hands on
was won on fresh ground; no two rounds of a chain were gated on one batch, one task
family or tasks that were explored, and it is the candidate of the last round that
promoted.

*Study.* `AuthorizedIsComplete`: an authorization stands for one intact run of
every cell, each registered with the authorizing controller. `MovedRunBlocks`: a
run that had moved when `authorize_sealed` began is not covered. A run that moves
after its own turn of the verification loop is: the call verifies runs one at a
time and holds no lock over them, so `docs/search-protocol.md`'s detection of
moved runs holds up to the start of the call.

*Batches and the baseline study.* `TrustedUsageIsExact`: at the moment usage is
certified, the ledger did exactly one attempt per cell, in order, for the batch.
`ClosureStandsForCalls`: a closed study has a ledger per condition and seed, whose
first outcomes are one settled call per cell, with common seeds inside a pair and
different ones elsewhere. `AcceptedIsSealed`: an acceptance stands behind a sealed
authorization of the same plan, protocol, split and seed harness. `StudiesInv` joins
the types with `SpendingWithinPlan` (an arm is charged within its ceilings while the
money is spent, unless a backend overran) and `ReportsShowCharges` (a report never
shows less than its condition's ledgers were charged).

*Harness faults and four arms.* `EvidenceIsSnapshot`: evidence taken ledger by
ledger is one picture, an instant at which the three ledgers held exactly their
settled batches. `DevelopmentStands` joins three facts of a published development
result: it verifies offline, no gate scenario was opened before every candidate was
frozen, and what the rule promotes repairs the fault for the reason the mechanism
names. `FourArmStands`: a holdout harness was earned by its own calls, and a run
that was not stopped by an overrun or by a blank fit answer of the parent ends in a
closure.

*Executor.* `ExecutorInv` joins the types with `CallsAccounted`: over all executors, restarts and stale snapshots a
slot is called at most once and every call is in the journal or reserved there.
`OneHistory`: the sink's journal only grows. `BurnedEvidenceNeverPromotes`: a
crash may cost a promotion and never brings one about.

*Proposals.* `ProposalsStand` joins `FeedbackIsOwn` (an admitted mutation was
answered to the pipeline's own proposal request, which showed what was answered to
its own diagnosis request, which rested on the cell's own FIT calls; said of results that
were parsed under this runtime, since the resolver admits others too) with
`DuplicatesClosed` (the lowest pipeline keeps a repeated mutation, and no clean one is
lost).

*Run journal.* `JournalInv` joins the types with `TailReplays` (every published tail
replays to what the object on it remembers) and `BranchIsOneRun` (the entries of a
branch are one run in plan order, with both freezes taken from the branch's own
calls).

*Pilot campaign.* `OnlyRealFaultsStop`: a campaign that stopped had an
infrastructure fault, a drifting backend, an overrun, or a proposal without its
diagnosis; nothing else a provider
answers within its ceiling stops it, so runner, journal, selection contracts and
offline reader agree on every other record. `ConclusionsAreEarned` joins
`PromotionIsEarned` (a held-out call runs the candidate exactly when the record of the
calls earned it) with `PairedIsDifference` (the paired counts of an analysis, pooled
task by task from the replicates, are the difference of the arms' counts).
`TerminalIsExact`: the terminal claims what was verified, and completeness only over a
campaign that nothing but an overrun or its own publication troubled, where a
proposal without its diagnosis counts as trouble.

*Review and grading.* `EvidenceIsOneReview`: whatever processes died and whatever
sessions were handed over, released evidence is one review, made under the setting
and the catalogue it names, with an adjudicator exactly where the primaries disagree.
`GradesAreOwn`: a grade is of the output the executor asked about, of an execution of
that node under the live configuration; a held-out grade rests on an unlock issued for
this barrier, and one registration is graded at most once.

*Store.* `DurableInv` joins the types (nothing unflushed is ever linked) with
`ReturnedIsDurable`, a reference that was returned survives a power failure, and
`VisibleIsWhole`. `StoreIsDurable`: refinement of `DurableStore`, which carries that
damage is never repaired (`NeverRepaired` is proved of the model directly).

### Bounds, and why they are enough

- Ledger: two runners (native and fixed, or native and pure), one native slot, two attempts, three tokens in total, at most two per
  attempt, reported usages 0, 1 and 3. An exact fit, a refusal by attempts, a
  refusal by tokens, an overrun of the last tokens and a settlement that makes
  room for a second reservation all occur. One failed write, one damaged artifact
  and one reopening reach every pair of them in an attempt. `TypeOK`,
  `SlotsCallOnce`, `ReplaysAgree`, `BudgetHolds`, `AccountKept` and
  `CallHoldsReservation` are proved for all bounds and any runners and slots.
- Controller: two prompt candidates (two siblings of one parent, and a child of
  a new champion, both occur) and one skill candidate. Eight evaluations and seven
  tokens hold most but not all charges: a gate evaluation costs two evaluations
  and one or three tokens, a probe reserves four evaluations and four tokens, an
  arm encumbers 0, 2 or 3. Refusals by evaluations and by tokens, unused
  reservations and overruns past the reservation and past the budget occur. One
  failed storage operation and one restart (`MaxFaults`, `MaxRestarts`).
- Terminal decisions: two contenders under different policies (one names seeds; the
  other has an effect floor, a protected slice and resource limits), two tasks and two
  seeds, two batches and two evidences signed at most, one wrong binding. Every trial
  set deviates from the plan in one way.
- Search: two candidates, a policy of each of the four kinds with every limit
  reached, two loops, one step of another holder, one call that raises.
- Search journal: three smaller policies, two candidates that the experiment decides
  once, the events of one controller; enough for two nominations, two declines and
  every stopping rule.
- SCORE feedback: two rounds, three candidates (one of them on a promoted parent),
  two measures, gate blocks of fresh families or of one family, four objectives of
  which one over a batch of the wrong kind, one ledger that moves.
- Study: two cells, one of them searched twice, so that a run can be replaced and
  objects of different runs can be paired; two controllers.
- Baseline study: two conditions, two seeds, one pair of cells, five ledgers, one
  attempt of another holder, two executions, usages of the ceiling and above it, a
  study journal sealed over the right and the wrong runs.
- Mechanism: three comparisons, two of them already graded on ledgers with an attempt
  to spare, so that a foreign attempt fits anywhere; two runtimes.
- Fault development: an odd and an even fault family (they are repaired by different
  rules), two contexts, one call that is not answered as instructed; the partition of
  the scenarios is checked for all seven families by an assumption.
- Four arms: three tasks per split, one of one benchmark and two of the other, one
  call that fails, overruns or is answered with white space only.
- Executor: one adaptive arm with one candidate, one cell of each stage and nine
  nodes, two executors that start at most twice in all, one provider failure. A
  second candidate or cell repeats the same stage rules. The shadow calls of the gate
  (revert, negative control) are left out, so a decision there never fails for
  answers that differ among shadows; the theorems hold with them.
- Proposals: a SCORE and a FULL cell, two tasks of which one was answered right, two
  pipelines, two mutations of different components; replies are clean, outside the
  catalogue or without a call, and one reply, pairing or batch (`MaxLapses`) is out of the
  ordinary, which suffices for a duplicate, a failure and a foreign reply.
- Review: one setting, catalogues with the frozen models, with one more and with too
  few, two partitions of which one crosses a split, three processes.
- Grading: a FIT and a HOLDOUT node, one PURE@B cell, two outputs, two releases of
  which one is verified, two executions of any slot and request, two registrations of a
  node, two threads.
- Run journal: one task of each kind and one GATE variant (fifteen slots), two
  objects, one entry or closure whose publication fails after the write. SCORE's
  proposal yields a valid candidate or none, so that branches differ in their freezes,
  and FULL's none; the arms take the same code.
- Pilot campaign: one task per split, all four GATE variants, two samples
  (22 slots), two replicates (three in the code). By default the parent harness
  answers wrong and the others right, so a promotion is the normal case; up to two
  calls of a campaign deviate in any way, and up to two writes fail. The violation
  runs have one replicate, one GATE variant, one sample, and each the one deviation it is
  about.
- Store: two writers, three contents, two of them in one shard, so that a flush
  of a shard by one writer carries the other's entry. One failed call, two
  crashes, one object changed from outside. All properties are proved for all
  bounds.

Symmetry (writers and contents of one shard, executors, mutations, journal objects,
champions, grading threads) is used only in runs without a liveness property. In
`Persistence`, two executors are also the two writers, two mutations also the two
contents of one shard, and in `Studies` two champions also the two journal objects;
only one of the state spaces moves in a behaviour, so sharing the names costs no case.
Deadlock is checked for the store; executors and proposals may come to an end and
stutter there. The runner and controller models really stop: a ledger with its budget spent, and an experiment that is
complete, invalidated, or left with a candidate in `RUNNING_GATE` after its budget
refused the evaluation.

### Fairness

`FairSpec` of the runners: weak fairness of each runner's `ContinueCall`. A call that
has begun runs on its own thread; a backend answers, raises, or is cut off by its
deadline. `LiveSpec` of the controller: weak fairness of `WorkerStep`, the holder
of the lock, for the same reason. Nothing is assumed of callers: no attempt, no
lifecycle step and no lock acquisition has to happen. `LiveSpec` of the search:
weak fairness of `LoopStep`; the loop is one thread whose calls return or raise
(`_call_feedback` and the others turn an exception into a rejection). Storage and processes may
fail within their bounds, and the liveness properties name those outcomes.

### Findings

`AttemptRunnerAbandoned` states what `docs/verification-protocol.md:73-75` and
`README.md:199-201` say of the runner, that it settles success and burns failure
after a call. When a backend call succeeds and storing its execution then fails
(`execution/model.py:480`, a write outside any handler), the attempt ends with its
reservation neither settled nor burned, and the ledger refuses every later one.
The failure path of the same function does burn in that situation. The budget
stays safe: the open reservation counts as spent.

`ControllerUndecided`: the docstring of `_settle_skill_probe_usage`
(`controller.py:1036`) says that it publishes the terminal probe charge or
permanently closes accounting. Its first statement (`controller.py:1039`) asks whether the
accounting is open, which replays the usage ledger, and stands outside the `try`. When
that read fails, the call raises with the grant started, the reservation open and the
accounting open, and the grant cannot be executed a second time
(`skill_probe_authorization.py:305`).
What is reserved stays charged, so the budget is safe.

`AutomaticSearchStranded`: `_last_gate_view` (`orchestrator.py:3609`) expects the
last disclosure to be of the round just completed, but an empty round completes
without a disclosure. After a nominated round and then a declined or empty one, the
next round is opened and the loop raises: the round stays open, and `run()` refuses
a journal with an open round. `docs/search-protocol.md:57-58` says the loop repeats
until a stopping rule fires and then closes.

`CampaignExecutorResume`: the contract of a reservation and
`docs/iclr-2027/bfcl-v4-public-v2-executor.md:67` say that recovery burns a reserved
slot. Inside the evaluation stage it cannot: a resumed executor asks for its
evaluation authority before it looks at the pending reservation, and the authority
is only issued over a snapshot with no reservation and exactly the events before
the first evaluation call. The tests resume at slot 0 only
(`tests/unit/test_bfcl_v4_public_v2_executor.py:511`).

`PilotCampaignMissing`: when publishing the derived analysis input fails, the
campaign executor composes a failure with the input's fingerprint and without its
reference; the terminal contract refuses that pair, and the campaign ends without
a terminal artifact. The tests cover a failing replicate only
(`tests/integration/test_bfcl_v4_public_campaign_executor.py:223`).

`PilotCampaignUndiagnosed`: `docs/iclr-2027/bfcl-v4-public-pilot-protocol.md:115-116`
says that invalid candidates consume all frozen slots through parent fallback and still
force rollback. When the diagnosis of an arm is invalid and its proposal parses, the
candidate is inadmissible and yet has a prompt digest; the contract of the decision
(`bfcl_v4_public_selection_contracts.py:401`) requires the two to agree and raises,
and the campaign ends incomplete. The tests have valid diagnoses only
(`tests/unit/test_bfcl_v4_public_selection.py:79-87`).

Other differences between documents and code, met while modelling and not made
runs: `docs/search-protocol.md:67-69` counts consecutive declined rounds, and the
code (`search.py:1333`) also ends a run of declines with a round that proposed but
nominated nobody; `docs/search-protocol.md:36-38` says a moved run invalidates the
barrier, and `study.py` refuses to authorize without invalidating anything.

## Proofs

All theorems are checked by TLAPS, for any values of the constants that meet the
named assumptions of the modules they are about; TLC evaluates those on every run.
Most are types and signs (`BudgetAssumption`, `BoundAssumption`, `FaultAssumption`,
`CandidateAssumption`, `LoopAssumption`, `StudyAssumption`, `ExecutorAssumption`).
The others are `ShardAssumption` (a digest has one shard), `AssignmentAssumption`
(runners have kinds), `PolicyAssumption` (what the manifest of a search requires of
its policy), `CandidatesAssumption` and `KeysAssumption` (finitely many candidates,
finitely many cells of a study), `SeedAssumption` and the two `AbsentAssumption`s
(the seed is no candidate, and `Absent`, which stands for `None`, is no value), `UnfrozenAssumption` and `NothingAssumption` (no freeze is not a freeze),
`FourArmAssumption` and `DevelopmentAssumption` (there is a task, there is a context),
`NoCallAssumption` and `BatchAssumption` (no call is not a call, no batch is not a batch),
`FeedbackAssumption` (the gate blocks of a run are numbered, the seed is no candidate),
`PatchesAssumption` (no patch of one kind covers the fault families in play; none covers
all seven), and `CampaignAssumption`, which says of the frozen node sequence what `_build_drafts`
makes of it: stage after stage, one nomination and one decision per adaptive arm,
every candidate's FIT calls behind its proposal.

**AttemptRunnerProofs** begins with the ledger (`LedgerInvariant`, `LedgerCheckpoint`, `LedgerBudget`,
`LedgerReplays`, `LedgerReplaysAgree`, `LedgerKeepsAccount`). The four properties are not inductive: a
reservation fits because of what the checkpoint says, and the checkpoint is right
because of how the chain was built. `LedgerInv` joins the counts of the two
sequences with the checkpoint's (`CountsAgree`), the token sums with the verified
pairs (`TokensAgree`), says that a poisoned outcome is the last one
(`PoisonIsLast`), that one epoch wrote the chain (`OneEpoch`), and that a latch has
a cause (`LatchHasCause`). The running total over the chain is a recursive
function, and induction over its length is not available to the provers. The
invariant therefore carries two facts from state to state: some function satisfies
the recursion (`TotalDefined`) and every function that does ends in
`checkpoint.charged` (`TotalUnique`); appending an outcome extends the one and
pins the other (`TotalExtends`).

The runners stand on it (`RunnersUseLedger`, `RunnerTypes`,
`CallsHoldReservations`, `ReturnsAreAccounted`, `SchedulesKeepTheirPlace`). Every
step of the runners is a step of the ledger or leaves it alone, so the ledger's
theorems hold under any number of runners; ownership of the open reservation is then
inductive with them, the case that matters being a consume or a reopening while
another runner is scheduled. `ReturnedIsAccounted` needs one thing more
(`WithinCeiling`): a success that is about to settle has a usage within its ceiling,
so that the settlement cannot poison the ledger and fail after it was written.

The same module has the kinds of runners (`KindsRefineRunners`,
`NativeSlotsAreSingleUse`). Every step of every kind is a step of `AttemptRunner`, so
all of the above holds of any mixture of kinds. That a slot is called once is
inductive together with `SlotsRemembered`: the slots of the granted calls are among
those the runner refuses.

**ArtifactStoreProofs** (`StoreTypes`, `StoreReturnedDurable`,
`StoreVisibleWhole`, `StoreIsSound`, `StoreNeverRepairs`, `StoreImplementsPromise`).
`ReturnedIsDurable` needs to know what a call has already achieved at each step.
`CallsFollowTree` says it: past the flush of the objects directory the call's
shard is durable, past the link its object is there. `NothingDirty` says that no
linked bytes are unflushed, so a power failure tears nothing (`PowerLossKeeps`).
Both ways through `put_bytes`, publishing and finding, meet at `FLUSH_SHARD`, where
the two facts give durability. The refinement maps linking to publishing, the shard
flush to acknowledging, and every other step of a call to a stutter.

**AutomaticSearchProofs** (`LoopBudgets`, `GateResultsCountOnce`,
`LoopKeepsPromise`). Budgets are compared by the search controller at the operation
and spent by the loop at another time, so `BudgetInv` counts them against the place
where the loop stands: optimizer calls are at most two a completed round plus those
of the round in progress (`CallsCharged`), disclosures against nominations, gate
evaluations against disclosures. `DisclosureInv` ties the disclosures to the
authorizations of the experiment: what was disclosed is terminal there for good, and
the nominee of an open round is not yet disclosed, which is why the journal, that
would accept an authorization again, is never handed one. `ClosingInv` says what the
search closure binds while the experiment closes, for the refinement of `SearchRun`.

The same module has the feedback of a SCORE search (`FeedbackStaysFresh`). A ledger may
move as soon as a round was projected over it, so `FeedbackInv` keeps of a stored chain
only what no ledger can take back (`RoundAttested`): the block and its place, the task
names of both batches, and the champion that follows from the round before. The
numbering of the blocks makes the n-th round the one on the n-th block
(`BlockOfRound`), and with the freshness of the blocks two rounds share no ground
(`RoundsApart`). That a champion is the candidate of the last round that promoted is
shown for the least round where it could be wrong (`ChampionsWon`).

**StudyProofs** (`StudyTypes`, `AuthorizationIsComplete`, `MovedRunsBlock`).
The state of a study controller is the replay of its journal, and a controller may be
opened on any prefix of it. `JournalInv` is therefore about all prefixes: nothing is
registered twice for a cell (`OncePerKey`), nothing behind the barrier, and the
barrier has every cell before it (`BarrierStands`). `CallStands` is what the loop in
`authorize_sealed` has verified so far, one live run at a time. A run is never opened
again once closed, so what was verified of it before the call began stays.

The same module has the batches (`ComparedUsageIsExact`, `GateUsageIsExact`,
`ClosureStands`, `AcceptanceIsSealed`, `EvidenceIsOnePicture`). Whoever made a ledger may write to it
between any two calls of a batch, so `BatchInv` never says where the ledger ends. It
says that the receipts are the attempts behind the boundary, one per cell
(`ReceiptsInv`), and where the next attempt is expected (`ProgressInv`); a call in
flight is the only time at which the ledger is known to be the batch's own. The last
comparison of the replay turns "at least these attempts" into "these and no others".
`GateInv` adds that a signed batch filled a ledger bought for it
(`Paid`), to which nothing can be added: the results of earlier seeds and conditions
cannot move, and no later batch finds their ledger fresh. The seeds of a report are
those of the plan, which is what makes the number of batches right. An acceptance
names a prefix of the study journal; since an authorization is the last event of any
journal (`AuthorizationStands`), the prefix is the whole. `FaultInv` holds for the
three ledgers that are looked at one after the other: a batch that was graded has its
calls on the ledger for good (`Filed`), and either nothing followed them or something
did (`Moved`) and will not go away. A pass that finds ledger after ledger unmoved
therefore proves that none had moved when the pass began, and that is the instant
`EvidenceIsSnapshot` asks for.

**ExperimentControllerProofs** (`ChainReplays`, `SelectionStaysFrozen`,
`SpendingIsAccounted`, `ControllerKeepsPromise`). The two activities meet in three
places. On the usage chain totals only grow and a poisoned end blocks the accounting
(`LedgerInv`). A grant is burned under its reservation and not before (`GrantInv`),
and an arm's spending is within what the reservation has left while the lifecycle
moves on (`WorkerInv`). That a gate query charges a candidate whose reservation, if
it has one, is settled is part of it: no run reaches a counterexample, but without
that part the invariant is not inductive. `LineageInv` is for the refinement of
`ChampionSelection`: champions and parents are the seed or were promoted.

The same module has `PromotionsRestOnOwnTrials`, about **GateDecision**. A verdict of
promotion rests on an evaluation that was joined and decided so (`VerdictStands` in
`GateInv`), and since artifacts are immutable nothing signed later takes that away. A
decision to promote has every check of the gate passed (`PromoteMeansPass`), and the
checks are then read back to single trials (`ChecksMeanRosterRan`), whether the policy
names tasks and seeds, tasks only, or neither. Assumed are what the contracts require:
trials in finite number, checks passed, failed or unobserved, and a number of tasks.

**CampaignExecutorProofs** (`CallsAreAccounted`, `JournalGoesOn`,
`PromotionsRestOnEvidence`, `ProposalsAreOwn`). The sink compares before it stores, so
the snapshots that were ever stored are prefixes of one history (`Stored`), and every
executor holds one of them (`HeldInv`), however old. `CallInv` says that only the executor
whose reservation is the sink's can be between reserving and appending, and that its
slot was called at most once; a recovery replaces the reservation and takes that
standing away. `SinkInv` says that the sink's events verify, a reservation in it is
the one its events call for, and nothing stored is the empty snapshot, which is what
a new executor expects. Promotion is recomputed from the events before the decision;
that those include every call of the arm follows from the order of the stages
(`StagesInOrder`, `PromotionRestsOnCalls`), and that the nominee is a valid candidate
from there being a least one among finitely many (`NominationIsValid`).

The proposal runtime is handed what some caller holds, of this pipeline or of
another. The resolver may even be handed what was parsed under another runtime, and
then says so in the batch: `BatchStandsOn` takes each result of a batch for one of the
run's own, or one with another runtime in its request. `ResultStands` ties a result to the one request of its node: a clean result
can only be of the reply to that very request (`CleanAnswers`), and since a request names its node that is the reply the
node's own event holds. `RequestsStand` continues the chain to the pipeline's diagnosis
and to the FIT calls of the cell. That a repeated mutation is kept by the lowest
pipeline, and cited by the others, rests on a least element (`ResolvedCloses`).

**DevelopmentProofs** (`FourArmRunStands`, `DevelopmentRunStands`). Both runs walk a
plan, and both invariants begin with "the record is the plan as far as it got". For the
four arms these are `TraceInPlan` (the i-th call has the phase, arm and task of the
plan) and `StageAtLength` (the stage follows from the number of calls). `FreezesStand`
says that the freezes in the store are the ones the calls before them give, and
`HoldoutsRecorded` that a holdout call ran what the selections say, whose counts no
later call can change, since fit and candidate calls are over. That the closure never
refuses a run that spent its calls is counting: each phase has its number of calls, and
the rotation of the arms is a bijection between the holdout calls and the pairs of a
task and an arm. For the repair runs, `LedgerInOrder` and `DevPosition` give the order
of the passes, `CandidatesDerived` and `RulesCompiled` what each candidate and each
answer rests on, `FreezeStands` and `ResultStands` what is in the store. The offline
verification looks each pass up by stage, context and role; in the order of the plan
there is one (`DefinitionPasses`). Promotion by mechanism needs a rule that serves every
repairable scenario and no null one, and among the candidate rules only the routed
policy does (`OnlyRepairServes`).

**CampaignPlaneProofs** (`ReviewIsOne`, `GradingStands`, `TerminalsAreExact`). The two
parts around the v2 executor are handed what some caller holds, of this run or of
another, so each invariant says of everything in hand whose it is. For the review it is
`HeldInOrder`: what a process holds at each step, every session persisted and made in
the process's own setting and under its own catalog; a release is issued over nothing
else. For grading, a registered record is a call of the live configuration that was
executed (`OwnCall`), an attempt that took a record took the one of its node and output
(`GradersStand`), and nothing exists before the configuration is frozen (`LiveStands`),
so that freezing it invalidates nothing.

For the pilot, `PilotInv` says where the campaign is and what there may be by then: the
k-th checkpoint holds the first k verified replicates and names the one before it
(`CheckpointsStand`), what is analysed is what was verified (`AnalysisStands`), and a
drifted backend, a proposal without its diagnosis or a failed write or registration is remembered until a terminal is
composed, which then cannot be a complete one (`TroubleStands`).

Only model-checked: liveness (`CallsComeBack`, `ExecutionSettles`, `LoopEnds`),
which is out of the prover's reach, as is anything about `ENABLED` or about recursion
for every input. `TasksGained` in `DecisionInv`, `JournalReplays` and the
`BranchIsOneRun` of `JournalInv` are about folds over trials or events (the scores of a
gate decision, the second replay of a search, a branch), whose step the provers cannot
take for every length; the same holds for the rules of the pilot
(`OnlyRealFaultsStop`, `ConclusionsAreEarned`) and for `SpendingWithinPlan` and
`ReportsShowCharges` in `StudiesInv`, which sum the charges of ledgers.

## Not modelled

- *Contents.* Parsing, canonical JSON, prompts, grades, signatures, fingerprints: a
  join of artifacts is reduced to whether it holds.
- *Statistics and power analysis.* Floating-point computation. Of the gate's
  statistics the model has the scores of at most three tasks, on which the bootstrap
  interval is decided; rates, latency and tool-call ratios are left out.
- *Providers, graders, command lines.* Input and output; in the models a backend
  answers within or above its ceiling, misreports, or raises.
- *Cost, wall time and tool calls.* They are charged and compared as tokens are;
  the models carry evaluations and tokens.
- *Two controllers on one experiment*, which the source excludes, and two
  lifecycle callers. A study or search controller that is reopened at an older tail
  can fork its journal; the source documents a single writer and the models keep to
  one tail.
- *Batches.* More than one attempt per cell, which nothing in the source schedules;
  the HMAC of attested batches; materialization of harnesses.
- *Search journal.* Links, run coordinates and signatures of events.
- *Orchestrator.* The admission of a search run to a study
  (`SearchRunAdmissionService`) with the frozen run schedule and the cross-run
  profiles of `study.py`. A loop that is run again over the same experiment may spend
  beyond the study's ceilings, which only those joins compare.
- *SCORE feedback.* Resource ratios, intervals, media types and reserved digests. That
  a gate block is asked about once is documented as not attested, and not a property.
- *Harness faults.* Contents of cases, disjoint axes of fit and gate blocks, token
  amounts, isolation of providers, rates. In a `PERFORMANCE_ONLY` cell a parent call
  that was lost counts as a wrong answer, and a development plan that is run again
  starts a fresh ledger and spends again: the code does both, and no property is
  about them.
- *Four arms.* Grades of held-out tasks, provider identities, sums of resources, a
  store that raises. A run whose last call overran still publishes its closure.
- *v2 executor.* Runs without a checkpoint sink, executor fingerprints. A late answer of a replaced executor is refused by the sink,
  so the attempts a replay counts may be fewer than the calls that were made.
- *v2 proposals, review and grading.* Prompt texts, tool schemas, the wording of
  replies, the neutralization of delimiters; the full grader and the reviewers
  themselves; what a release copies from its sessions; sessions of another reviewer
  packet. The seals of a
  process (an issued call, an adapter's unlock) are taken to be unforgeable.
- *Run journal.* A lock between processes, which the source documents as absent. A
  CLOSE entry whose closure fails to be published leaves a tail that cannot be closed
  again. FIT and GATE receipts do not bind the candidate freeze.
- *Pilot.* Contents of predictions, provider identity counts, samples that cannot be
  normalized. An overrun on the last call, with all other calls at their ceiling, is
  caught by offline verification only. A backend that drifted is assumed to stay so;
  what a failed replicate left behind is dropped; stored results are not verified
  again.
- *Native slots* are remembered by the process: after a restart, or by another runner,
  a slot may be called again. The source says "process-local", and the model has it.
- *Parts with status* `not_modelled` in `PROJECT.json`: they are pure, generated, or
  input and output.

`PROJECT.json` gives each part its status and, under *hazards*, what no property
covers and why. Six facts are worth knowing: a process that dies inside a probe loses
the usage head published under the lock; invalidation may overtake evidence in flight,
whose charge then follows the head the report binds; a candidate whose gate evaluation
the budget refuses can only be left by invalidating; a failed write of a staging file
leaves it in its shard; a completed fit answer of the parent that is white space only
ends a four-arm run; a batch of proposals is resolved without asking whether its results
are of one runtime.

## Plan

The modules cover every part whose correctness depends on order. The ledgers, the
store, the controller and what a promotion rests on, the search, the studies, the
development runs, the v2 executor and what surrounds it, and the terminal of the pilot
are proved. Left:

1. `BranchIsOneRun` of the run journal for a branch of any length, if the checks of
   one event can be stated without the fold over those before it.
2. The rules of the pilot campaign, which count failures and wins over sequences.
3. Model items: the admission of search runs to a study, and message visibility of
   `agents/orchestration.py`.
