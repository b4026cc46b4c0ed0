----------------------------- MODULE BaselineGate -----------------------------
(***************************************************************************)
(* experiments/baseline_gate_runner.py, baseline_gate_closure.py and       *)
(* baseline_gate_acceptance.py: the GATE study of the frozen baselines.    *)
(* Every condition runs one paired batch per search-run seed, each on a    *)
(* ledger of its own with exactly the batch's worst-case budget; the       *)
(* trusted usage of the batches becomes the condition's report, the        *)
(* reports and batches become the study closure, and a closure is accepted *)
(* only behind a study journal that authorized sealed evaluation.          *)
(***************************************************************************)
EXTENDS StudyBarrier, ScheduledBatch

CONSTANTS Kinds,          \* conditions in the order they run
          Seeds,          \* number of frozen search-run seeds
          Plans,          \* arm ceilings of a plan: [evaluations, tokens]
          StudyPlan,      \* the plan the study journal froze
          Claims,         \* search usage a caller declares for a condition
          Boundaries,     \* protocol, GATE split and seed harness of a study
          BoundaryOf,     \* what the experiment of a search run was bound to
          MaxLedgers,     \* bound: ledgers the factory opens
          MaxStudies      \* bound: executions of the study

GateSchedules == [kind : ToSet(Kinds), seed : 1 .. Seeds]

ASSUME GateAssumption ==
  /\ Kinds \in Seq(ToSet(Kinds)) /\ IsInjective(Kinds) /\ Seeds \in Nat \ {0}
  /\ GateSchedules \subseteq Schedules
  /\ StudyPlan \in Plans
  /\ BoundaryOf \in [Runs -> Boundaries]
  /\ MaxLedgers \in Nat /\ MaxStudies \in Nat

VARIABLES gate,       \* the study execution
          accepted    \* journals whose tail an acceptance was published behind

gateVars == <<batchVars, gate, accepted>>

\* since counts the ledgers opened before this one; results are the batches of
\* every condition so far, in the order of the seeds.
NoGate == [step |-> "IDLE", plan |-> StudyPlan, boundary |-> Absent, execution |-> 0,
           since |-> 0, results |-> <<>>, reports |-> <<>>]

GateInit == BatchInit /\ gate = NoGate /\ accepted = {}

GateAt(step) == gate.step = step
GateGoto(step) == gate' = [gate EXCEPT !.step = step]

\* Where execute_study is in its order of conditions and seeds.
CurrentKind == Kinds[Len(gate.reports) + 1]
CurrentSeed == Len(Last(gate.results)) + 1

-----------------------------------------------------------------------------
(* The plan                                                                *)

\* Mutant: the worst case of one search run is compared with the arm.
CoversOneRun(plan) ==
  RequiredAttempts <= plan.evaluations /\ RequiredTokens <= plan.tokens

\* _require_plan_can_cover_full_gate_axis: the worst case of all search runs.
CoversGateAxis(plan) ==
  /\ RequiredAttempts * Seeds <= plan.evaluations
  /\ RequiredTokens * Seeds <= plan.tokens

\* BaselineProtocolValidator._validate_permissions: a condition that may not
\* search claims none, and a proposal names what it mutated.
Permitted(kind, claim) ==
  /\ kind = "STATIC" => claim.proposals = 0 /\ claim.queries = 0 /\ claim.calls = 0
  /\ kind = "RANDOM_VALID" => claim.calls = 0
  /\ (claim.proposals > 0) = claim.mutated

\* _require_report_within_arm and _validate_budget
WithinArm(report, plan) ==
  report.evaluations <= plan.evaluations /\ report.tokens <= plan.tokens

-----------------------------------------------------------------------------
(* execute_study                                                           *)

BeginStudy(plan, boundary) ==
  /\ gate.step \in {"IDLE", "FAILED"} /\ gate.execution < MaxStudies
  /\ gate' = [NoGate EXCEPT !.step = "CONDITION", !.plan = plan, !.boundary = boundary,
                            !.execution = gate.execution + 1, !.since = Len(ledgers)]
  /\ UNCHANGED <<batchVars, accepted>>

\* execute_condition: derive the schedules of the next condition.
BeginCondition ==
  /\ GateAt("CONDITION") /\ Len(gate.reports) < Len(Kinds)
  /\ CoversGateAxis(gate.plan)
  /\ gate' = [gate EXCEPT !.step = "BATCH", !.results = Append(@, <<>>)]
  /\ UNCHANGED <<batchVars, accepted>>

\* The factory hands over a ledger: a new one, or one it handed over before.
HandLedger ==
  /\ GateAt("BATCH") /\ At("NONE") /\ CurrentSeed <= Seeds
  /\ \E l \in 1 .. Len(ledgers) + 1, budget \in Budgets :
       /\ IF l \in DOMAIN ledgers THEN UNCHANGED ledgers /\ budget = ledgers[l].budget
          ELSE l <= MaxLedgers /\ ledgers' = Append(ledgers, OpenLedger(budget))
       /\ batch' = [NoBatch EXCEPT !.step = "HANDED", !.ledger = l,
                                   !.schedule = [kind |-> CurrentKind, seed |-> CurrentSeed]]
  /\ UNCHANGED <<foreign, gate, accepted>>

\* _require_fresh_ledger: unused, and with the exact worst-case budget.
RequireFresh ==
  /\ At("HANDED")
  /\ ledgers[batch.ledger].outcomes = <<>> /\ ledgers[batch.ledger].pending = Nobody
  /\ ledgers[batch.ledger].budget = RequiredAttempts
  /\ Goto("FRESH") /\ Calm /\ UNCHANGED <<gate, accepted>>

\* Both arms are signed and stored, the parent's first.
PublishArm ==
  /\ \/ At("TRUSTED") /\ Goto("PARENT_SIGNED") /\ UNCHANGED gate
     \/ /\ At("PARENT_SIGNED")
        /\ gate' = [gate EXCEPT !.results[Len(gate.results)] = Append(@,
                      [schedule |-> batch.schedule, ledger |-> batch.ledger,
                       boundary |-> batch.boundary, receipts |-> batch.receipts])]
        /\ batch' = NoBatch
  /\ Calm /\ UNCHANGED accepted

Outcomes(result) == BatchOutcomes(result.ledger, result.receipts)

\* _require_complete_gate_batches: trusted usage of settled attempts only.
AllSettled(result) == \A i \in DOMAIN result.receipts : Outcomes(result)[i].disposition = "SETTLED"

UsageReport(kind, claim, results) ==
  [kind |-> kind,
   evaluations |-> FoldSeq(LAMBDA r, sum : sum + Len(r.receipts), claim.evaluations, results),
   tokens |-> FoldSeq(LAMBDA r, sum : sum + ChargedIn(Outcomes(r)), claim.tokens, results),
   seeds |-> {results[i].schedule.seed : i \in DOMAIN results}]

\* summarize_baseline_gate_usage, and the report is published.
Summarize(claim) ==
  /\ GateAt("BATCH") /\ At("NONE")
  /\ \E results \in {Last(gate.results)} :
       /\ {results[i].schedule.seed : i \in DOMAIN results} = 1 .. Seeds
       /\ \A i \in DOMAIN results : AllSettled(results[i])
       /\ \E report \in {UsageReport(CurrentKind, claim, results)} :
            /\ WithinArm(report, gate.plan)
            /\ Permitted(CurrentKind, claim)
            /\ gate' = [gate EXCEPT !.reports = Append(@, report), !.step = "CONDITION"]
  /\ UNCHANGED <<batchVars, accepted>>

\* Anything may fail: the call raises through execute_study, and what it has
\* published and spent stays.
GateRaises ==
  /\ gate.step \notin {"IDLE", "CLOSED", "FAILED"}
  /\ batch' = NoBatch /\ GateGoto("FAILED")
  /\ Calm /\ UNCHANGED accepted

-----------------------------------------------------------------------------
(* The closure                                                             *)

\* _verify_batch_artifacts: a fresh ledger, the cells covered once, each
\* settled under the seed the schedule gives it.
BatchVerifies(result) ==
  /\ result.boundary = 0
  /\ Len(result.receipts) = RequiredAttempts
  /\ \A cell \in Cells : \E i \in DOMAIN result.receipts :
       /\ ExecutionBinds(result.schedule, cell, Outcomes(result)[i])
       /\ Outcomes(result)[i].disposition = "SETTLED"

\* verify_baseline_gate_study_closure
ClosureVerifies(study) ==
  /\ {study.reports[i].kind : i \in DOMAIN study.reports} = ToSet(Kinds)
  /\ Len(study.reports) = Len(Kinds)
  /\ \A i \in DOMAIN study.reports :
       /\ study.reports[i].seeds = 1 .. Seeds
       /\ WithinArm(study.reports[i], study.plan)
  /\ \A k \in DOMAIN study.results : \A s \in DOMAIN study.results[k] :
       BatchVerifies(study.results[k][s])

CloseStudy ==
  /\ GateAt("CONDITION") /\ Len(gate.reports) = Len(Kinds)
  /\ ClosureVerifies(gate)
  /\ GateGoto("CLOSED")
  /\ UNCHANGED <<batchVars, accepted>>

-----------------------------------------------------------------------------
(* The acceptance                                                          *)

StateOf(chain) == IF chain = <<>> THEN "NONE" ELSE StateAfter[Last(chain).kind]
BoundIn(chain) == {event.closure : event \in {e \in ToSet(chain) : e.kind = "RUN_REGISTERED"}}

\* Mutant: the boundary of one registered run stands for all.
BoundaryOfSome(chain) == {BoundaryOf[(CHOOSE closure \in BoundIn(chain) : TRUE).experiment]}

\* _expected_study_execution_boundary
BoundaryIn(chain) == {BoundaryOf[closure.experiment] : closure \in BoundIn(chain)}

\* publish_baseline_gate_study_acceptance at the tail its caller names.
AcceptGate(n) ==
  /\ GateAt("CLOSED")
  /\ \E chain \in {SubSeq(journal, 1, n)} :
       /\ StateOf(chain) = "SEALED_AUTHORIZED"
       /\ BoundaryIn(chain) = {gate.boundary}
       /\ accepted' = accepted \cup {chain}
  /\ gate.plan = StudyPlan
  /\ ClosureVerifies(gate)
  /\ UNCHANGED <<batchVars, gate>>

GateNext ==
  \/ \E plan \in Plans, boundary \in Boundaries : BeginStudy(plan, boundary)
  \/ BeginCondition \/ HandLedger \/ RequireFresh
  \/ BatchNext /\ UNCHANGED <<gate, accepted>>
  \/ PublishArm
  \/ \E claim \in Claims : Summarize(claim)
  \/ GateRaises \/ CloseStudy
  \/ \E n \in 0 .. Len(journal) : AcceptGate(n)

\* The study and its GATE study, which reads the journal only.
GateSpec ==
  /\ Init /\ GateInit
  /\ [][\/ Next /\ UNCHANGED gateVars
        \/ GateNext /\ UNCHANGED vars]_<<vars, gateVars>>

-----------------------------------------------------------------------------
(* Properties                                                              *)

GateTypeOK ==
  /\ ledgers \in Seq([budget : Budgets, pending : Schedules \cup {Nobody, Other},
                      outcomes : Seq([owner : Schedules \cup {Other}, cell : Nat,
                                      seed : (Schedules \X Nat) \cup {Nobody},
                                      disposition : {"SETTLED", "BURNED", "POISONED"},
                                      charged : Nat])])
  /\ batch.ledger \in 0 .. Len(ledgers) /\ batch.schedule \in Schedules \cup {Nobody}
  /\ foreign \in 0 .. MaxForeign
  /\ gate.plan \in Plans /\ gate.boundary \in Boundaries \cup {Absent}
  /\ accepted \subseteq Seq(Events)

\* A study closure stands for calls that were made and paid for: every
\* condition and search run has a ledger of its own, whose first outcomes are
\* one settled call per cell under the batch's reservation, both sides of a
\* coordinate under one seed and different coordinates under different ones.
ClosureStandsForCalls ==
  GateAt("CLOSED") =>
    /\ DOMAIN gate.results = DOMAIN Kinds
    /\ \A k \in DOMAIN Kinds :
         /\ DOMAIN gate.results[k] = 1 .. Seeds
         /\ \A s \in 1 .. Seeds :
              LET result == gate.results[k][s]
                  outcomes == ledgers[result.ledger].outcomes
              IN  /\ result.schedule = [kind |-> Kinds[k], seed |-> s]
                  /\ \A j \in DOMAIN Kinds, t \in 1 .. Seeds :
                       gate.results[j][t].ledger = result.ledger => j = k /\ t = s
                  /\ \A cell, other \in Cells :
                       /\ outcomes[cell].owner = result.schedule
                       /\ outcomes[cell].disposition = "SETTLED"
                       /\ (outcomes[cell].seed = outcomes[other].seed)
                            = (Coordinate(cell) = Coordinate(other))

\* A report never shows less than what the calls of its condition charged.
ReportsShowCharges ==
  GateAt("CLOSED") => \A k \in DOMAIN Kinds :
    gate.reports[k].tokens >=
      FoldSeq(LAMBDA r, sum : sum + ChargedIn(ledgers[r.ledger].outcomes), 0, gate.results[k])

\* What a condition has spent in this execution, which may yet fail.
SpentOn(kind) ==
  FoldSeq(LAMBDA ledger, sum : sum + ChargedIn(SelectSeq(ledger.outcomes,
                  LAMBDA outcome : outcome.owner \in Schedules /\ outcome.owner.kind = kind)),
          0, SubSeq(ledgers, gate.since + 1, Len(ledgers)))

\* The frozen ceilings of an arm hold while the money is spent, and not only
\* in the report: no condition is charged more than its tokens, whatever is
\* burned on the way, unless a backend overran the ceiling it was given.
SpendingWithinPlan ==
  \A kind \in ToSet(Kinds) :
    \/ SpentOn(kind) <= gate.plan.tokens
    \/ \E l \in DOMAIN ledgers : Poisoned(l)

\* An acceptance stands behind a sealed authorization of the same study: its
\* tail authorized every cell of the plan, and every run registered there was
\* bound to the protocol, split and seed harness the gate study used.
AcceptedIsSealed ==
  \A chain \in accepted :
    /\ StateOf(chain) = "SEALED_AUTHORIZED"
    /\ {KeyOf[closure.search] : closure \in BoundIn(chain)} = Keys
    /\ \A closure \in BoundIn(chain) : BoundaryOf[closure.experiment] = gate.boundary
=============================================================================
