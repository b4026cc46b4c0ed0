----------------------------- MODULE RunProtocol -----------------------------
(* One public run.  Its frozen call schedule: two adaptive arms that differ  *)
(* only in the feedback their controllers see, two baselines, and a pool of  *)
(* bare samples, in one order that two barriers cut.  And its semantic       *)
(* transitions: both arms' candidates are frozen together once both          *)
(* proposals are done, and both selections together once every GATE call is. *)
(* An artifact stands for its own reference: references are content digests. *)
EXTENDS Integers, Sequences, FiniteSets

CONSTANTS
  FitTasks, GateTasks, HoldoutTasks,  \* the roster of each split, in order
  GateVariants,  \* the harness variants every GATE task is run with, in order
  Samples        \* bare samples drawn for each HOLDOUT task

ASSUME PlanAssumption ==
  /\ \A tasks \in {FitTasks, GateTasks, HoldoutTasks, GateVariants} :
       /\ Len(tasks) > 0
       /\ \A i, j \in DOMAIN tasks : tasks[i] = tasks[j] => i = j
  /\ Samples \in [DOMAIN HoldoutTasks -> Nat \ {0}]

Adaptive == {"SCORE", "FULL"}
Controllers == {"DIAGNOSIS", "PROPOSAL"}

\* A call's identity is its coordinates, with its place among the arm's calls of
\* its kind.  The controllers' calls are about no single task.
NoTask == "aggregate"
CallId(arm, kind, place, task, variant) == <<arm, kind, place, task, variant>>
Ids(calls) == {calls[i].id : i \in DOMAIN calls}

Slot(arm, kind, place, task, variant, dependsOn) ==
  [id |-> CallId(arm, kind, place, task, variant), arm |-> arm, kind |-> kind, task |-> task,
   variant |-> variant, dependsOn |-> dependsOn,
   feedback |-> IF kind \notin Controllers THEN "NONE"
                ELSE IF arm = "SCORE" THEN "SCORE_ONLY" ELSE "SAFE_FULL"]

PerTask(tasks, arm, kind, variant, dependsOn) ==
  [k \in DOMAIN tasks |-> Slot(arm, kind, k, tasks[k], variant, dependsOn)]

-----------------------------------------------------------------------------
(* The arms                                                                *)

ParentFit == [arm \in Adaptive |-> PerTask(FitTasks, arm, "PARENT_FIT", "parent", {})]
Diagnosis ==
  [arm \in Adaptive |->
     <<Slot(arm, "DIAGNOSIS", 1, NoTask, "diagnostic-controller", Ids(ParentFit[arm]))>>]
Proposal ==
  [arm \in Adaptive |->
     <<Slot(arm, "PROPOSAL", 1, NoTask, "proposal-controller", Ids(Diagnosis[arm]))>>]
BothProposals == UNION {Ids(Proposal[arm]) : arm \in Adaptive}
CandidateFit ==
  [arm \in Adaptive |-> PerTask(FitTasks, arm, "CANDIDATE_FIT", "candidate", BothProposals)]

\* Every GATE task with every variant, task by task.
Gate ==
  LET variants == Len(GateVariants) IN
  [arm \in Adaptive |->
     [k \in 1 .. Len(GateTasks) * variants |->
        Slot(arm, "GATE", k, GateTasks[((k - 1) \div variants) + 1],
             GateVariants[((k - 1) % variants) + 1], Ids(CandidateFit[arm]))]]
BothGates == UNION {Ids(Gate[arm]) : arm \in Adaptive}

\* The arms of HOLDOUT with their variants, arm by arm.
HoldoutArms ==
  <<<<"PURE", "bare">>, <<"STATIC", "static-frozen">>,
    <<"SCORE", "selected-or-parent-fallback">>, <<"FULL", "selected-or-parent-fallback">>>>
Holdout(dependsOn) ==
  LET tasks == Len(HoldoutTasks)
      entry(k) == HoldoutArms[((k - 1) \div tasks) + 1]
      place(k) == ((k - 1) % tasks) + 1
  IN [k \in 1 .. Len(HoldoutArms) * tasks |->
        Slot(entry(k)[1], "HOLDOUT", place(k), HoldoutTasks[place(k)], entry(k)[2], dependsOn)]

SamplePairs == UNION {{t} \X (1 .. Samples[t]) : t \in DOMAIN HoldoutTasks}
Precedes(p, q) == p[1] < q[1] \/ (p[1] = q[1] /\ p[2] < q[2])
PureAtB(dependsOn) ==
  LET at(p) == Cardinality({q \in SamplePairs : Precedes(q, p)}) + 1
      pair(k) == CHOOSE p \in SamplePairs : at(p) = k
  IN [k \in 1 .. Cardinality(SamplePairs) |->
        Slot("PURE_AT_B", "PURE_AT_B", k, HoldoutTasks[pair(k)[1]], "bare-sample", dependsOn)]

-----------------------------------------------------------------------------
(* The schedule                                                            *)

Both(block) == block["SCORE"] \o block["FULL"]
BeforeCandidates == Both(ParentFit) \o Both(Diagnosis) \o Both(Proposal)
BeforeSelections == BeforeCandidates \o Both(CandidateFit) \o Both(Gate)
Evaluation(dependsOn) == Holdout(dependsOn) \o PureAtB(dependsOn)
Plan == BeforeSelections \o Evaluation(BothGates)

Slots == DOMAIN Plan
CandidateBarrier == Len(BeforeCandidates)
SelectionBarrier == Len(BeforeSelections)

ArmCalls(arm) == SelectSeq(Plan, LAMBDA slot : slot.arm = arm)

\* Calls are unique, and each follows the calls it depends on.
CallsOrdered ==
  LET ordered(calls) ==
        /\ Cardinality(Ids(calls)) = Len(calls)
        /\ \A i \in DOMAIN calls : calls[i].dependsOn \subseteq {calls[j].id : j \in 1 .. i - 1}
  IN ordered(Plan)

\* The baselines and the bare samples see exactly the HOLDOUT tasks, as selected arms do.
HoldoutCovered ==
  \A arm \in {"PURE", "STATIC", "SCORE", "FULL", "PURE_AT_B"} :
    {ArmCalls(arm)[k].task : k \in {k \in DOMAIN ArmCalls(arm) :
        ArmCalls(arm)[k].kind \in {"HOLDOUT", "PURE_AT_B"}}}
      = {HoldoutTasks[k] : k \in DOMAIN HoldoutTasks}

\* HOLDOUT tasks appear behind the selections only, candidate calls behind the candidates.
BarriersHold ==
  \A i \in Slots :
    /\ (Plan[i].task \in {HoldoutTasks[k] : k \in DOMAIN HoldoutTasks}) <=> i > SelectionBarrier
    /\ Plan[i].kind = "CANDIDATE_FIT" => i > CandidateBarrier

\* Only the adaptive controllers receive feedback, each its arm's view.
ControllersFed ==
  \A i \in Slots :
    /\ (Plan[i].feedback = "NONE") <=> (Plan[i].kind \notin Controllers)
    /\ Plan[i].kind \in Controllers => Plan[i].arm \in Adaptive

\* Both adaptive arms do the same work under the same dependencies.
ArmsPaired ==
  LET work(arm) == [k \in DOMAIN ArmCalls(arm) |->
                      LET slot == ArmCalls(arm)[k] IN
                      <<slot.kind, slot.task, slot.variant, {Tail(id) : id \in slot.dependsOn}>>]
  IN work("SCORE") = work("FULL")

\* What every plan is validated for.
PlanCloses == CallsOrdered /\ HoldoutCovered /\ BarriersHold /\ ControllersFed /\ ArmsPaired

-----------------------------------------------------------------------------
(* Transitions                                                             *)

CONSTANTS
  Harnesses,  \* harness artifacts a call can execute
  None        \* an absent reference

SlotsOf(kinds, arms) == {i \in Slots : Plan[i].kind \in kinds /\ Plan[i].arm \in arms}

ProposalSlot(arm) == CHOOSE i \in SlotsOf({"PROPOSAL"}, {arm}) : TRUE
GateCalls(done, arm) ==
  SelectSeq(done, LAMBDA c : Plan[c.call.slot].kind = "GATE" /\ Plan[c.call.slot].arm = arm)

-----------------------------------------------------------------------------
(* Artifacts                                                               *)

\* A proposal that cannot be admitted falls back to its exact parent.
Effective(c) == IF c.valid THEN c.candidate ELSE c.parent
CandidateCloses(c) ==
  IF c.valid THEN c.candidate \in Harnesses \ {c.parent} ELSE c.candidate = None

FreezeCloses(f) ==
  /\ \A arm \in Adaptive : CandidateCloses(f[arm])
  /\ f["SCORE"].parent = f["FULL"].parent
  /\ f["SCORE"].proposal # f["FULL"].proposal

\* What the grader must have been told before it grades a HOLDOUT prediction.
Unlock(selection) == <<selection["SCORE"], selection["FULL"]>>

\* The empty run, and what every recorded state satisfies.
Opened ==
  [done |-> <<>>, call |-> None, freeze |-> None, selection |-> None, closed |-> FALSE]

StateCloses(s) ==
  LET n == Len(s.done) IN
  /\ Cardinality({s.done[i] : i \in 1 .. n}) = n
  /\ s.call # None => n < Len(Plan)
  /\ s.freeze # None => n >= CandidateBarrier
  /\ n > CandidateBarrier => s.freeze # None
  /\ s.selection # None => n >= SelectionBarrier
  /\ n > SelectionBarrier => s.selection # None
  /\ s.closed => n = Len(Plan) /\ s.call = None /\ s.selection # None

-----------------------------------------------------------------------------
(* Calls                                                                   *)

NextSlot(s) == Len(s.done) + 1

\* The harness (None: any), the variant and the fallback flag a slot executes.
ExpectedExecution(s, slot) ==
  LET c == s.freeze[slot.arm]
      parent(h) == [harness |-> h, variant |-> "parent", fallback |-> FALSE]
      candidate == [harness |-> Effective(c), fallback |-> ~c.valid,
                    variant |-> IF c.valid THEN "candidate" ELSE "parent"]
      bare == IF slot.kind = "PURE_AT_B" THEN "bare" ELSE slot.variant
  IN CASE slot.arm \notin Adaptive \/ slot.kind \in Controllers ->
            [harness |-> None, variant |-> bare, fallback |-> FALSE]
       [] slot.kind = "PARENT_FIT" -> parent(None)
       [] slot.kind = "CANDIDATE_FIT" -> candidate
       [] slot.kind = "GATE" ->
            IF slot.variant = "candidate" THEN candidate ELSE parent(c.parent)
       [] slot.kind = "HOLDOUT" ->
            LET chosen == s.selection[slot.arm]
            IN [harness |-> chosen.harness, variant |-> chosen.variant,
                fallback |-> chosen.variant = "parent"]

BoundTo(s, reference, barrier) == IF Len(s.done) >= barrier THEN reference ELSE None

\* The call about to be materialized is the next slot, under the barriers'
\* artifacts, executing the harness the policy names.
MaterializationVerifies(s, m) ==
  /\ ~s.closed /\ s.call = None /\ Len(s.done) < Len(Plan)
  /\ m.slot = NextSlot(s)
  /\ m.freeze = BoundTo(s, s.freeze, CandidateBarrier)
  /\ m.selection = BoundTo(s, s.selection, SelectionBarrier)
  /\ Plan[m.slot].kind = "CANDIDATE_FIT" => m.freeze # None
  /\ m.slot > SelectionBarrier => m.selection # None
  /\ LET expected == ExpectedExecution(s, Plan[m.slot]) IN
       /\ expected.harness # None => m.harness = expected.harness
       /\ m.variant = expected.variant /\ m.fallback = expected.fallback
  /\ m.harness \in Harnesses

GradableSlot(slot) == slot.kind \notin Controllers \cup {"PURE_AT_B"}

\* A receipt is for the materialized slot and execution, and a HOLDOUT receipt
\* for the selection the call was materialized under.
GradeBinds(m, receipt) ==
  IF ~GradableSlot(Plan[m.slot]) THEN receipt = None
  ELSE /\ receipt # None
       /\ receipt.slot = m.slot
       /\ receipt.variant = m.variant /\ receipt.fallback = m.fallback
       /\ m.slot > SelectionBarrier => receipt.unlock = Unlock(m.selection)

CompletionVerifies(s, c) ==
  /\ s.call # None
  /\ c.call = s.call
  /\ c.call.slot = NextSlot(s)
  /\ GradeBinds(c.call, c.receipt)

-----------------------------------------------------------------------------
(* Barriers                                                                *)

\* Both proposals are done, each candidate binds its own, and its parent is the
\* harness every parent FIT call of the arm executed.
FreezeVerifies(s, f) ==
  /\ Len(s.done) = CandidateBarrier /\ s.call = None /\ s.freeze = None
  /\ FreezeCloses(f)
  /\ \A arm \in Adaptive :
       /\ f[arm].proposal = s.done[ProposalSlot(arm)]
       /\ {s.done[i].call.harness : i \in SlotsOf({"PARENT_FIT"}, {arm})} = {f[arm].parent}

\* An arm selects its candidate or its parent; an invalid candidate forces the
\* rollback to the parent.
ChoiceCloses(choice, c) ==
  IF choice.variant = "candidate"
  THEN c.valid /\ choice.harness = Effective(c) /\ ~choice.forced
  ELSE choice.variant = "parent" /\ choice.harness = c.parent /\ choice.forced = ~c.valid

\* All GATE calls are done and both selections bind exactly them.
SelectionVerifies(s, joint) ==
  /\ Len(s.done) = SelectionBarrier /\ s.call = None
  /\ s.selection = None /\ s.freeze # None
  /\ \A arm \in Adaptive :
       /\ joint[arm].freeze = s.freeze
       /\ joint[arm].gates = GateCalls(s.done, arm)
       /\ ChoiceCloses(joint[arm], s.freeze[arm])

CloseVerifies(s) ==
  Len(s.done) = Len(Plan) /\ s.call = None /\ s.selection # None /\ ~s.closed

-----------------------------------------------------------------------------
(* Events                                                                  *)

Actions ==
  {"OPEN", "MATERIALIZE", "COMPLETE", "FREEZE_CANDIDATES", "FREEZE_SELECTIONS", "CLOSE"}
Event(action, payload) == [action |-> action, payload |-> payload]

\* Whether an event may follow a state (None: no entry yet), and the state after.
Follows(s, e) ==
  IF s = None THEN e.action = "OPEN"
  ELSE /\ ~s.closed
       /\ \/ e.action = "MATERIALIZE" /\ MaterializationVerifies(s, e.payload)
          \/ e.action = "COMPLETE" /\ CompletionVerifies(s, e.payload)
          \/ e.action = "FREEZE_CANDIDATES" /\ FreezeVerifies(s, e.payload)
          \/ e.action = "FREEZE_SELECTIONS" /\ SelectionVerifies(s, e.payload)
          \/ e.action = "CLOSE" /\ CloseVerifies(s)

After(s, e) ==
  CASE e.action = "OPEN" -> Opened
    [] e.action = "MATERIALIZE" -> [s EXCEPT !.call = e.payload]
    [] e.action = "COMPLETE" -> [s EXCEPT !.call = None, !.done = Append(@, e.payload)]
    [] e.action = "FREEZE_CANDIDATES" -> [s EXCEPT !.freeze = e.payload]
    [] e.action = "FREEZE_SELECTIONS" -> [s EXCEPT !.selection = e.payload]
    [] e.action = "CLOSE" -> [s EXCEPT !.closed = TRUE]

Applies(s, e) == Follows(s, e) /\ StateCloses(After(s, e))
=============================================================================
