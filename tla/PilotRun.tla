------------------------------- MODULE PilotRun -------------------------------
(* One public run as its single-use runner drives it: for every slot of the    *)
(* plan the harness it chooses, the request it renders, the paid attempt and   *)
(* its account, the completion the journal is given; at the barriers the two   *)
(* joint freezes; at the end the result, and the offline reader's account of   *)
(* whether that result is one.  A run is a record of what the runner holds.    *)
(*                                                                             *)
(* First what it makes of its records: the joint promote-or-rollback rule      *)
(* over the FIT and GATE calls, the plurality of the bare samples, and the     *)
(* HOLDOUT cells and paired counts every arm is described by.  A record is a   *)
(* completed call with its attempt, its output and its grade.                  *)
EXTENDS RunProtocol, FiniteSetsExt

Succeeded(c) == c.attempt.status = "COMPLETED"
Accepted(c) == c.receipt # None /\ c.receipt.accepted
Grade(prediction) == prediction = "right"

SlotOf(c) == Plan[c.call.slot]
Records(done, arm, kinds) ==
  SelectSeq(done, LAMBDA c : SlotOf(c).arm = arm /\ SlotOf(c).kind \in kinds)

\* A candidate is admitted when the diagnosis and the proposal both parsed.
Admissible(done, arm) ==
  LET replies == Records(done, arm, Controllers)
  IN \A k \in DOMAIN replies : replies[k].output = "valid"

\* The proposal parsed into a candidate prompt, whatever became of the diagnosis.
Proposed(done, arm) ==
  \A k \in DOMAIN Records(done, arm, {"PROPOSAL"}) :
    Records(done, arm, {"PROPOSAL"})[k].output = "valid"
Undiagnosed(done, arm) == Proposed(done, arm) /\ ~Admissible(done, arm)

-----------------------------------------------------------------------------
(* Selection evidence                                                      *)

SelectionKinds == {"PARENT_FIT", "CANDIDATE_FIT", "GATE"}

Observation(c) ==
  [record |-> c, succeeded |-> Succeeded(c), imputed |-> ~Succeeded(c),
   prediction |-> c.output, accepted |-> Accepted(c)]

\* A failed attempt counts as an empty, incorrect prediction and as nothing else.
ObservationCloses(o) ==
  /\ o.record.receipt # None
  /\ o.succeeded = (o.record.outcome = "SUCCEEDED")
  /\ o.imputed = ~o.succeeded
  /\ ~o.succeeded => o.prediction = "empty" /\ ~o.accepted

ArmEvidence(done, freeze, arm) ==
  LET records == Records(done, arm, SelectionKinds)
  IN [freeze |-> freeze, admissible |-> Admissible(done, arm),
      proposed |-> Proposed(done, arm),
      observations |-> [k \in DOMAIN records |-> Observation(records[k])]]

\* The variant, fallback flag and candidate freeze a selection call must have run under.
EvidencedExecution(e, slot) ==
  CASE slot.kind = "PARENT_FIT" -> <<"parent", FALSE, None>>
    [] slot.kind = "CANDIDATE_FIT" \/ slot.variant = "candidate" ->
         <<IF e.admissible THEN "candidate" ELSE "parent", ~e.admissible, e.freeze>>
    [] OTHER -> <<"parent", FALSE, e.freeze>>

ArmEvidenceCloses(e, arm) ==
  LET os == e.observations
      call(k) == os[k].record.call
  IN /\ [k \in DOMAIN os |-> call(k).slot]
          = SelectSeq([i \in Slots |-> i], LAMBDA i : i \in SlotsOf(SelectionKinds, {arm}))
     /\ \A k \in DOMAIN os :
          /\ ObservationCloses(os[k])
          /\ <<call(k).variant, call(k).fallback, call(k).freeze>>
               = EvidencedExecution(e, Plan[call(k).slot])
          /\ call(k).selection = None

Evidence(done, freeze) == [arm \in Adaptive |-> ArmEvidence(done, freeze, arm)]
EvidenceCloses(evidence) ==
  /\ \A arm \in Adaptive : ArmEvidenceCloses(evidence[arm], arm)
  /\ evidence["SCORE"].freeze = evidence["FULL"].freeze

-----------------------------------------------------------------------------
(* The rule                                                                *)

Of(e, kind, variants) ==
  {k \in DOMAIN e.observations :
     LET slot == SlotOf(e.observations[k].record)
     IN slot.kind = kind /\ slot.variant \in variants}
Correct(e, kind, variant) ==
  Cardinality({k \in Of(e, kind, {variant}) : e.observations[k].accepted})

\* The parent, the reverted and the placebo harness are one program under three
\* names: on every GATE task they must succeed and agree in prediction and grade.
ShadowControls == {"parent", "revert", "placebo"}

\* Mutant: controls that agree in grade only.
ControlsGradeAlike(e) ==
  \A task \in {GateTasks[g] : g \in DOMAIN GateTasks} :
    LET controls == {e.observations[k] : k \in
          {k \in Of(e, "GATE", ShadowControls) : SlotOf(e.observations[k].record).task = task}}
    IN /\ \A o \in controls : o.succeeded
       /\ Cardinality({o.accepted : o \in controls}) = 1

ControlsExact(e) ==
  \A task \in {GateTasks[g] : g \in DOMAIN GateTasks} :
    LET controls == {e.observations[k] : k \in
          {k \in Of(e, "GATE", ShadowControls) : SlotOf(e.observations[k].record).task = task}}
    IN /\ \A o \in controls : o.succeeded
       /\ Cardinality({o.prediction : o \in controls}) = 1
       /\ Cardinality({o.accepted : o \in controls}) = 1

Reasons(e) ==
  {reason \in {"CANDIDATE_INVALID", "PROVIDER_ATTEMPT_FAILURE", "SHADOW_CONTROL_MISMATCH",
               "CANDIDATE_FIT_REGRESSION", "CANDIDATE_GATE_NOT_STRICTLY_BETTER"} :
     CASE reason = "CANDIDATE_INVALID" -> ~e.admissible
       [] reason = "PROVIDER_ATTEMPT_FAILURE" ->
            \E k \in DOMAIN e.observations : ~e.observations[k].succeeded
       [] reason = "SHADOW_CONTROL_MISMATCH" -> ~ControlsExact(e)
       [] reason = "CANDIDATE_FIT_REGRESSION" ->
            Correct(e, "CANDIDATE_FIT", "candidate") < Correct(e, "PARENT_FIT", "parent")
       [] reason = "CANDIDATE_GATE_NOT_STRICTLY_BETTER" ->
            Correct(e, "GATE", "candidate") <= Correct(e, "GATE", "parent")}

ArmDecision(e) ==
  [promote |-> Reasons(e) = {}, forced |-> ~e.admissible, reasons |-> Reasons(e),
   proposed |-> e.proposed]

\* A decision names a candidate prompt exactly when the candidate is admissible:
\* the prompt of a proposal without a valid diagnosis is refused.
DecisionCloses(d) ==
  /\ d.promote = (d.reasons = {}) /\ d.forced = ("CANDIDATE_INVALID" \in d.reasons)
  /\ d.forced # d.proposed

Decide(evidence) == [arm \in Adaptive |-> ArmDecision(evidence[arm])]

\* What the journal is asked to freeze for an arm.
ArmSelection(done, freeze, arm, d) ==
  [freeze |-> freeze, gates |-> GateCalls(done, arm),
   variant |-> IF d.promote THEN "candidate" ELSE "parent",
   harness |-> IF d.promote THEN freeze[arm].candidate ELSE freeze[arm].parent,
   forced |-> ~Admissible(done, arm)]

-----------------------------------------------------------------------------
(* HOLDOUT                                                                 *)

MetricArms == {"PURE", "STATIC", "SCORE", "FULL", "PURE_AT_B"}
Contrasts ==
  {<<"STATIC", "PURE">>, <<"SCORE", "PURE">>, <<"FULL", "PURE">>, <<"PURE_AT_B", "PURE">>,
   <<"SCORE", "STATIC">>, <<"FULL", "STATIC">>, <<"FULL", "SCORE">>, <<"FULL", "PURE_AT_B">>}

Group(done, arm, task) ==
  SelectSeq(done, LAMBDA c : SlotOf(c).arm = arm /\ SlotOf(c).task = task)

\* The first sample among those whose output most samples gave; failed samples abstain.
Plurality(labels) ==
  LET votes(x) == Cardinality({k \in DOMAIN labels : labels[k] = x})
      voters == {k \in DOMAIN labels : labels[k] # None}
      winners == {k \in voters : \A j \in voters : votes(labels[j]) <= votes(labels[k])}
  IN IF voters = {} THEN 1 ELSE CHOOSE k \in winners : \A j \in winners : k <= j

SampledCell(group) ==
  LET chosen == group[Plurality([k \in DOMAIN group |-> group[k].output])].output
      prediction == IF chosen = None THEN "empty" ELSE chosen
  IN [sources |-> group, imputed |-> \A k \in DOMAIN group : ~Succeeded(group[k]),
      prediction |-> prediction, accepted |-> Grade(prediction)]

SingleCell(c) ==
  [sources |-> <<c>>, imputed |-> ~Succeeded(c), prediction |-> c.output,
   accepted |-> Accepted(c)]

Holdouts(done) ==
  [arm \in MetricArms |-> [t \in DOMAIN HoldoutTasks |->
     LET group == Group(done, arm, HoldoutTasks[t])
     IN IF arm = "PURE_AT_B" THEN SampledCell(group) ELSE SingleCell(group[1])]]

CellCloses(cell, sampled) ==
  LET failed == {k \in DOMAIN cell.sources : ~Succeeded(cell.sources[k])}
  IN /\ failed = DOMAIN cell.sources => cell.imputed
     /\ cell.imputed => failed # {} /\ cell.prediction = "empty" /\ ~cell.accepted
     /\ ~sampled => Len(cell.sources) = 1

\* Every call behind the selections is the source of exactly one cell.
HoldoutsClose(cells) ==
  /\ \A arm \in MetricArms : \A t \in DOMAIN HoldoutTasks :
       CellCloses(cells[arm][t], arm = "PURE_AT_B")
  /\ \A i \in SelectionBarrier + 1 .. Len(Plan) :
       Cardinality({p \in MetricArms \X (DOMAIN HoldoutTasks) \X (1 .. Len(Plan)) :
         LET sources == cells[p[1]][p[2]].sources
         IN p[3] \in DOMAIN sources /\ sources[p[3]].call.slot = i}) = 1

Paired(correct, contrast) ==
  LET beats(a, b) == Cardinality({t \in DOMAIN HoldoutTasks : correct[a][t] /\ ~correct[b][t]})
      wins == beats(contrast[1], contrast[2])
      losses == beats(contrast[2], contrast[1])
  IN [wins |-> wins, losses |-> losses, ties |-> Len(HoldoutTasks) - wins - losses]

Metrics(cells) ==
  LET correct == [arm \in MetricArms |-> [t \in DOMAIN HoldoutTasks |-> cells[arm][t].accepted]]
  IN [correct |-> correct, paired |-> [contrast \in Contrasts |-> Paired(correct, contrast)]]

-----------------------------------------------------------------------------
(* The runner                                                              *)

CONSTANT Ceiling  \* tokens reserved for every call

Prompts == {"prompt"}
FixedHarnesses == {"parent", "bare", "static"}
CandidateHarness == [SCORE |-> "score-candidate", FULL |-> "full-candidate"]

ASSUME PilotRunAssumption ==
  /\ Ceiling \in Nat \ {0}
  /\ Prompts \cup FixedHarnesses \cup {CandidateHarness[arm] : arm \in Adaptive} \subseteq Harnesses

\* The whole token budget: every call of the plan fully burned.
Budget == Len(Plan) * Ceiling

NewAccount == [attempts |-> 0, charged |-> 0, poisoned |-> FALSE]
Started == [state |-> Opened, account |-> NewAccount, decisions |-> None]

-----------------------------------------------------------------------------
(* Preparing a call                                                        *)

Executing(harness, variant) == [harness |-> harness, variant |-> variant, fallback |-> FALSE]
ExactParent == [harness |-> "parent", variant |-> "parent", fallback |-> TRUE]

Evaluates(slot) ==
  slot.kind = "CANDIDATE_FIT" \/ (slot.kind = "GATE" /\ slot.variant = "candidate")

\* Mutant: the candidate is run although its proposal was not admitted.
SolverHarnessUnadmitted(run, slot) ==
  LET candidate == Executing(CandidateHarness[slot.arm], "candidate") IN
  CASE slot.arm \in {"PURE", "PURE_AT_B"} -> Executing("bare", "bare")
    [] slot.arm = "STATIC" -> Executing("static", "static-frozen")
    [] slot.kind \in Controllers -> Executing("prompt", slot.variant)
    [] slot.kind = "PARENT_FIT" -> Executing("parent", "parent")
    [] slot.kind = "HOLDOUT" /\ slot.arm \in Adaptive ->
         IF run.decisions[slot.arm].promote THEN candidate ELSE ExactParent
    [] Evaluates(slot) -> candidate
    [] slot.kind = "GATE" /\ ~Evaluates(slot) -> Executing("parent", "parent")

\* The harness of a slot: an adaptive arm's candidate, or the exact parent for a
\* candidate that was not admitted and for a HOLDOUT that was not earned.
SolverHarness(run, slot) ==
  LET candidate == Executing(CandidateHarness[slot.arm], "candidate") IN
  CASE slot.arm \in {"PURE", "PURE_AT_B"} -> Executing("bare", "bare")
    [] slot.arm = "STATIC" -> Executing("static", "static-frozen")
    [] slot.kind \in Controllers -> Executing("prompt", slot.variant)
    [] slot.kind = "PARENT_FIT" -> Executing("parent", "parent")
    [] slot.kind = "HOLDOUT" /\ slot.arm \in Adaptive ->
         IF run.decisions[slot.arm].promote THEN candidate ELSE ExactParent
    [] Evaluates(slot) ->
         IF Admissible(run.state.done, slot.arm) THEN candidate ELSE ExactParent
    [] slot.kind = "GATE" /\ ~Evaluates(slot) -> Executing("parent", "parent")

\* What a controller is told: SCORE's diagnosis how many parent FIT calls were
\* right, FULL's also each prediction and grade, a proposal its arm's diagnosis.
Request(done, slot, harness) ==
  LET fit == Records(done, slot.arm, {"PARENT_FIT"})
      diagnosis == Records(done, slot.arm, {"DIAGNOSIS"})
      silent == [harness |-> harness, task |-> slot.task, accepted |-> 0, seen |-> <<>>,
                 diagnosis |-> None]
  IN CASE slot.kind = "DIAGNOSIS" ->
            [silent EXCEPT
               !.accepted = Cardinality({k \in DOMAIN fit : Accepted(fit[k])}),
               !.seen = IF slot.feedback = "SAFE_FULL"
                        THEN [k \in DOMAIN fit |-> <<fit[k].output, Accepted(fit[k])>>]
                        ELSE <<>>]
       [] slot.kind = "PROPOSAL" -> [silent EXCEPT !.diagnosis = diagnosis[1].output]
       [] slot.kind \notin Controllers -> silent

Materialization(run) ==
  LET s == run.state
      slot == Plan[NextSlot(s)]
      execution == SolverHarness(run, slot)
  IN [slot |-> NextSlot(s), request |-> Request(s.done, slot, execution.harness),
      harness |-> execution.harness, variant |-> execution.variant,
      fallback |-> execution.fallback,
      freeze |-> BoundTo(s, s.freeze, CandidateBarrier),
      selection |-> BoundTo(s, s.selection, SelectionBarrier)]

-----------------------------------------------------------------------------
(* The paid attempt                                                        *)

CanReserve(account) ==
  /\ ~account.poisoned
  /\ account.attempts < Len(Plan)
  /\ account.charged + Ceiling <= Budget

\* A provider that raised or answered nothing usable, a backend that was no longer
\* the registered one when the answer arrived, and an answer over the ceiling fail
\* the attempt: it is paid in full, or at what was reported if that is more, and
\* an attempt over the ceiling poisons the account.
Attempt(account, m, answer, usage, drifted) ==
  LET completed == answer # "failure" /\ ~drifted /\ usage <= Ceiling
      disposition == IF completed THEN "SETTLED"
                     ELSE IF usage > Ceiling THEN "POISONED" ELSE "BURNED"
  IN [sequence |-> account.attempts, request |-> m.request,
      status |-> IF completed THEN "COMPLETED" ELSE "FAILED", disposition |-> disposition,
      charged |-> IF disposition = "BURNED" THEN Ceiling ELSE usage]

Charged(account, attempt) ==
  [attempts |-> account.attempts + 1, charged |-> account.charged + attempt.charged,
   poisoned |-> attempt.disposition = "POISONED"]

\* What the runner keeps of an answer: a failed attempt is an invalid reply, an
\* absent sample, an empty prediction, whatever the provider sent.
Output(slot, attempt, answer) ==
  IF attempt.status = "COMPLETED" THEN answer
  ELSE CASE slot.kind \in Controllers -> "invalid"
         [] slot.kind = "PURE_AT_B" -> None
         [] GradableSlot(slot) -> "empty"

Receipt(s, m, output) ==
  IF ~GradableSlot(Plan[m.slot]) THEN None
  ELSE [slot |-> m.slot, variant |-> m.variant, fallback |-> m.fallback,
        unlock |-> IF m.slot > SelectionBarrier THEN Unlock(s.selection) ELSE None,
        accepted |-> Grade(output)]

Completion(s, m, attempt, answer) ==
  LET output == Output(Plan[m.slot], attempt, answer)
  IN [call |-> m, attempt |-> attempt, output |-> output, receipt |-> Receipt(s, m, output),
      outcome |-> IF attempt.status = "COMPLETED" THEN "SUCCEEDED" ELSE "PROVIDER_FAILURE"]

-----------------------------------------------------------------------------
(* One slot, and the barriers                                              *)

\* The journal takes an event, or refuses it and the run is over.
Recorded(run, e) ==
  IF Applies(run.state, e) THEN [run EXCEPT !.state = After(@, e)] ELSE None

AtSlot(run) == run.state.call = None /\ Len(run.state.done) < Len(Plan)
AtFreeze(run) == Len(run.state.done) = CandidateBarrier /\ run.state.freeze = None
AtSelections(run) == Len(run.state.done) = SelectionBarrier /\ run.state.selection = None

\* The run with its next call materialized, or None.
Called(run) == Recorded(run, Event("MATERIALIZE", Materialization(run)))

\* The run after a slot, or None when the journal refuses its completion.
AfterCall(called, answer, usage, drifted) ==
  LET s == called.state
      charge(run, attempt) == IF run = None THEN None ELSE [run EXCEPT !.account = Charged(@, attempt)]
      record(attempt) ==
        charge(Recorded(called, Event("COMPLETE", Completion(s, s.call, attempt, answer))), attempt)
  IN record(Attempt(called.account, s.call, answer, usage, drifted))

ArmFreeze(done, arm) ==
  LET freeze(admitted) ==
        [candidate |-> IF admitted THEN CandidateHarness[arm] ELSE None, valid |-> admitted,
         parent |-> "parent", proposal |-> done[ProposalSlot(arm)]]
  IN freeze(Admissible(done, arm))

AfterFreeze(run) ==
  Recorded(run, Event("FREEZE_CANDIDATES", [arm \in Adaptive |-> ArmFreeze(run.state.done, arm)]))

\* Evidence, decisions and selections of both arms at once.
Selected(run, decisions) ==
  LET s == run.state
      decide(next) == IF next = None THEN None ELSE [next EXCEPT !.decisions = decisions]
  IN decide(Recorded(run, Event("FREEZE_SELECTIONS",
              [arm \in Adaptive |-> ArmSelection(s.done, s.freeze, arm, decisions[arm])])))

AfterSelections(run) ==
  LET settle(decisions) ==
        IF \A arm \in Adaptive : DecisionCloses(decisions[arm]) THEN Selected(run, decisions) ELSE None
      weigh(evidence) == IF EvidenceCloses(evidence) THEN settle(Decide(evidence)) ELSE None
  IN weigh(Evidence(run.state.done, run.state.freeze))

-----------------------------------------------------------------------------
(* The result                                                              *)

Successes(done) == Cardinality({k \in DOMAIN done : Succeeded(done[k])})

Result(run, holdout) ==
  LET done == run.state.done
  IN [closure |-> After(run.state, Event("CLOSE", None)),
      evidence |-> Evidence(done, run.state.freeze),
      decisions |-> run.decisions, holdout |-> holdout, metrics |-> Metrics(holdout),
      succeeded |-> Successes(done), failed |-> Len(Plan) - Successes(done)]

\* The result of a finished run, or None when something does not close.
Finished(run) ==
  LET finish(holdout) ==
        IF /\ HoldoutsClose(holdout)
           /\ Applies(run.state, Event("CLOSE", None))
           /\ run.account.attempts = Len(Plan)
        THEN Result(run, holdout) ELSE None
  IN finish(Holdouts(run.state.done))

\* The offline reader: every attempt in its place and for its request, every
\* outcome what its execution says, the charges within the budget.
CallVerifies(done, k) ==
  LET c == done[k]
  IN /\ c.call.slot = k
     /\ c.attempt.sequence = k - 1
     /\ c.attempt.request = c.call.request
     /\ c.call.request = Request(SubSeq(done, 1, k - 1), Plan[k], c.call.harness)
     /\ (c.outcome = "SUCCEEDED") = Succeeded(c)
     /\ Succeeded(c) = (c.attempt.disposition = "SETTLED")
     /\ Plan[k].kind \in Controllers /\ ~Succeeded(c) => c.output = "invalid"

TotalCharged(done) ==
  LET upTo[k \in 0 .. Len(done)] ==
        IF k = 0 THEN 0 ELSE upTo[k - 1] + done[k].attempt.charged
  IN upTo[Len(done)]

\* Selections and HOLDOUT summaries are rebuilt from the calls, and each freeze
\* from the replies it stands for.
LineageVerifies(result) ==
  LET s == result.closure IN
  /\ \A arm \in Adaptive : s.freeze[arm] = ArmFreeze(s.done, arm)
  /\ result.evidence = Evidence(s.done, s.freeze)
  /\ EvidenceCloses(result.evidence)
  /\ result.decisions = Decide(result.evidence)
  /\ result.holdout = Holdouts(s.done) /\ HoldoutsClose(result.holdout)
  /\ result.metrics = Metrics(result.holdout)

RunVerifies(result) ==
  LET done == result.closure.done IN
  /\ result.closure.closed
  /\ \A k \in DOMAIN done : CallVerifies(done, k)
  /\ TotalCharged(done) <= Budget
  /\ result.succeeded = Successes(done) /\ result.failed = Len(Plan) - result.succeeded
  /\ LineageVerifies(result)
=============================================================================
