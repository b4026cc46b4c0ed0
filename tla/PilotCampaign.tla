---------------------------- MODULE PilotCampaign ----------------------------
(* The public campaign: its replicates run one after another over one backend, *)
(* each verified offline and checkpointed before the next, and a terminal      *)
(* artifact that is either complete with the analysis or says where it         *)
(* stopped.  A provider failure consumes its slot; a storage fault, a backend  *)
(* that is no longer the registered one and an overrun account stop it.        *)
EXTENDS PilotRun

CONSTANTS
  Replicates,    \* the registered replicates, 0 .. Replicates - 1
  Usages,        \* tokens an answer may report
  MaxSurprises,  \* bound: ways in which answers differ from the default ones
  MaxFaults      \* bound: writes that fail

ASSUME PilotCampaignAssumption ==
  /\ Replicates \in Nat \ {0}
  /\ Ceiling \in Usages /\ Usages \subseteq Nat
  /\ MaxSurprises \in Nat /\ MaxFaults \in Nat

-----------------------------------------------------------------------------
(* What a campaign of runs is summarised to: per arm and HOLDOUT task the     *)
(* outcomes of every replicate, how often each adaptive arm promoted, and the *)
(* paired counts of every contrast.  Counts only, and no model call.          *)

Ordinals == 1 .. Replicates
Tasks == DOMAIN HoldoutTasks
CellCount == Replicates * Len(HoldoutTasks)

\* What of a verified run the analysis reads.
AnalysisInput(bindings) ==
  [k \in DOMAIN bindings |->
     [ordinal |-> bindings[k].ordinal, decisions |-> bindings[k].decisions,
      metrics |-> bindings[k].metrics]]

\* Every registered replicate, once and in order.
InputCloses(input) ==
  DOMAIN input = Ordinals /\ \A k \in Ordinals : input[k].ordinal = k - 1

\* Whether each replicate got a task right in an arm.
Cluster(input, arm, t) == [k \in Ordinals |-> input[k].metrics.correct[arm][t]]
Hits(vector) == Cardinality({k \in DOMAIN vector : vector[k]})

ArmAggregate(input, arm) ==
  [clusters |-> [t \in Tasks |-> Cluster(input, arm, t)],
   correct |-> MapThenSumSet(LAMBDA t : Hits(Cluster(input, arm, t)), Tasks)]

PromotionAggregate(input, arm) ==
  LET promoted == Hits([k \in Ordinals |-> input[k].decisions[arm].promote])
  IN [promoted |-> promoted, rolledBack |-> Replicates - promoted]

\* Replicate by replicate, the treatment against the reference on one task.
PairedCluster(input, contrast, t) ==
  LET beats(a, b) == Hits([k \in Ordinals |-> Cluster(input, a, t)[k] /\ ~Cluster(input, b, t)[k]])
      wins == beats(contrast[1], contrast[2])
      losses == beats(contrast[2], contrast[1])
  IN [wins |-> wins, losses |-> losses, ties |-> Replicates - wins - losses]

PairedAggregate(input, contrast) ==
  LET wins == MapThenSumSet(LAMBDA t : PairedCluster(input, contrast, t).wins, Tasks)
      losses == MapThenSumSet(LAMBDA t : PairedCluster(input, contrast, t).losses, Tasks)
      ties == MapThenSumSet(LAMBDA t : PairedCluster(input, contrast, t).ties, Tasks)
  IN [wins |-> wins, losses |-> losses, ties |-> ties,
      \* strictly more than a tenth of the cells
      exceeds |-> (wins - losses) * 10 > CellCount]

Analysis(input) ==
  [arms |-> [arm \in MetricArms |-> ArmAggregate(input, arm)],
   promotions |-> [arm \in Adaptive |-> PromotionAggregate(input, arm)],
   paired |-> [contrast \in Contrasts |-> PairedAggregate(input, contrast)]]

\* The counts cover every cell of every contrast.
AnalysisCloses(analysis) ==
  \A contrast \in Contrasts :
    LET p == analysis.paired[contrast] IN p.wins + p.ties + p.losses = CellCount

-----------------------------------------------------------------------------
VARIABLES
  phase,        \* where the executor is
  run,          \* the replicate being run (None: none)
  result,       \* its result, not yet verified (None: none)
  completed,    \* the verified replicates
  checkpoints,  \* the published checkpoints
  analysis,     \* the derived input, its published copy, the computed analysis
  terminal,     \* the terminal artifact being published (None: none)
  backend,      \* "frozen", or "drifted" for good
  surprises, faults,  \* spent of the bounds
  trouble       \* what went wrong outside the providers' answers, and "undiagnosed":
                \* an arm's proposal parsed and its diagnosis did not

vars == <<phase, run, result, completed, checkpoints, analysis, terminal, backend,
          surprises, faults, trouble>>

environment == <<backend, surprises, faults, trouble>>

NoAnalysis == [input |-> None, inputRef |-> None, output |-> None]

Init ==
  /\ phase = "REGISTERING"
  /\ run = None /\ result = None /\ terminal = None
  /\ completed = <<>> /\ checkpoints = <<>>
  /\ analysis = NoAnalysis
  /\ backend = "frozen"
  /\ surprises = 0 /\ faults = 0 /\ trouble = {}

-----------------------------------------------------------------------------
(* Terminal artifacts                                                      *)

Failure(stage, active, unverified) ==
  [stage |-> stage, completed |-> Len(completed), active |-> active, unverified |-> unverified]

FailureCloses(f) ==
  /\ IF f.stage = "CAMPAIGN_ANALYSIS" THEN f.active = None /\ f.completed = Replicates
     ELSE f.completed = f.active + (IF f.stage = "REPLICATE_CHECKPOINT" THEN 1 ELSE 0)
  /\ f.unverified => f.stage = "REPLICATE_VERIFICATION"

Terminal(status, failure, a) ==
  [status |-> status, completed |-> completed, checkpoints |-> checkpoints,
   analysis |-> a, failure |-> failure]

TerminalCloses(t) ==
  LET n == Len(t.completed) IN
  /\ \A k \in 1 .. n : t.completed[k].ordinal = k - 1
  /\ Cardinality({t.checkpoints[k] : k \in DOMAIN t.checkpoints}) = Len(t.checkpoints)
  /\ (t.analysis.input = None) = (t.analysis.inputRef = None)
  /\ IF t.status = "COMPLETE"
     THEN /\ n = Replicates /\ Len(t.checkpoints) = Replicates
          /\ t.failure = None
          /\ t.analysis.input # None /\ t.analysis.output # None
     ELSE /\ t.failure # None /\ t.analysis.output = None
          /\ FailureCloses(t.failure)
          /\ t.failure.completed = n
          /\ Len(t.checkpoints)
               = n - (IF t.failure.stage = "REPLICATE_CHECKPOINT" THEN 1 ELSE 0)

\* A terminal that does not close raises out of the executor.
Compose(t) ==
  /\ IF TerminalCloses(t) THEN phase' = "CLOSING" /\ terminal' = t
     ELSE phase' = "RAISED" /\ terminal' = None
  /\ run' = None /\ result' = None

Incomplete(stage, active, unverified) ==
  /\ Compose(Terminal("INCOMPLETE", Failure(stage, active, unverified), analysis))
  /\ UNCHANGED <<completed, checkpoints, analysis>>

Active == Len(completed)
ExecutionFails == Incomplete("REPLICATE_EXECUTION", Active, FALSE)
VerificationFails == Incomplete("REPLICATE_VERIFICATION", Active, TRUE)
CheckpointFails == Incomplete("REPLICATE_CHECKPOINT", Active - 1, FALSE)
AnalysisFails == Incomplete("CAMPAIGN_ANALYSIS", None, FALSE)

-----------------------------------------------------------------------------
(* One replicate                                                           *)

Register ==
  /\ phase = "REGISTERING"
  /\ phase' = "REPLICATE"
  /\ UNCHANGED <<run, result, completed, checkpoints, analysis, terminal, environment>>

StartReplicate ==
  /\ phase = "REPLICATE"
  /\ IF backend = "frozen"
     THEN /\ phase' = "RUNNING" /\ run' = Started
          /\ UNCHANGED <<result, completed, checkpoints, analysis, terminal>>
     ELSE ExecutionFails
  /\ UNCHANGED environment

\* The run goes on as the record says (None: the runner raises).
Continue(next) ==
  IF next = None THEN ExecutionFails
  ELSE /\ run' = next
       /\ UNCHANGED <<phase, result, completed, checkpoints, analysis, terminal>>

Answers(slot) ==
  CASE slot.kind \in Controllers -> {"valid", "invalid", "failure"}
    [] slot.kind = "GATE" -> {"right", "wrong", "empty", "failure"}
    [] OTHER -> {"right", "wrong", "failure"}
\* The default answer: the parent is wrong where every other harness is right.
Default(slot, harness) ==
  IF slot.kind \in Controllers THEN "valid" ELSE IF harness = "parent" THEN "wrong" ELSE "right"

Reports(answer) == IF answer = "failure" THEN {0, Ceiling + 1} ELSE Usages
UsualReport(answer) == IF answer = "failure" THEN 0 ELSE Ceiling

\* A call as the provider answers it, within the bound on surprises.
Answered(called, slot) ==
  \E answer \in Answers(slot), drifts \in BOOLEAN : \E usage \in Reports(answer) :
    LET surprise == {x \in {"answer", "usage", "drift"} :
                       \/ x = "answer" /\ answer # Default(slot, called.state.call.harness)
                       \/ x = "usage" /\ usage # UsualReport(answer)
                       \/ x = "drift" /\ drifts}
    IN /\ surprises' = surprises + Cardinality(surprise)
       /\ surprises' <= MaxSurprises
       /\ backend' = IF drifts THEN "drifted" ELSE backend
       /\ trouble' = trouble \cup {x \in {"drift", "overrun"} :
                       (x = "drift" /\ drifts) \/ (x = "overrun" /\ usage > Ceiling)}
       /\ Continue(AfterCall(called, answer, usage, drifts))
       /\ UNCHANGED faults

CallProvider ==
  /\ phase = "RUNNING" /\ AtSlot(run) /\ ~AtFreeze(run) /\ ~AtSelections(run)
  /\ \E called \in {Called(run)} :
       IF called = None \/ ~CanReserve(run.account) \/ backend = "drifted"
       THEN ExecutionFails /\ UNCHANGED environment
       ELSE Answered(called, Plan[NextSlot(run.state)])

FreezeCandidates ==
  /\ phase = "RUNNING" /\ AtFreeze(run)
  /\ Continue(AfterFreeze(run))
  /\ UNCHANGED environment

FreezeSelections ==
  /\ phase = "RUNNING" /\ AtSelections(run)
  /\ trouble' = trouble \cup {x \in {"undiagnosed"} :
                   \E arm \in Adaptive : Undiagnosed(run.state.done, arm)}
  /\ Continue(AfterSelections(run))
  /\ UNCHANGED <<backend, surprises, faults>>

FinishRun ==
  /\ phase = "RUNNING" /\ Len(run.state.done) = Len(Plan)
  /\ \E finished \in {Finished(run)} :
       IF finished = None THEN ExecutionFails
       ELSE /\ phase' = "VERIFYING" /\ result' = finished /\ run' = None
            /\ UNCHANGED <<completed, checkpoints, analysis, terminal>>
  /\ UNCHANGED environment

\* What the campaign keeps of a verified result.
Binding(r) ==
  [ordinal |-> Active, decisions |-> r.decisions, metrics |-> r.metrics,
   succeeded |-> r.succeeded]

Verify ==
  /\ phase = "VERIFYING"
  /\ IF RunVerifies(result) /\ backend = "frozen"
     THEN /\ phase' = "CHECKPOINTING"
          /\ completed' = Append(completed, Binding(result))
          /\ result' = None
          /\ UNCHANGED <<run, checkpoints, analysis, terminal>>
     ELSE VerificationFails
  /\ UNCHANGED environment

\* Mutant: a checkpoint of the replicates before the one just verified.
CheckpointOfPrevious(done, published) ==
  [completed |-> SubSeq(done, 1, Len(done) - 1),
   previous |-> IF published = <<>> THEN None ELSE published[Len(published)]]

Checkpoint(done, published) ==
  [completed |-> done,
   previous |-> IF published = <<>> THEN None ELSE published[Len(published)]]

PublishCheckpoint ==
  /\ phase = "CHECKPOINTING"
  /\ checkpoints' = Append(checkpoints, Checkpoint(completed, checkpoints))
  /\ phase' = IF Len(completed) = Replicates THEN "DERIVING" ELSE "REPLICATE"
  /\ UNCHANGED <<run, result, completed, analysis, terminal, environment>>

-----------------------------------------------------------------------------
(* The analysis and the end                                                *)

Derive ==
  /\ phase = "DERIVING"
  /\ IF InputCloses(AnalysisInput(completed))
     THEN /\ analysis' = [analysis EXCEPT !.input = AnalysisInput(completed)]
          /\ phase' = "PUBLISHING_INPUT"
          /\ UNCHANGED <<run, result, completed, checkpoints, terminal>>
     ELSE AnalysisFails
  /\ UNCHANGED environment

PublishInput ==
  /\ phase = "PUBLISHING_INPUT"
  /\ analysis' = [analysis EXCEPT !.inputRef = analysis.input]
  /\ phase' = "ANALYSING"
  /\ UNCHANGED <<run, result, completed, checkpoints, terminal, environment>>

Analyse ==
  LET output == Analysis(analysis.input) IN
  /\ phase = "ANALYSING"
  /\ IF AnalysisCloses(output)
     THEN /\ analysis' = [analysis EXCEPT !.output = output]
          /\ Compose(Terminal("COMPLETE", None, analysis'))
          /\ UNCHANGED <<completed, checkpoints>>
     ELSE AnalysisFails
  /\ UNCHANGED environment

PublishTerminal ==
  /\ phase = "CLOSING"
  /\ phase' = "DONE"
  /\ UNCHANGED <<run, result, completed, checkpoints, analysis, terminal, environment>>

Raise(what) ==
  /\ phase' = "RAISED"
  /\ trouble' = trouble \cup {what}
  /\ UNCHANGED <<run, result, completed, checkpoints, analysis, terminal>>

\* A write fails: inside a stage the stage fails, before the first and after the
\* last nothing is left to catch it.
StorageFault ==
  /\ faults < MaxFaults
  /\ faults' = faults + 1
  /\ UNCHANGED <<backend, surprises>>
  /\ \/ phase = "REGISTERING" /\ Raise("registration")
     \/ phase = "CLOSING" /\ Raise("terminal")
     \/ /\ trouble' = trouble \cup {"storage"}
        /\ \/ phase \in {"REPLICATE", "RUNNING"} /\ ExecutionFails
           \/ phase = "VERIFYING" /\ VerificationFails
           \/ phase = "CHECKPOINTING" /\ CheckpointFails
           \/ phase \in {"DERIVING", "PUBLISHING_INPUT", "ANALYSING"} /\ AnalysisFails

Next ==
  \/ Register \/ StartReplicate \/ CallProvider \/ FreezeCandidates \/ FreezeSelections
  \/ FinishRun \/ Verify \/ PublishCheckpoint
  \/ Derive \/ PublishInput \/ Analyse \/ PublishTerminal \/ StorageFault

Spec == Init /\ [][Next]_vars

-----------------------------------------------------------------------------
(* Properties                                                              *)

Ended == phase \in {"DONE", "RAISED"}

\* Only a fault outside the providers' answers stops a campaign, and one pair of
\* answers, an unusable diagnosis with a usable proposal: whatever other mix of
\* failed, invalid, wrong and empty answers the calls get, no freeze, evidence,
\* result, checkpoint or analysis refuses to close over it.
OnlyRealFaultsStop ==
  phase = "RAISED" \/ (phase = "DONE" /\ terminal.status = "INCOMPLETE") => trouble # {}

\* The record of an adaptive arm that earns its candidate a promotion: both
\* controllers' replies were usable, no FIT or GATE call failed, the three names
\* of the parent predicted the same on every GATE task, and the candidate was no
\* worse on FIT and strictly better on GATE.
Right(calls) == Cardinality({k \in DOMAIN calls : calls[k].output = "right"})
Ran(done, arm, kind, variants) ==
  SelectSeq(done, LAMBDA c : SlotOf(c).arm = arm /\ SlotOf(c).kind = kind
                             /\ SlotOf(c).variant \in variants)
Earned(done, arm) ==
  LET replies == Records(done, arm, Controllers)
      calls == Records(done, arm, SelectionKinds)
      controls == Ran(done, arm, "GATE", {"parent", "revert", "placebo"})
  IN /\ \A k \in DOMAIN replies : replies[k].output = "valid"
     /\ \A k \in DOMAIN calls : calls[k].attempt.status = "COMPLETED"
     /\ \A j, k \in DOMAIN controls :
          SlotOf(controls[j]).task = SlotOf(controls[k]).task
            => controls[j].output = controls[k].output
     /\ Right(Ran(done, arm, "CANDIDATE_FIT", {"candidate"}))
          >= Right(Ran(done, arm, "PARENT_FIT", {"parent"}))
     /\ Right(Ran(done, arm, "GATE", {"candidate"})) > Right(Ran(done, arm, "GATE", {"parent"}))

\* A HOLDOUT call of an adaptive arm runs the very harness its candidate calls
\* ran when the record earned it, and otherwise the one its parent FIT calls ran.
PromotionIsEarned ==
  phase = "RUNNING" =>
    LET done == run.state.done
        harnesses(calls) == {calls[k].call.harness : k \in DOMAIN calls}
        ran(arm, kind, variant) == harnesses(Ran(done, arm, kind, {variant}))
    IN \A arm \in Adaptive : \A k \in DOMAIN Records(done, arm, {"HOLDOUT"}) :
         {Records(done, arm, {"HOLDOUT"})[k].call.harness}
           = IF Earned(done, arm)
             THEN ran(arm, "CANDIDATE_FIT", "candidate") \cup ran(arm, "GATE", "candidate")
             ELSE ran(arm, "PARENT_FIT", "parent")

\* What an offline reader recomputes of a terminal from the replicates it names.
CampaignVerifies(t) ==
  /\ \A k \in DOMAIN t.checkpoints :
       /\ t.checkpoints[k].completed = SubSeq(t.completed, 1, k)
       /\ t.checkpoints[k].previous = IF k = 1 THEN None ELSE t.checkpoints[k - 1]
  /\ t.analysis.inputRef # None => t.analysis.inputRef = AnalysisInput(t.completed)
  /\ t.analysis.output # None => t.analysis.output = Analysis(AnalysisInput(t.completed))

\* A terminal claims no more than was verified: an offline reader recomputes its
\* checkpoints and analysis from its replicates, and a complete one is of a
\* campaign that nothing but an overrun or its own publication troubled, without
\* a candidate prompt that no valid diagnosis stands behind.
TerminalIsExact ==
  terminal # None =>
    /\ CampaignVerifies(terminal)
    /\ terminal.status = "COMPLETE" => trouble \subseteq {"overrun", "terminal"}

\* The paired counts of a terminal's analysis, pooled from the replicates task by
\* task, are the difference of the correct answers of the contrasted arms.
PairedIsDifference ==
  terminal # None /\ terminal.analysis.output # None =>
    LET a == terminal.analysis.output IN
    \A contrast \in Contrasts :
      a.paired[contrast].wins - a.paired[contrast].losses
        = a.arms[contrast[1]].correct - a.arms[contrast[2]].correct

\* What a campaign concludes was earned: its promotions by the record of the calls,
\* its paired counts by the answers of the arms.
ConclusionsAreEarned == PromotionIsEarned /\ PairedIsDifference

\* "Invalid candidates consume all frozen call slots through parent fallback and
\* still force rollback": no answers of the controllers stop a campaign.
InvalidCandidatesRollBack ==
  phase = "RAISED" \/ (phase = "DONE" /\ terminal.status = "INCOMPLETE")
    => trouble \ {"undiagnosed"} # {}

\* "Infrastructure failures close": only what happens before there is a campaign
\* to close, or to the terminal artifact itself, raises out of the executor.
InfrastructureFailuresClose ==
  phase = "RAISED" => trouble \cap {"registration", "terminal"} # {}
=============================================================================
