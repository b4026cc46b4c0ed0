---------------------------- MODULE TrustedGrading ----------------------------
(***************************************************************************)
(* experiments/bfcl_v4_public_v2_trusted_adapters.py, its contracts and    *)
(* the live configuration: the plane in which the BFCL v2 campaign grades. *)
(* A producer issues a record of a provider call, a registry hands each    *)
(* registered record to one grading attempt, and an adapter reduces what   *)
(* the full grader says to the few fields the journal keeps.               *)
(*                                                                         *)
(* The full grader, the verified barrier and the verification of the       *)
(* semantic release are external, modelled from their use here: the grader *)
(* may raise, or answer about something else than it was asked.  Producing *)
(* a record is a function of its arguments and leaves no state.            *)
(***************************************************************************)
EXTENDS Naturals, FiniteSets, Functions

CONSTANTS SplitOf,      \* the split of each graded node, "FIT", "GATE" or "HOLDOUT"
          PureCells,    \* cells of a PURE@B batch
          Outputs,      \* canonical responses of the provider
          CorrectPairs,        \* what the grader finds correct: pairs of a node or cell and an output
          Authorities,  \* semantic releases, each verified or not
          GradeThreads,
          NoCall,
          MaxExecutions, MaxRegistrations   \* bounds

GradedNodes == DOMAIN SplitOf
Releases == {authority.release : authority \in Authorities}

ASSUME GradingAssumption ==
  /\ SplitOf \in [GradedNodes -> {"FIT", "GATE", "HOLDOUT"}]
  /\ CorrectPairs \subseteq (GradedNodes \cup PureCells) \X Outputs
  /\ Authorities \subseteq [release : Releases, verified : BOOLEAN]
  /\ NoCall \notin Outputs
  /\ MaxExecutions \in Nat /\ MaxRegistrations \in Nat

VARIABLES live,        \* the frozen configuration of producer, registry and adapter
          executions,  \* the native provider calls made
          registry,    \* the record that waits for each node
          unlocks,     \* the evaluation unlocks the adapter has issued
          graders,     \* the grading attempts under way
          grades,      \* the projections returned
          pureGrade,   \* the last PURE@B projection returned
          registered, handed   \* records registered and handed out, per node

gradingVars == <<live, executions, registry, unlocks, graders, grades, pureGrade,
                 registered, handed>>

Config(release) == [release |-> release]
Idle == [at |-> "IDLE"]

\* freeze_bfcl_v4_public_v2_live_execution_config: only over a verified release,
\* and, the catalogue left out, over the model's own advertised route.
FreezeLive(authority) ==
  /\ live = NoCall /\ authority.verified
  /\ live' = Config(authority.release)
  /\ UNCHANGED <<executions, registry, unlocks, graders, grades, pureGrade, registered, handed>>

\* materialize_bfcl_v4_public_v2_native_request: a node's request on the wire
\* of a configuration, its messages and tools left out.
NativeRequest(node, config) == [task |-> node, config |-> config]

\* bfcl_v4_public_v2_native_slot_fingerprint
NativeSlot(node, config) == [node |-> node, config |-> config]

\* The runner sends a request in a slot, and is answered or fails.
Execute ==
  /\ live # NoCall /\ Cardinality(executions) < MaxExecutions
  /\ \E node \in GradedNodes, task \in GradedNodes, release \in Releases,
        output \in Outputs \cup {NoCall} :
       executions' = executions \cup
         {[slot |-> NativeSlot(node, Config(release)),
           request |-> NativeRequest(task, Config(release)), output |-> output]}
  /\ UNCHANGED <<live, registry, unlocks, graders, grades, pureGrade, registered, handed>>

-----------------------------------------------------------------------------
(* Records                                                                 *)

\* BfclV4PublicV2TrustedCallRecord: a completed execution of the node under the
\* producer's own configuration and the release the request was made under.
RecordBinds(node, release, execution, config) ==
  /\ execution.slot = NativeSlot(node, config)
  /\ execution.request = NativeRequest(node, config)
  /\ release = config.release
  /\ execution.output # NoCall

\* Every call that some producer, under some configuration, can have issued.
Issued ==
  {[node |-> t[1], config |-> Config(t[2]), output |-> t[3].output]
     : t \in {t \in GradedNodes \X Releases \X executions :
                RecordBinds(t[1], t[2], t[3], Config(t[2]))}}

\* verify_issued: the registry's own producer issued it.
OwnProduct(call) == call.config = live

\* register
RegisterCall(call) ==
  /\ OwnProduct(call)
  /\ registry[call.node] = NoCall
  /\ registered[call.node] < MaxRegistrations
  /\ registry' = [registry EXCEPT ![call.node] = call]
  /\ registered' = [registered EXCEPT ![call.node] = @ + 1]
  /\ UNCHANGED <<live, executions, unlocks, graders, grades, pureGrade, handed>>

-----------------------------------------------------------------------------
(* Unlocks                                                                 *)

\* A verified barrier rests on the six decisions of a campaign and a release.
DecisionBarriers == [decisions : {"FROZEN", "CHANGED"}, release : Releases]
OwnBarrier(barrier) == barrier.decisions = "FROZEN" /\ barrier.release = live.release

\* No call is none of the things that are passed about.
ASSUME NoCallAssumption ==
  NoCall \notin [release : Releases] \cup DecisionBarriers
    \cup [node : GradedNodes, config : [release : Releases], output : Outputs]

\* issue_evaluation_unlock: what the grader unlocks has to be this barrier.
IssueUnlock(barrier) ==
  /\ live # NoCall /\ OwnBarrier(barrier)
  /\ unlocks' = unlocks \cup {barrier}
  /\ UNCHANGED <<live, executions, registry, graders, grades, pureGrade, registered, handed>>

-----------------------------------------------------------------------------
(* Grading                                                                 *)

\* grade: an unlock that is named was issued by this adapter.
StartGrade(thread) ==
  /\ live # NoCall /\ graders[thread] = Idle
  /\ \E node \in GradedNodes, output \in Outputs, unlock \in unlocks \cup {NoCall} :
       graders' = [graders EXCEPT ![thread] =
         [at |-> "TAKE", node |-> node, output |-> output, unlock |-> unlock]]
  /\ UNCHANGED <<live, executions, registry, unlocks, grades, pureGrade, registered, handed>>

GradeRaises(thread) == graders' = [graders EXCEPT ![thread] = Idle]

\* Mutant: whatever waits for the node is taken.
MatchesNode(call, attempt) == call # NoCall

\* What waits for the node is the call the executor means.
MatchesCall(call, attempt) == call # NoCall /\ call.output = attempt.output

\* take: under the registry's lock, once.
Take(thread) ==
  LET attempt == graders[thread]
      call == registry[attempt.node]
  IN  /\ attempt.at = "TAKE"
      /\ IF MatchesCall(call, attempt)
         THEN /\ registry' = [registry EXCEPT ![attempt.node] = NoCall]
              /\ handed' = [handed EXCEPT ![attempt.node] = @ + 1]
              /\ graders' = [graders EXCEPT ![thread] =
                   [at |-> "GRADE", attempt |-> attempt, call |-> call]]
         ELSE GradeRaises(thread) /\ UNCHANGED <<registry, handed>>
      /\ UNCHANGED <<live, executions, unlocks, grades, pureGrade, registered>>

\* A receipt names an unlock exactly for the HOLDOUT.
Receipts ==
  {receipt \in [node : GradedNodes, output : Outputs, unlock : unlocks \cup {NoCall}] :
     receipt.unlock # NoCall <=> SplitOf[receipt.node] = "HOLDOUT"}

\* The unlock fits the split, the campaign and the release.
UnlockFits(node, unlock) ==
  IF unlock = NoCall THEN SplitOf[node] # "HOLDOUT"
  ELSE SplitOf[node] = "HOLDOUT" /\ OwnBarrier(unlock)

\* project_bfcl_v4_public_v2_trusted_grade
Projects(call, receipt, unlock) ==
  /\ UnlockFits(call.node, unlock)
  /\ receipt.node = call.node /\ receipt.output = call.output /\ receipt.unlock = unlock

\* The grader raises or answers; the record is gone in either case.
GradeCall(thread) ==
  LET attempt == graders[thread].attempt
      call == graders[thread].call
  IN  /\ graders[thread].at = "GRADE"
      /\ GradeRaises(thread)
      /\ \/ UNCHANGED grades
         \/ \E receipt \in Receipts :
              /\ Projects(call, receipt, attempt.unlock)
              /\ grades' = grades \cup
                   {[attempt |-> attempt, call |-> call,
                     correct |-> <<receipt.node, receipt.output>> \in CorrectPairs]}
      /\ UNCHANGED <<live, executions, registry, unlocks, pureGrade, registered, handed>>

-----------------------------------------------------------------------------
(* PURE@B                                                                  *)

\* A batch holds the modal output of every cell.
PureRequests == [release : Releases, unlock : DecisionBarriers, cells : [PureCells -> Outputs]]

\* _checked_batch_context
BatchContext(request) ==
  request.release = live.release /\ OwnBarrier(request.unlock)

\* grade_pure_at_b_batch: the receipt is about this request, cell by cell; whether
\* its unlock was issued is left to the full grader.
GradePureBatch ==
  /\ live # NoCall
  /\ \E request \in PureRequests, receipt \in PureRequests :
       /\ BatchContext(request)
       /\ receipt.release = request.release /\ receipt.unlock = request.unlock
       /\ \A cell \in PureCells : receipt.cells[cell] = request.cells[cell]
       /\ pureGrade' = [request |-> request,
            correct |-> [cell \in PureCells |-> <<cell, receipt.cells[cell]>> \in CorrectPairs]]
  /\ UNCHANGED <<live, executions, registry, unlocks, graders, grades, registered, handed>>

-----------------------------------------------------------------------------
GradingInit ==
  /\ live = NoCall /\ executions = {} /\ unlocks = {} /\ grades = {} /\ pureGrade = NoCall
  /\ registry = [node \in GradedNodes |-> NoCall]
  /\ graders = [thread \in GradeThreads |-> Idle]
  /\ registered = [node \in GradedNodes |-> 0]
  /\ handed = [node \in GradedNodes |-> 0]

GradingNext ==
  \/ Execute \/ GradePureBatch
  \/ \E authority \in Authorities : FreezeLive(authority)
  \/ \E call \in Issued : RegisterCall(call)
  \/ \E barrier \in DecisionBarriers : IssueUnlock(barrier)
  \/ \E thread \in GradeThreads : StartGrade(thread) \/ Take(thread) \/ GradeCall(thread)

GradingSpec == GradingInit /\ [][GradingNext]_gradingVars

-----------------------------------------------------------------------------
\* A grade the executor gets is of the very output it asked about, which an
\* execution of that node gave under the live configuration; a HOLDOUT grade,
\* and only that, rests on an unlock this adapter issued for its own barrier.
\* One registration is graded at most once, whatever threads race for it and
\* whatever the grader does, and the configuration rests on a verified release.
GradesAreOwn ==
  /\ \A grade \in grades :
       LET node == grade.attempt.node IN
       /\ [slot |-> NativeSlot(node, live), request |-> NativeRequest(node, live),
           output |-> grade.attempt.output] \in executions
       /\ grade.correct = (<<node, grade.attempt.output>> \in CorrectPairs)
       /\ IF SplitOf[node] = "HOLDOUT"
          THEN grade.attempt.unlock \in unlocks /\ OwnBarrier(grade.attempt.unlock)
          ELSE grade.attempt.unlock = NoCall
  /\ \A node \in GradedNodes :
       registered[node] = handed[node] + (IF registry[node] = NoCall THEN 0 ELSE 1)
  /\ pureGrade # NoCall =>
       /\ pureGrade.request.release = live.release /\ OwnBarrier(pureGrade.request.unlock)
       /\ \A cell \in PureCells :
            pureGrade.correct[cell] = (<<cell, pureGrade.request.cells[cell]>> \in CorrectPairs)
  /\ live # NoCall => [release |-> live.release, verified |-> TRUE] \in Authorities
=============================================================================
