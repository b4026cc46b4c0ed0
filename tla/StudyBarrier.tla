----------------------------- MODULE StudyBarrier -----------------------------
(***************************************************************************)
(* experiments/study.py: the journal of one study, which registers one     *)
(* closed search run per condition and search seed, closes a barrier when  *)
(* all are there, and authorizes sealed evaluation after it has verified   *)
(* every registered run once more.                                         *)
(*                                                                         *)
(* A run is the three live objects that AutomaticSearch composes: a search *)
(* controller, an experiment controller and a loop.  A caller may pair the *)
(* objects of different runs.  Other threads hold the same objects, so a   *)
(* run may move between any two checks of a call.                          *)
(***************************************************************************)
EXTENDS Naturals, FiniteSets, Sequences, SequencesExt

CONSTANTS Keys,          \* cells of the plan: condition and search seed
          Runs,          \* search runs somebody carried out
          KeyOf,         \* the cell a run belongs to, Absent for a foreign run
          Champions,     \* harnesses a run may select
          Absent,
          MaxOpenings    \* bound: study controllers opened on the journal

ASSUME StudyAssumption ==
  /\ Absent \notin Keys \cup Runs \cup Champions
  /\ KeyOf \in [Runs -> Keys \cup {Absent}]
  /\ MaxOpenings \in Nat \ {0}

ASSUME KeysAssumption == IsFiniteSet(Keys)

VARIABLES run,       \* the three objects of every run
          journal,   \* events up to the tail the controller holds
          live,      \* _live_runs: capabilities registered with this controller
          call,      \* the call the controller is inside of
          opening    \* which controller object this is

vars == <<run, journal, live, call, opening>>

RunStates == [search : {"OPEN", "CLOSED", "VOID"},
              experiment : {"OPEN", "SELECTED", "MOVED"},
              followed : Champions \cup {Absent},   \* champion of the search
              leader : Champions \cup {Absent},     \* champion of the experiment
              issued : BOOLEAN]                     \* the loop issued a result
OpenRun == [search |-> "OPEN", experiment |-> "OPEN", followed |-> Absent,
            leader |-> Absent, issued |-> FALSE]

\* StudyRunClosure: the objects whose tails it binds, their champion, and the
\* controller object that registered them.
Closures == [search : Runs, experiment : Runs, loop : Runs, champion : Champions,
             opening : 1 .. MaxOpenings]

ASSUME AbsentAssumption == Absent \notin Closures

Registered(closure) == [kind |-> "RUN_REGISTERED", closure |-> closure]
Plain(kind) == [kind |-> kind, closure |-> Absent]
Events == {Plain(kind) : kind \in {"FROZEN", "COLLECTION_STARTED", "BARRIER_CLOSED",
                                   "SEALED_AUTHORIZED", "INVALIDATED"}}
          \cup {Registered(closure) : closure \in Closures}

\* A call in progress; "moved" only records, for MovedRunBlocks, which runs
\* were no longer closed when the call began.
NoCall == [kind |-> "NONE", closure |-> Absent, checked |-> {}, moved |-> {}]

-----------------------------------------------------------------------------
(* The replay of a journal                                                 *)

StateAfter == [FROZEN |-> "FROZEN", COLLECTION_STARTED |-> "COLLECTING",
               RUN_REGISTERED |-> "COLLECTING", BARRIER_CLOSED |-> "BARRIER_CLOSED",
               SEALED_AUTHORIZED |-> "SEALED_AUTHORIZED", INVALIDATED |-> "INVALIDATED"]

State == IF journal = <<>> THEN "NONE" ELSE StateAfter[Last(journal).kind]

\* The closures a replay finds, one per registered key.
Bound == {event.closure : event \in {e \in ToSet(journal) : e.kind = "RUN_REGISTERED"}}
BoundKeys == {KeyOf[closure.search] : closure \in Bound}
MissingKeys == Keys \ BoundKeys

AppendEvent(event) == journal' = Append(journal, event)

-----------------------------------------------------------------------------
(* Verification of live objects                                            *)

\* SearchController.verify_selection_closure and
\* ExperimentController.verify_experiment_selection_closure at exact tails
SearchClosed(r) == run[r].search = "CLOSED"
ExperimentSelected(r) == run[r].experiment = "SELECTED"

\* Mutant: the loop's result is not joined with the controllers.
IssuedSomewhere(loop, search, experiment) == run[loop].issued

\* AutomaticSearchLoop.verify_execution: the result is of this loop, and the
\* loop issued it over these very controllers.
IssuedOver(loop, search, experiment) ==
  /\ run[loop].issued
  /\ search = loop /\ experiment = loop

\* Mutant: the experiment is not asked again whether it is still selected.
VerifiedBySearch(search, experiment, loop) ==
  /\ SearchClosed(search)
  /\ run[search].followed = run[experiment].leader
  /\ IssuedOver(loop, search, experiment)

\* That search and experiment name one experiment manifest is left to IssuedOver,
\* which implies it.
Verified(search, experiment, loop) ==
  /\ SearchClosed(search)
  /\ ExperimentSelected(experiment)
  /\ run[search].followed = run[experiment].leader
  /\ IssuedOver(loop, search, experiment)

MovedRuns == {r \in Runs : ~(SearchClosed(r) /\ ExperimentSelected(r))}
LiveObjects == {live[k] : k \in Keys} \ {Absent}

-----------------------------------------------------------------------------
Init ==
  /\ run = [r \in Runs |-> OpenRun]
  /\ journal = <<>>
  /\ live = [k \in Keys |-> Absent]
  /\ call = NoCall
  /\ opening = 1

Idle == call = NoCall
Quiet == UNCHANGED <<run, opening>>

Freeze ==
  /\ Idle /\ State = "NONE"
  /\ AppendEvent(Plain("FROZEN"))
  /\ UNCHANGED <<live, call>> /\ Quiet

StartCollection ==
  /\ Idle /\ State = "FROZEN"
  /\ AppendEvent(Plain("COLLECTION_STARTED"))
  /\ UNCHANGED <<live, call>> /\ Quiet

\* register_run_closure up to the append: every check on the live objects.
VerifyRun(search, experiment, loop) ==
  /\ Idle /\ State = "COLLECTING" /\ MissingKeys # {}
  /\ Verified(search, experiment, loop)
  /\ KeyOf[search] \in MissingKeys
  /\ \A other \in LiveObjects : /\ other.search # search
                                /\ other.experiment # experiment
                                /\ other.loop # loop
  /\ call' = [kind |-> "REGISTER", checked |-> {}, moved |-> {},
              closure |-> [search |-> search, experiment |-> experiment, loop |-> loop,
                           champion |-> run[search].followed, opening |-> opening]]
  /\ UNCHANGED <<journal, live>> /\ Quiet

RegisterRun ==
  /\ call.kind = "REGISTER"
  /\ AppendEvent(Registered(call.closure))
  /\ live' = [live EXCEPT ![KeyOf[call.closure.search]] = call.closure]
  /\ call' = NoCall
  /\ Quiet

CloseSelectionBarrier ==
  /\ Idle /\ State = "COLLECTING"
  /\ MissingKeys = {}
  /\ AppendEvent(Plain("BARRIER_CLOSED"))
  /\ UNCHANGED <<live, call>> /\ Quiet

\* authorize_sealed: every binding must have a live capability.
BeginAuthorization ==
  /\ Idle /\ State = "BARRIER_CLOSED"
  /\ \A k \in Keys : (live[k] # Absent) <=> (k \in BoundKeys)
  /\ call' = [kind |-> "AUTHORIZE", closure |-> Absent, checked |-> {}, moved |-> MovedRuns]
  /\ UNCHANGED <<journal, live>> /\ Quiet

\* One turn of the loop of _reverify_all_live_runs.
ReverifyRun(k) ==
  LET capability == live[k]
  IN  /\ call.kind = "AUTHORIZE"
      /\ capability \in Bound \ call.checked
      /\ Verified(capability.search, capability.experiment, capability.loop)
      /\ run[capability.search].followed = capability.champion
      /\ call' = [call EXCEPT !.checked = @ \cup {capability}]
      /\ UNCHANGED <<journal, live>> /\ Quiet

AuthorizeSealed ==
  /\ call.kind = "AUTHORIZE"
  /\ call.checked = Bound
  /\ AppendEvent(Plain("SEALED_AUTHORIZED"))
  /\ call' = NoCall
  /\ UNCHANGED live /\ Quiet

\* A check fails or a store raises: the call leaves no trace on the controller.
CallRaises ==
  /\ ~Idle
  /\ call' = NoCall
  /\ UNCHANGED <<journal, live>> /\ Quiet

Invalidate ==
  /\ Idle
  /\ State \notin {"NONE", "INVALIDATED", "SEALED_AUTHORIZED"}
  /\ AppendEvent(Plain("INVALIDATED"))
  /\ UNCHANGED <<live, call>> /\ Quiet

\* A new controller over the journal, at any tail its caller kept: it holds no
\* live capability.
Reopen ==
  /\ opening < MaxOpenings
  /\ opening' = opening + 1
  /\ \E n \in 0 .. Len(journal) : journal' = SubSeq(journal, 1, n)
  /\ live' = [k \in Keys |-> Absent]
  /\ call' = NoCall
  /\ UNCHANGED run

-----------------------------------------------------------------------------
(* The runs, as AutomaticSearch leaves them                                *)

\* Search and experiment close; a result is issued only if they agree.
CloseRun(r) ==
  /\ run[r] = OpenRun
  /\ \E f, l \in Champions : \E issued \in BOOLEAN :
       /\ issued => f = l
       /\ run' = [run EXCEPT ![r] = [search |-> "CLOSED", experiment |-> "SELECTED",
                                     followed |-> f, leader |-> l, issued |-> issued]]
  /\ UNCHANGED <<journal, live, call, opening>>

\* Someone invalidates the search, starts sealed execution of the experiment,
\* which asks for no study authorization, or invalidates the experiment.
MoveRun(r) ==
  /\ \/ /\ run[r].search = "CLOSED"
        /\ run' = [run EXCEPT ![r].search = "VOID"]
     \/ /\ run[r].experiment = "SELECTED"
        /\ run' = [run EXCEPT ![r].experiment = "MOVED"]
  /\ UNCHANGED <<journal, live, call, opening>>

Next ==
  \/ Freeze \/ StartCollection
  \/ \E search, experiment, loop \in Runs : VerifyRun(search, experiment, loop)
  \/ RegisterRun \/ CloseSelectionBarrier \/ BeginAuthorization
  \/ \E k \in Keys : ReverifyRun(k)
  \/ AuthorizeSealed \/ CallRaises \/ Invalidate \/ Reopen
  \/ \E r \in Runs : CloseRun(r) \/ MoveRun(r)

Spec == Init /\ [][Next]_vars

-----------------------------------------------------------------------------
(* Properties                                                              *)

TypeOK ==
  /\ run \in [Runs -> RunStates]
  /\ journal \in Seq(Events)
  /\ live \in [Keys -> Closures \cup {Absent}] /\ LiveObjects \subseteq Bound
  /\ call \in [kind : {"NONE", "REGISTER", "AUTHORIZE"}, closure : Closures \cup {Absent},
              checked : SUBSET Closures, moved : SUBSET Runs]
  /\ opening \in 1 .. MaxOpenings

\* A sealed authorization stands for one intact run of every cell of the plan,
\* each registered with the very controller that authorizes: the objects it
\* binds are of one run, no run answers for two cells, and bindings recovered
\* from the journal by a later controller never count.
AuthorizedIsComplete ==
  State = "SEALED_AUTHORIZED" =>
    /\ BoundKeys = Keys /\ Cardinality(Bound) = Cardinality(Keys)
    /\ \A closure \in Bound :
         /\ {closure.search, closure.experiment, closure.loop} = {closure.loop}
         /\ closure.champion = run[closure.loop].leader
    /\ \A one, other \in Bound : one.opening = other.opening

\* A run that was invalidated or had entered sealed execution when a call of
\* authorize_sealed began is not covered by an authorization the call emits,
\* although the call checks the runs one at a time while they may still move.
MovedRunBlocks ==
  [][State # "SEALED_AUTHORIZED" /\ State' = "SEALED_AUTHORIZED" =>
       \A closure \in Bound : closure.loop \notin call.moved]_vars
=============================================================================
