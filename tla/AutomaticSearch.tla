---------------------------- MODULE AutomaticSearch ----------------------------
(***************************************************************************)
(* evolution/orchestrator.py: the loop that drives one search journal over *)
(* one experiment until both are closed and a result is issued.            *)
(*                                                                         *)
(* The loop is a single thread, so the journal moves with it.  While it is *)
(* inside a call of the runtime or of the strategy plugin, and when no     *)
(* loop runs, other holders of the experiment or of the search controller  *)
(* may act.  The experiment takes the steps of ChampionSelection, which    *)
(* ExperimentController implements.                                        *)
(*                                                                         *)
(* A candidate stands for one prompt mutation over one parent: its         *)
(* mutation coordinate, its manifest and its child harness.                *)
(***************************************************************************)
EXTENDS SearchJournal, FiniteSetsExt

CONSTANTS Others,      \* harnesses someone else may promote in the experiment
          MaxLoops,    \* bound: loop objects run over the experiment
          MaxForeign,  \* bound: steps of other holders
          MaxFaults    \* bound: calls that raise outside what is modelled

\* SearchPolicy: the profile a policy must have.
PolicyOK(m) ==
  LET stopping == {m.rounds, m.nominations, m.patience, m.declines}
      candidates == {m.proposals, m.screens, m.perRound, m.screensPerRound}
  IN  /\ stopping \cup candidates \cup {m.diagnoses} \subseteq Nat
      /\ IF m.kind = "STATIC" THEN stopping \cup candidates \cup {m.diagnoses} = {0}
         ELSE /\ m.kind \in {"RANDOM_VALID", "PROMPT_ONLY", "EVIDENCE_TARGETED"}
              /\ 0 \notin stopping \cup candidates
              /\ (m.kind = "EVIDENCE_TARGETED") <=> (m.diagnoses > 0)
              /\ m.perRound <= m.screensPerRound
              /\ m.perRound <= m.proposals
              /\ m.screensPerRound <= m.screens
              /\ m.nominations <= m.proposals

ASSUME PolicyAssumption == \A m \in Manifests : PolicyOK(m)

ASSUME LoopAssumption ==
  /\ Others \cap (Candidates \cup {Seed, Absent}) = {}
  /\ MaxLoops \in Nat \ {0} /\ MaxForeign \in Nat /\ MaxFaults \in Nat

VARIABLES pc,          \* where the loop is
          work,        \* what the current round has produced so far
          used,        \* totals the loop charges against the policy
          seen,        \* mutation coordinates already proposed
          parent,      \* parent harness of every materialized candidate
          authorized,  \* terminal authorization of every decided candidate
          phase, leader, past, spent,  \* the experiment, as ChampionSelection
          result,      \* champion of the result that was issued
          loops, foreign, faults

loopVars == <<pc, work, used, seen>>
experimentVars == <<phase, leader, past, spent>>
boundVars == <<loops, foreign, faults>>
vars == <<searchVars, loopVars, experimentVars, parent, authorized, result, boundVars>>

Lineage == Harnesses \cup Others
Experiment == INSTANCE ChampionSelection WITH Harnesses <- Lineage, champion <- leader

Callbacks == {"FEEDBACK", "DIAGNOSE", "PROPOSE", "SCREEN", "GATE", "DECIDE"}
Stopped == {"RETURNED", "RAISED"}
Steps == Callbacks \cup Stopped
         \cup {"BEGIN", "LOOP", "NOMINATE", "EMPTY", "COMPLETE", "SELECT", "ISSUE"}

NoWork == [batch |-> {}, cited |-> FALSE, nominee |-> Absent]
NothingUsed == [diagnoses |-> 0, proposals |-> 0, screens |-> 0, calls |-> 0]

Terminal == [candidate : Candidates, parent : Lineage, prior : Lineage,
             terminal : GateOutcomes]

\* _max_optimizer_calls_per_run
MaxOptimizerCalls ==
  CASE manifest.kind \in {"STATIC", "RANDOM_VALID"} -> 0
    [] manifest.kind = "EVIDENCE_TARGETED" -> 2 * manifest.rounds
    [] OTHER -> manifest.rounds

RemainingDiagnoses == manifest.diagnoses - used.diagnoses
RemainingProposals == manifest.proposals - used.proposals
RemainingScreens == manifest.screens - used.screens

Go(next) == pc' = next
QuietExperiment == UNCHANGED <<experimentVars, parent, authorized>>
Quiet == UNCHANGED <<result, boundVars>>
QuietLoop == UNCHANGED <<work, used, seen>>

InitAt(step) ==
  /\ SearchInit
  /\ pc = step
  /\ work = NoWork /\ used = NothingUsed /\ seen = {}
  /\ parent = [c \in Candidates |-> Absent]
  /\ authorized = [c \in Candidates |-> Absent]
  /\ phase = "OPEN" /\ leader = Seed /\ past = {} /\ spent = 0
  /\ result = Absent
  /\ loops = 1 /\ foreign = 0 /\ faults = 0

Init == InitAt("BEGIN")

-----------------------------------------------------------------------------
(* run(): entering the loop                                                *)

Prepare ==
  /\ pc = "BEGIN"
  /\ FreezeSearch \/ StartSearch
  /\ UNCHANGED pc
  /\ QuietLoop /\ QuietExperiment /\ Quiet

\* A partially open round and completed rounds are refused.
Enter ==
  /\ pc = "BEGIN"
  /\ state \notin {"NONE", "FROZEN"}
  /\ Go(IF IdleSearch /\ count.completed = 0 THEN "LOOP" ELSE "RAISED")
  /\ UNCHANGED searchVars
  /\ QuietLoop /\ QuietExperiment /\ Quiet

\* _last_gate_view: the last disclosure must be of the round just completed.
GateViewReadable ==
  disclosed # <<>> =>
    LET last == disclosed[Len(disclosed)]
    IN  last.round = count.completed - 1 /\ last.champion = champion

BeginRound ==
  /\ pc = "LOOP"
  /\ OpenRound
  /\ Go(IF GateViewReadable THEN "FEEDBACK" ELSE "RAISED")
  /\ work' = NoWork
  /\ UNCHANGED <<used, seen>>
  /\ QuietExperiment /\ Quiet

-----------------------------------------------------------------------------
(* run(): one round                                                        *)

\* _call_feedback with an answer that verifies.
Feedback ==
  /\ pc = "FEEDBACK"
  /\ RecordEvidence
  /\ Go(IF manifest.kind = "EVIDENCE_TARGETED" /\ RemainingDiagnoses > 0
        THEN "DIAGNOSE" ELSE "PROPOSE")
  /\ QuietLoop /\ QuietExperiment /\ Quiet

\* _call_diagnose with an answer that verifies.
Diagnose ==
  /\ pc = "DIAGNOSE"
  /\ \E n \in 0 .. RemainingDiagnoses :
       /\ work' = [work EXCEPT !.cited = n > 0]
       /\ used' = [used EXCEPT !.diagnoses = @ + n, !.calls = @ + 1]
  /\ Go("PROPOSE")
  /\ UNCHANGED <<searchVars, seen>>
  /\ QuietExperiment /\ Quiet

\* _proposal_batch: the loop declines without asking.
MustDecline ==
  \/ RemainingProposals <= 0
  \/ manifest.kind = "EVIDENCE_TARGETED" /\ ~work.cited

\* Batches that are not refused: within the limits, over the champion's own
\* prompts, and no mutation proposed before.
Batches ==
  IF MustDecline THEN {{}}
  ELSE {batch \in SUBSET (Candidates \ seen) :
          /\ Cardinality(batch) <= Min({manifest.perRound, RemainingProposals})
          /\ \A c \in batch : parent[c] \in {Absent, champion}}

Asked == IF MustDecline \/ manifest.kind = "RANDOM_VALID" THEN 0 ELSE 1

\* _materialize_proposals: some proposals of the batch become candidates.
Materialize(batch, pool) ==
  /\ RecordPool(pool, batch = {})
  /\ parent' = [c \in Candidates |-> IF c \in pool THEN champion ELSE parent[c]]
  /\ work' = [work EXCEPT !.batch = batch]
  /\ used' = [used EXCEPT !.proposals = @ + Cardinality(batch), !.calls = @ + Asked]

\* Mutant: only the last batch is remembered.
ProposeForgetful ==
  /\ pc = "PROPOSE"
  /\ used.calls + Asked <= MaxOptimizerCalls
  /\ \E batch \in Batches :
       /\ \E pool \in SUBSET batch : Materialize(batch, pool)
       /\ seen' = batch
  /\ Go("SCREEN")
  /\ UNCHANGED <<experimentVars, authorized>>
  /\ Quiet

Propose ==
  /\ pc = "PROPOSE"
  /\ used.calls + Asked <= MaxOptimizerCalls
  /\ \E batch \in Batches :
       /\ \E pool \in SUBSET batch : Materialize(batch, pool)
       /\ seen' = seen \cup batch
  /\ Go("SCREEN")
  /\ UNCHANGED <<experimentVars, authorized>>
  /\ Quiet

\* _screen_materializations with evaluations that verify: every proposal of
\* the batch counts, also one that was not materialized.
Screen ==
  /\ pc = "SCREEN"
  /\ Cardinality(work.batch) <= Min({manifest.screensPerRound, RemainingScreens})
  /\ \E eligible \in SUBSET round.pool : RecordScreen(eligible)
  /\ used' = [used EXCEPT !.screens = @ + Cardinality(work.batch)]
  /\ Go("NOMINATE")
  /\ UNCHANGED <<work, seen>>
  /\ QuietExperiment /\ Quiet

\* nominate_candidate: the best of the eligible candidates, if there is one.
NominateBest ==
  /\ pc = "NOMINATE"
  /\ \/ RecordNoCandidate /\ Go("EMPTY") /\ UNCHANGED work
     \/ \E c \in Candidates :
          Nominate(c) /\ Go("GATE") /\ work' = [work EXCEPT !.nominee = c]
  /\ UNCHANGED <<used, seen>>
  /\ QuietExperiment /\ Quiet

FinishEmpty ==
  /\ pc = "EMPTY"
  /\ CompleteEmpty
  /\ Go("LOOP")
  /\ QuietLoop /\ QuietExperiment /\ Quiet

-----------------------------------------------------------------------------
(* run(): the gate of the nominated candidate                              *)

\* run_gate on a candidate the experiment decided before.
ReuseDecision ==
  /\ pc = "GATE"
  /\ authorized[work.nominee] # Absent
  /\ Go("COMPLETE")
  /\ UNCHANGED searchVars
  /\ QuietLoop /\ QuietExperiment /\ Quiet

\* run_gate registers the candidate over the experiment's champion and pays
\* for its evaluation.
PayGate ==
  /\ pc = "GATE"
  /\ authorized[work.nominee] = Absent
  /\ parent[work.nominee] = leader
  /\ spent' = spent + 1
  /\ Experiment!Spend
  /\ Go("DECIDE")
  /\ UNCHANGED <<searchVars, parent, authorized>>
  /\ QuietLoop /\ Quiet

Decision(c, terminal) ==
  [candidate |-> c, parent |-> parent[c], prior |-> leader, terminal |-> terminal]

\* The experiment finalizes the candidate; a promotion over a champion that
\* has moved on is superseded.
DecideGate ==
  LET c == work.nominee
      decide(terminal) == authorized' = [authorized EXCEPT ![c] = Decision(c, terminal)]
  IN  /\ pc = "DECIDE"
      /\ phase = "OPEN"
      /\ \/ decide("REJECTED") /\ UNCHANGED experimentVars
         \/ decide("INCONCLUSIVE") /\ UNCHANGED experimentVars
         \/ /\ parent[c] = leader
            /\ decide("PROMOTED")
            /\ leader' = c
            /\ Experiment!Advance
      /\ Go("COMPLETE")
      /\ UNCHANGED <<searchVars, parent>>
      /\ QuietLoop /\ Quiet

FinishNominated ==
  /\ pc = "COMPLETE"
  /\ CompleteNominated(authorized[work.nominee])
  /\ Go("LOOP")
  /\ QuietLoop /\ QuietExperiment /\ Quiet

\* _reject_and_raise: an answer of the runtime or of the plugin that is over a
\* limit, repeated, misbound, refused by the journal, or an exception.
RejectOutput ==
  /\ pc \in Callbacks \cup {"COMPLETE"}
  /\ InvalidateSearch
  /\ Go("RAISED")
  /\ QuietLoop /\ QuietExperiment /\ Quiet

\* Someone else invalidated the search: the next append, or the rejection of
\* an answer, finds a stale tail.
Displaced ==
  /\ pc \in Callbacks \cup {"COMPLETE"}
  /\ state = "INVALIDATED"
  /\ Go("RAISED")
  /\ UNCHANGED searchVars
  /\ QuietLoop /\ QuietExperiment /\ Quiet

-----------------------------------------------------------------------------
(* run(): closing and issuing                                              *)

CloseSelection ==
  /\ pc = "LOOP"
  /\ CloseSearch
  /\ Go("SELECT")
  /\ QuietLoop /\ QuietExperiment /\ Quiet

CloseExperiment ==
  /\ pc = "SELECT"
  /\ \/ Experiment!Select /\ Go("ISSUE")
     \/ phase # "OPEN" /\ Go("RAISED") /\ UNCHANGED experimentVars
  /\ UNCHANGED <<searchVars, parent, authorized>>
  /\ QuietLoop /\ Quiet

\* Mutant: the two closures are not compared.
IssueUnchecked ==
  /\ pc = "ISSUE"
  /\ result' = champion
  /\ Go("RETURNED")
  /\ UNCHANGED <<searchVars, boundVars>>
  /\ QuietLoop /\ QuietExperiment

Issue ==
  /\ pc = "ISSUE"
  /\ \/ champion = leader /\ result' = champion /\ Go("RETURNED")
     \/ champion # leader /\ UNCHANGED result /\ Go("RAISED")
  /\ UNCHANGED <<searchVars, boundVars>>
  /\ QuietLoop /\ QuietExperiment

-----------------------------------------------------------------------------
(* Everything else                                                         *)

\* Another loop object, over the same controller or over a new one.
NewLoop ==
  /\ pc \in Stopped
  /\ loops < MaxLoops
  /\ loops' = loops + 1
  /\ NewSearch \/ UNCHANGED searchVars
  /\ Go("BEGIN")
  /\ work' = NoWork /\ used' = NothingUsed /\ seen' = {}
  /\ UNCHANGED <<result, foreign, faults>>
  /\ QuietExperiment

\* Another holder of the experiment promotes, closes or invalidates it, or
\* another holder of the search controller invalidates the search.
Foreign ==
  /\ pc \in Callbacks \cup Stopped
  /\ foreign < MaxForeign
  /\ foreign' = foreign + 1
  /\ \/ /\ \/ (\E other \in Others : leader' = other) /\ Experiment!Advance
           \/ Experiment!Select
           \/ Experiment!Void
        /\ UNCHANGED searchVars
     \/ InvalidateSearch /\ UNCHANGED experimentVars
  /\ UNCHANGED <<loopVars, parent, authorized, result, loops, faults>>

\* A store or a registry raises in the middle of a step.
CallFails ==
  /\ pc \notin Stopped
  /\ faults < MaxFaults
  /\ faults' = faults + 1
  /\ Go("RAISED")
  /\ UNCHANGED <<searchVars, result, loops, foreign>>
  /\ QuietLoop /\ QuietExperiment

LoopStep ==
  \/ Prepare \/ Enter \/ BeginRound \/ Feedback \/ Diagnose \/ Propose \/ Screen
  \/ NominateBest \/ FinishEmpty \/ ReuseDecision \/ PayGate \/ DecideGate
  \/ FinishNominated \/ RejectOutput \/ Displaced \/ CloseSelection \/ CloseExperiment
  \/ Issue

Next == LoopStep \/ NewLoop \/ Foreign \/ CallFails

Spec == Init /\ [][Next]_vars

\* The loop is one thread whose calls all return or raise.
LiveSpec == Spec /\ WF_vars(LoopStep)

-----------------------------------------------------------------------------
(* Properties                                                              *)

TypeOK ==
  /\ manifest \in Manifests
  /\ state \in States
  /\ round \in Rounds
  /\ count \in Counters
  /\ champion \in Harnesses
  /\ disclosed \in Seq(Disclosure)
  /\ pc \in Steps
  /\ work \in [batch : SUBSET Candidates, cited : BOOLEAN,
              nominee : Candidates \cup {Absent}]
  /\ used \in [diagnoses : Nat, proposals : Nat, screens : Nat, calls : Nat]
  /\ seen \subseteq Candidates
  /\ parent \in [Candidates -> Lineage \cup {Absent}]
  /\ \A c \in Candidates : authorized[c] \in Terminal \cup {Absent}
  /\ phase \in {"OPEN", "SELECTED", "VOID"}
  /\ leader \in Lineage /\ past \subseteq Lineage /\ spent \in Nat
  /\ result \in Harnesses \cup {Absent}

\* However many loops are run over one experiment and whoever else uses it,
\* no loop pays for more gate evaluations than the frozen policy allows, and
\* what it takes from diagnosers, proposers and screens stays within the
\* policy's totals and the admitted number of optimizer calls.
BudgetsHold ==
  /\ spent <= loops * manifest.nominations
  /\ used.diagnoses <= manifest.diagnoses
  /\ used.proposals <= manifest.proposals
  /\ used.screens <= manifest.screens
  /\ used.calls <= MaxOptimizerCalls

\* Types and budgets, in one invariant.
LoopInv == TypeOK /\ BudgetsHold

\* One gate result never counts as two queries of a search: the disclosures of
\* a search are about different candidates, although a decided candidate keeps
\* its authorization and the journal would accept it again.
NoGateResultTwice ==
  \A i, j \in DOMAIN disclosed :
    disclosed[i].candidate = disclosed[j].candidate => i = j

\* The loop, its journal and its experiment implement what SearchRun promises:
\* the search follows champions of the experiment only, a closed selection
\* does not move, and the one result is issued over two closures that agree.
Promise == INSTANCE SearchRun WITH
  Harnesses <- Lineage,
  selection <- CASE state = "SELECTION_CLOSED" -> "CLOSED"
                 [] state = "INVALIDATED" -> "VOID"
                 [] OTHER -> "OPEN",
  chosen <- champion

PromiseKept == Promise!Spec

\* A loop that runs ends: it returns a result or raises, because every round
\* it opens moves a counter that a stopping rule reads.
LoopEnds == (pc \notin Stopped) ~> (pc \in Stopped)

\* A loop that raises leaves no round open for ever: the documented loop
\* repeats until a stopping rule fires and closes, and a rejected answer
\* invalidates the search.
NoStrandedRound == pc = "RAISED" => round.stage = "NONE"
=============================================================================
