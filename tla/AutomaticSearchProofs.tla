------------------------- MODULE AutomaticSearchProofs -------------------------
(***************************************************************************)
(* Theorems about the search loop, for every policy, any number of loop    *)
(* objects and any interference by other holders of the experiment: its    *)
(* budgets are kept, a gate result is disclosed once, and the loop         *)
(* implements SearchRun.  And about the feedback a SCORE search is shown:  *)
(* whatever happens to its ledgers, it was won on fresh ground.            *)
(***************************************************************************)
EXTENDS AutomaticSearch, ScoreFeedback, FiniteSetTheorems, SequenceTheorems,
        WellFoundedInduction, TLAPS

USE DEF Stopped, Callbacks, Steps

Running == Steps \ (Stopped \cup {"BEGIN"})
Pooled == {"SCREEN", "NOMINATE", "EMPTY", "GATE", "DECIDE", "COMPLETE"}
Gating == {"GATE", "DECIDE", "COMPLETE"}
InRound == {"FEEDBACK", "DIAGNOSE", "PROPOSE"} \cup Pooled

\* The authorizations are a function, and speak of the candidate they are kept for.
AuthorizedTyped ==
  /\ authorized \in [Candidates -> Terminal \cup {Absent}]
  /\ \A c \in Candidates : authorized[c] # Absent => authorized[c].candidate = c

\* What the current round remembers, and the nominee the loop takes to the gate.
RoundShape ==
  /\ round.nominated \in Candidates => round.stage = "NOMINATED"
  /\ round.eligible # {} => round.stage \in {"SCREENED", "NOMINATED"}
  /\ round.eligible \subseteq round.pool
  /\ \A c \in round.pool : parent[c] \in Lineage
  /\ pc \in Pooled => round.pool \subseteq work.batch /\ work.batch \subseteq seen
  /\ pc \in Gating =>
       /\ work.nominee \in work.batch /\ parent[work.nominee] \in Lineage
       /\ round.stage = "NOMINATED" => round.nominated = work.nominee

\* Optimizer calls are at most two a round, and rounds are counted.
CallsCharged ==
  /\ pc \in {"LOOP", "FEEDBACK", "DIAGNOSE"} => used.calls <= 2 * count.completed
  /\ pc = "PROPOSE" => used.calls <= 2 * count.completed + 1
  /\ pc \in Pooled => used.calls <= 2 * count.completed + 2
  /\ pc \in InRound => count.completed < manifest.rounds
  /\ pc = "DIAGNOSE" => manifest.kind = "EVIDENCE_TARGETED"
  /\ pc = "BEGIN" => used = NothingUsed

\* What earlier loops may have spent.
Earlier == (loops - 1) * manifest.nominations

\* A gate evaluation is paid for after its nomination was counted.
SpendingCharged ==
  /\ loops \in Nat \ {0}
  /\ count.nominations <= manifest.nominations
  /\ pc = "BEGIN" => spent <= Earlier
  /\ pc \in Running => spent <= Earlier + count.nominations
  /\ pc = "GATE" => spent + 1 <= Earlier + count.nominations

\* What this loop disclosed it has proposed before, in an earlier round.
DisclosedBefore ==
  /\ Len(disclosed) <= count.completed
  /\ pc \in Running => \A i \in DOMAIN disclosed : disclosed[i].candidate \in seen
  /\ pc \in Pooled => \A i \in DOMAIN disclosed : disclosed[i].candidate \notin work.batch

\* What closing and issuing stand on.
ClosedBefore ==
  /\ \A c \in Candidates :
       authorized[c] # Absent /\ authorized[c].terminal = "PROMOTED" => c \in past \cup {leader}
  /\ result # Absent => phase # "OPEN"
  /\ pc \in {"SELECT", "ISSUE"} => state = "SELECTION_CLOSED"
  /\ pc = "ISSUE" => result = Absent /\ phase = "SELECTED"

\* The inductive invariant: types, then what budgets, disclosures and closing
\* rest on.
BudgetInv == BudgetsHold /\ CallsCharged /\ SpendingCharged
DisclosureInv == RoundShape /\ DisclosedBefore /\ NoGateResultTwice
ClosingInv == AuthorizedTyped /\ ClosedBefore
IInv == TypeOK /\ BudgetInv /\ DisclosureInv /\ ClosingInv

-----------------------------------------------------------------------------
(* Facts about the operators the loop is built from                        *)

(* The smaller of two bounds is below each of them.                        *)
LEMMA MinOfTwo ==
  ASSUME NEW a \in Int, NEW b \in Int
  PROVE  Min({a, b}) \in Int /\ Min({a, b}) <= a /\ Min({a, b}) <= b
<1>1. \E x \in {a, b} : \A y \in {a, b} : x =< y
  <2>1. CASE a <= b
    BY <2>1
  <2>2. CASE b <= a
    BY <2>2
  <2> QED BY <2>1, <2>2
<1>2. Min({a, b}) \in {a, b} /\ \A y \in {a, b} : Min({a, b}) =< y
  BY <1>1 DEF Min
<1> QED BY <1>2

(* Every policy's limits are numbers, and a loop that may open a round has  *)
(* positive ones.                                                          *)
LEMMA PolicyTyped ==
  ASSUME manifest \in Manifests
  PROVE  /\ manifest.rounds \in Nat /\ manifest.nominations \in Nat
         /\ manifest.patience \in Nat /\ manifest.declines \in Nat
         /\ manifest.proposals \in Nat /\ manifest.screens \in Nat
         /\ manifest.perRound \in Nat /\ manifest.screensPerRound \in Nat
         /\ manifest.diagnoses \in Nat
         /\ MaxOptimizerCalls \in Nat
<1>1. PolicyOK(manifest)
  BY PolicyAssumption
<1> QED BY <1>1 DEF PolicyOK, MaxOptimizerCalls

(* A batch is a set of fresh candidates within the proposals that remain.   *)
LEMMA BatchesFit ==
  ASSUME TypeOK, BudgetsHold, NEW batch \in Batches
  PROVE  /\ batch \subseteq Candidates \ seen
         /\ Cardinality(batch) \in Nat
         /\ used.proposals + Cardinality(batch) <= manifest.proposals
<1>1. manifest.proposals \in Nat /\ manifest.perRound \in Nat /\ used.proposals \in Nat
  BY PolicyTyped DEF TypeOK
<1>2. CASE MustDecline
  <2>1. batch = {}
    BY <1>2 DEF Batches
  <2> QED BY <2>1, <1>1, FS_EmptySet DEF BudgetsHold
<1>3. CASE ~MustDecline
  <2>1. /\ batch \in SUBSET (Candidates \ seen)
        /\ Cardinality(batch) <= Min({manifest.perRound, RemainingProposals})
    BY <1>3 DEF Batches
  <2>2. Cardinality(batch) \in Nat
    BY <2>1, CandidatesAssumption, FS_Subset, FS_CardinalityType DEF CandidatesAssumption
  <2>3. RemainingProposals \in Int /\ manifest.perRound \in Int
    BY <1>1 DEF RemainingProposals
  <2>4. /\ Min({manifest.perRound, RemainingProposals}) \in Int
        /\ Min({manifest.perRound, RemainingProposals}) <= RemainingProposals
    BY <2>3, MinOfTwo
  <2> QED BY <2>1, <2>2, <2>3, <2>4, <1>1 DEF RemainingProposals
<1> QED BY <1>2, <1>3

(* Candidates proposed, nominated and authorized have their types.          *)
LEMMA NomineeTyped ==
  ASSUME TypeOK, RoundShape, pc \in Gating
  PROVE  work.nominee \in Candidates
BY DEF TypeOK, RoundShape, Gating, Pooled

USE DEF Go, Quiet, QuietLoop, QuietExperiment, searchVars, loopVars, experimentVars,
        boundVars

-----------------------------------------------------------------------------
(* Types                                                                   *)

JournalTyped ==
  /\ manifest \in Manifests /\ state \in States /\ round \in Rounds /\ count \in Counters
  /\ champion \in Harnesses /\ disclosed \in Seq(Disclosure)

LoopTyped ==
  /\ pc \in Steps
  /\ work \in [batch : SUBSET Candidates, cited : BOOLEAN,
              nominee : Candidates \cup {Absent}]
  /\ used \in [diagnoses : Nat, proposals : Nat, screens : Nat, calls : Nat]
  /\ seen \subseteq Candidates

ExperimentTyped ==
  /\ parent \in [Candidates -> Lineage \cup {Absent}]
  /\ \A c \in Candidates : authorized[c] \in Terminal \cup {Absent}
  /\ phase \in {"OPEN", "SELECTED", "VOID"}
  /\ leader \in Lineage /\ past \subseteq Lineage /\ spent \in Nat
  /\ result \in Harnesses \cup {Absent}

(* The type invariant in three parts.                                      *)
LEMMA TypeParts == TypeOK <=> JournalTyped /\ LoopTyped /\ ExperimentTyped
BY DEF TypeOK, JournalTyped, LoopTyped, ExperimentTyped

(* The empty round and the empty counters have their types.                *)
LEMMA NothingTyped == NoRound \in Rounds /\ NothingCounted \in Counters
BY DEF NoRound, Rounds, Stages, NothingCounted, Counters

(* A round that changes its stage is a round, and counters stay counters.   *)
LEMMA CountersTyped ==
  ASSUME count \in Counters
  PROVE  /\ EmptyCounted \in Counters
         /\ \A promoted \in BOOLEAN : NominationCounted(promoted) \in Counters
         /\ [count EXCEPT !.nominations = @ + 1] \in Counters
<1>1. /\ count.completed + 1 \in Nat /\ count.sincePromotion + 1 \in Nat
      /\ count.nominations + 1 \in Nat
      /\ (IF round.declined THEN count.declines + 1 ELSE 0) \in Nat
  BY DEF Counters
<1>2. EmptyCounted \in Counters
  BY <1>1 DEF EmptyCounted, Counters
<1>3. ASSUME NEW promoted \in BOOLEAN PROVE NominationCounted(promoted) \in Counters
  <2>1. (IF promoted THEN 0 ELSE count.sincePromotion + 1) \in Nat
    BY <1>1
  <2> QED BY <1>1, <2>1 DEF NominationCounted, Counters
<1> QED BY <1>1, <1>2, <1>3 DEF Counters

(* The journal keeps its types whatever the loop appends.                  *)
LEMMA JournalTypes ==
  ASSUME IInv, [Next]_vars PROVE JournalTyped'
<1> USE DEF IInv, JournalTyped
<1>0. JournalTyped /\ LoopTyped /\ ExperimentTyped
  BY TypeParts
<1>1. CASE UNCHANGED searchVars
  BY <1>0, <1>1
<1>2. CASE Prepare \/ CloseSelection
  BY <1>0, <1>2 DEF Prepare, CloseSelection, FreezeSearch, StartSearch, CloseSearch, States
<1>3. CASE BeginRound \/ Feedback
  BY <1>0, <1>3 DEF BeginRound, Feedback, OpenRound, RecordEvidence, NoRound, Rounds, Stages
<1>4. CASE NewLoop \/ RejectOutput \/ Foreign
  <2>1. Seed \in Harnesses /\ <<>> \in Seq(Disclosure) /\ {"NONE", "INVALIDATED"} \subseteq States
    BY DEF Harnesses, States
  <2> QED BY <1>0, <1>4, <2>1, NothingTyped
          DEF NewLoop, NewSearch, RejectOutput, Foreign, InvalidateSearch
<1>5. CASE Propose
  <2>1. PICK batch \in Batches : \E pool \in SUBSET batch : RecordPool(pool, batch = {})
    BY <1>5 DEF Propose, Materialize
  <2>2. batch \subseteq Candidates /\ (batch = {}) \in BOOLEAN
    BY BatchesFit DEF BudgetInv
  <2> QED BY <1>0, <2>1, <2>2 DEF RecordPool, Rounds, Stages
<1>6. CASE Screen
  BY <1>0, <1>6 DEF Screen, RecordScreen, Rounds, Stages
<1>7. CASE NominateBest
  BY <1>0, <1>7, CountersTyped DEF NominateBest, RecordNoCandidate, Nominate, Rounds, Stages
<1>8. CASE FinishEmpty
  BY <1>0, <1>8, NothingTyped, CountersTyped DEF FinishEmpty, CompleteEmpty
<1>9. CASE FinishNominated
  <2> DEFINE a == authorized[work.nominee]
             next == IF a.terminal = "PROMOTED" THEN round.nominated ELSE champion
  <2>1. CompleteNominated(a) /\ work.nominee \in Candidates
    BY <1>9, NomineeTyped DEF FinishNominated, DisclosureInv, Gating
  <2>2. a \in Terminal /\ a.candidate = round.nominated
    BY <1>0, <2>1 DEF CompleteNominated, Authorizes, ExperimentTyped
  <2>3. round.nominated \in Candidates /\ a.terminal \in GateOutcomes
    BY <2>2 DEF Terminal
  <2>4. next \in Harnesses /\ count.completed \in Nat
    BY <1>0, <2>3 DEF Harnesses, Counters
  <2>5. Disclose(a, next) \in Disclosure
    BY <2>3, <2>4 DEF Disclose, Disclosure
  <2>6. disclosed' = Append(disclosed, Disclose(a, next)) /\ champion' = next
        /\ count' = NominationCounted(a.terminal = "PROMOTED") /\ round' = NoRound
        /\ UNCHANGED <<manifest, state>>
    BY <2>1 DEF CompleteNominated
  <2>7. count' \in Counters
    BY <1>0, <2>6, CountersTyped
  <2>8. round' \in Rounds
    BY <2>6, NothingTyped
  <2> QED BY <1>0, <2>4, <2>5, <2>6, <2>7, <2>8, AppendProperties
<1> QED BY <1>1, <1>2, <1>3, <1>4, <1>5, <1>6, <1>7, <1>8, <1>9
        DEF Next, LoopStep, vars, Enter, Diagnose, ReuseDecision, PayGate, DecideGate,
            Displaced, CloseExperiment, Issue, CallFails

(* Where the loop is, and what its round and its totals hold, stay typed.   *)
LEMMA LoopTypes ==
  ASSUME IInv, [Next]_vars PROVE LoopTyped'
<1> USE DEF IInv, LoopTyped
<1>0. JournalTyped /\ LoopTyped /\ ExperimentTyped
  BY TypeParts
<1>1. CASE UNCHANGED loopVars
  BY <1>0, <1>1
<1>2. CASE \/ Enter \/ Feedback \/ FinishEmpty \/ ReuseDecision \/ PayGate \/ DecideGate
           \/ FinishNominated \/ RejectOutput \/ Displaced \/ CloseSelection
           \/ CloseExperiment \/ Issue \/ CallFails
  BY <1>0, <1>2 DEF Enter, Feedback, FinishEmpty, ReuseDecision, PayGate, DecideGate,
       FinishNominated, RejectOutput, Displaced, CloseSelection, CloseExperiment, Issue, CallFails
<1>3. CASE BeginRound \/ NewLoop
  <2>1. /\ NoWork \in [batch : SUBSET Candidates, cited : BOOLEAN,
                       nominee : Candidates \cup {Absent}]
        /\ NothingUsed \in [diagnoses : Nat, proposals : Nat, screens : Nat, calls : Nat]
    BY DEF NoWork, NothingUsed
  <2> QED BY <1>0, <1>3, <2>1 DEF BeginRound, NewLoop
<1>4. CASE Diagnose
  <2>1. PICK n \in 0 .. RemainingDiagnoses :
          /\ work' = [work EXCEPT !.cited = n > 0]
          /\ used' = [used EXCEPT !.diagnoses = @ + n, !.calls = @ + 1]
    BY <1>4 DEF Diagnose
  <2>2. (n > 0) \in BOOLEAN /\ used.diagnoses + n \in Nat /\ used.calls + 1 \in Nat
    BY <1>0, <2>1
  <2> QED BY <1>0, <1>4, <2>1, <2>2 DEF Diagnose
<1>5. CASE Propose
  <2>1. PICK batch \in Batches :
          /\ work' = [work EXCEPT !.batch = batch]
          /\ used' = [used EXCEPT !.proposals = @ + Cardinality(batch), !.calls = @ + Asked]
          /\ seen' = seen \cup batch
    BY <1>5 DEF Propose, Materialize
  <2>2. batch \subseteq Candidates /\ Cardinality(batch) \in Nat
    BY BatchesFit DEF BudgetInv
  <2>3. used.proposals + Cardinality(batch) \in Nat /\ used.calls + Asked \in Nat
    BY <1>0, <2>2 DEF Asked
  <2> QED BY <1>0, <1>5, <2>1, <2>2, <2>3 DEF Propose
<1>6. CASE Screen
  <2>1. Cardinality(work.batch) \in Nat
    BY <1>0, CandidatesAssumption, FS_Subset, FS_CardinalityType DEF CandidatesAssumption
  <2>2. used.screens + Cardinality(work.batch) \in Nat
    BY <1>0, <2>1
  <2> QED BY <1>0, <1>6, <2>2 DEF Screen
<1>7. CASE NominateBest
  BY <1>0, <1>7 DEF NominateBest, Nominate
<1> QED BY <1>1, <1>2, <1>3, <1>4, <1>5, <1>6, <1>7
        DEF Next, LoopStep, vars, Prepare, Foreign

(* The experiment and what the loop keeps of it stay typed.                 *)
LEMMA ExperimentTypes ==
  ASSUME IInv, [Next]_vars PROVE ExperimentTyped'
<1> USE DEF IInv, ExperimentTyped
<1>0. JournalTyped /\ LoopTyped /\ ExperimentTyped
  BY TypeParts
<1>1. CASE UNCHANGED <<parent, authorized, experimentVars, result>>
  BY <1>0, <1>1
<1>2. CASE Propose
  <2>1. PICK batch \in Batches : \E pool \in SUBSET batch :
          parent' = [c \in Candidates |-> IF c \in pool THEN champion ELSE parent[c]]
    BY <1>2 DEF Propose, Materialize
  <2>2. champion \in Lineage
    BY <1>0 DEF JournalTyped, Lineage
  <2>3. parent' \in [Candidates -> Lineage \cup {Absent}]
    BY <1>0, <2>1, <2>2
  <2> QED BY <1>0, <1>2, <2>3 DEF Propose
<1>3. CASE PayGate
  BY <1>0, <1>3 DEF PayGate, Experiment!Spend
<1>4. CASE DecideGate
  <2>1. work.nominee \in Candidates /\ authorized \in [Candidates -> Terminal \cup {Absent}]
    BY <1>4, NomineeTyped DEF DecideGate, DisclosureInv, ClosingInv, AuthorizedTyped, Gating
  <2>2. parent[work.nominee] \in Lineage
    BY <1>4 DEF DecideGate, DisclosureInv, RoundShape, Gating
  <2>3. \A t \in GateOutcomes : Decision(work.nominee, t) \in Terminal
    BY <1>0, <2>1, <2>2 DEF Decision, Terminal
  <2>4. {"REJECTED", "INCONCLUSIVE", "PROMOTED"} \subseteq GateOutcomes
    BY DEF GateOutcomes
  <2>5. work.nominee \in Lineage
    BY <2>1 DEF Lineage, Harnesses
  <2> QED BY <1>0, <1>4, <2>1, <2>3, <2>4, <2>5 DEF DecideGate, Experiment!Advance
<1>5. CASE CloseExperiment
  BY <1>0, <1>5 DEF CloseExperiment, Experiment!Select
<1>6. CASE Issue
  BY <1>0, <1>6 DEF Issue, JournalTyped
<1>7. CASE Foreign
  BY <1>0, <1>7 DEF Foreign, Experiment!Advance, Experiment!Select, Experiment!Void, Lineage
<1> QED BY <1>1, <1>2, <1>3, <1>4, <1>5, <1>6, <1>7
        DEF Next, LoopStep, vars, Prepare, Enter, BeginRound, Feedback, Diagnose, Screen,
            NominateBest, FinishEmpty, ReuseDecision, FinishNominated, RejectOutput, Displaced,
            CloseSelection, NewLoop, CallFails

-----------------------------------------------------------------------------
(* Budgets                                                                 *)

(* The numbers the budgets are about.                                      *)
LEMMA Numbers ==
  ASSUME TypeOK, SpendingCharged
  PROVE  /\ manifest.rounds \in Nat /\ manifest.nominations \in Nat
         /\ MaxOptimizerCalls \in Nat
         /\ used.diagnoses \in Nat /\ used.proposals \in Nat /\ used.screens \in Nat
         /\ used.calls \in Nat
         /\ count.completed \in Nat /\ count.nominations \in Nat /\ spent \in Nat
         /\ Earlier \in Nat
         /\ loops * manifest.nominations = Earlier + manifest.nominations
<1>1. manifest.nominations \in Nat /\ loops - 1 \in Nat /\ loops \in Nat
  BY PolicyTyped DEF TypeOK, SpendingCharged
<1>2. \A a, b \in Nat : a * b \in Nat /\ (a + 1) * b = a * b + b
  OBVIOUS
<1>3. Earlier \in Nat /\ ((loops - 1) + 1) * manifest.nominations = Earlier + manifest.nominations
  BY <1>1, <1>2 DEF Earlier
<1>4. (loops - 1) + 1 = loops
  BY <1>1
<1> QED BY <1>1, <1>3, <1>4, PolicyTyped DEF TypeOK, Counters

(* A round is opened only while rounds are left (search.py, _stop_reasons).  *)
LEMMA RoundsLeft ==
  ASSUME TypeOK, StopReasons = {}
  PROVE  count.completed < manifest.rounds
<1> DEFINE met == [MAX_ROUNDS |-> count.completed >= manifest.rounds,
              MAX_GATE_NOMINATIONS |-> count.nominations >= manifest.nominations,
              PATIENCE |-> count.completed > 0 /\ count.sincePromotion >= manifest.patience,
              MAX_CONSECUTIVE_DECLINES |-> count.declines >= manifest.declines]
<1>1. count.completed \in Nat /\ manifest.rounds \in Nat
  BY PolicyTyped DEF TypeOK, Counters
<1>2. manifest.kind # "STATIC"
  BY DEF StopReasons
<1>3. {reason \in DOMAIN met : met[reason]} = {}
  BY <1>2 DEF StopReasons
<1>4. "MAX_ROUNDS" \in DOMAIN met /\ met["MAX_ROUNDS"] = (count.completed >= manifest.rounds)
  OBVIOUS
<1> HIDE DEF met
<1>5. ~ (count.completed >= manifest.rounds)
  BY <1>3, <1>4
<1> QED BY <1>1, <1>5

(* A step that charges nothing and opens no round keeps the budgets, if it   *)
(* does not go back to a stage that is allowed less.                       *)
LEMMA NothingCharged ==
  ASSUME IInv, UNCHANGED <<used, spent, loops, manifest, count>>, pc' \in Steps,
         pc' \in Stopped \cup {"NOMINATE", "SELECT", "ISSUE", pc}
         \/ (pc \in Pooled /\ pc' \in {"EMPTY", "DECIDE", "COMPLETE"}),
         pc' = "NOMINATE" => pc \in {"NOMINATE", "SCREEN"},
         pc' \in {"SELECT", "ISSUE"} => pc \in Running
  PROVE  BudgetInv'
<1>1. Earlier' = Earlier /\ MaxOptimizerCalls' = MaxOptimizerCalls
  BY DEF Earlier, MaxOptimizerCalls
<1> QED BY <1>1, Numbers DEF IInv, BudgetInv, BudgetsHold, CallsCharged, SpendingCharged,
             Pooled, InRound, Running

(* No step of anyone breaks the budgets.                                   *)
LEMMA BudgetStep ==
  ASSUME IInv, [Next]_vars PROVE BudgetInv'
<1> USE DEF IInv, BudgetInv
<1>0. /\ JournalTyped' /\ LoopTyped' /\ ExperimentTyped'
      /\ JournalTyped /\ LoopTyped /\ ExperimentTyped
  BY TypeParts, JournalTypes, LoopTypes, ExperimentTypes
<1>a. ASSUME UNCHANGED <<manifest, loops>>
      PROVE  Earlier' = Earlier /\ MaxOptimizerCalls' = MaxOptimizerCalls
  BY <1>a DEF Earlier, MaxOptimizerCalls
<1>1. CASE UNCHANGED vars \/ Prepare \/ Foreign
  <2>1. UNCHANGED <<pc, used, spent, loops, manifest, count>>
    BY <1>1 DEF vars, Prepare, FreezeSearch, StartSearch, Foreign, InvalidateSearch,
         Experiment!Advance, Experiment!Select, Experiment!Void
  <2>2. pc' = pc /\ pc' \in Steps
    BY <1>0, <2>1 DEF LoopTyped
  <2>3. pc' \in {"SELECT", "ISSUE"} => pc \in Running
    BY <2>2 DEF Running
  <2> QED BY <2>1, <2>2, <2>3, NothingCharged
<1>2. CASE \/ ReuseDecision \/ DecideGate \/ RejectOutput \/ Displaced \/ CloseSelection
           \/ CloseExperiment \/ Issue \/ CallFails
  <2>1. UNCHANGED <<used, spent, loops, manifest, count>>
    BY <1>2 DEF ReuseDecision, DecideGate, RejectOutput, Displaced, CloseSelection,
         CloseExperiment, Issue, CallFails, CloseSearch, InvalidateSearch,
         Experiment!Advance, Experiment!Select
  <2>2. /\ pc' \in Stopped \cup {"SELECT", "ISSUE"} \/ (pc \in Pooled /\ pc' = "COMPLETE")
        /\ pc' \in {"SELECT", "ISSUE"} => pc \in Running
    BY <1>2 DEF ReuseDecision, DecideGate, RejectOutput, Displaced, CloseSelection,
         CloseExperiment, Issue, CallFails, Pooled, Running
  <2> QED BY <1>0, <2>1, <2>2, NothingCharged DEF LoopTyped
<1>3. CASE Enter
  <2>1. /\ UNCHANGED <<used, spent, loops, manifest, count>>
        /\ pc = "BEGIN" /\ pc' \in {"LOOP", "RAISED"}
    BY <1>3 DEF Enter
  <2>2. used.calls = 0
    BY <2>1 DEF CallsCharged, NothingUsed
  <2> QED BY <1>a, <2>1, <2>2, Numbers DEF BudgetsHold, CallsCharged, SpendingCharged, Running,
               InRound, Pooled
<1>4. CASE BeginRound
  <2>1. /\ UNCHANGED <<used, spent, loops, manifest, count>>
        /\ pc = "LOOP" /\ pc' \in {"FEEDBACK", "RAISED"} /\ StopReasons = {}
    BY <1>4 DEF BeginRound, OpenRound
  <2> QED BY <1>a, <2>1, Numbers, RoundsLeft
          DEF BudgetsHold, CallsCharged, SpendingCharged, Running, InRound, Pooled
<1>5. CASE Feedback
  <2>1. /\ UNCHANGED <<used, spent, loops, manifest, count>>
        /\ pc = "FEEDBACK" /\ pc' \in {"DIAGNOSE", "PROPOSE"}
        /\ pc' = "DIAGNOSE" => manifest.kind = "EVIDENCE_TARGETED"
    BY <1>5 DEF Feedback, RecordEvidence
  <2> QED BY <1>a, <2>1, Numbers
          DEF BudgetsHold, CallsCharged, SpendingCharged, Running, InRound, Pooled
<1>6. CASE Diagnose
  <2>1. PICK n \in 0 .. RemainingDiagnoses :
          used' = [used EXCEPT !.diagnoses = @ + n, !.calls = @ + 1]
    BY <1>6 DEF Diagnose
  <2>2. /\ UNCHANGED <<spent, loops, manifest, count>>
        /\ pc = "DIAGNOSE" /\ pc' = "PROPOSE"
    BY <1>6 DEF Diagnose
  <2>3. /\ used'.diagnoses = used.diagnoses + n /\ used'.calls = used.calls + 1
        /\ used'.proposals = used.proposals /\ used'.screens = used.screens
    BY <1>0, <2>1 DEF LoopTyped
  <2>4. MaxOptimizerCalls = 2 * manifest.rounds
    BY <2>2 DEF CallsCharged, MaxOptimizerCalls
  <2>5. n \in Int /\ used.diagnoses + n <= manifest.diagnoses
    BY <2>1, PolicyTyped, Numbers DEF RemainingDiagnoses, TypeOK
  <2> QED BY <1>a, <2>2, <2>3, <2>4, <2>5, Numbers
          DEF BudgetsHold, CallsCharged, SpendingCharged, Running, InRound, Pooled
<1>7. CASE Propose
  <2>1. PICK batch \in Batches :
          used' = [used EXCEPT !.proposals = @ + Cardinality(batch), !.calls = @ + Asked]
    BY <1>7 DEF Propose, Materialize
  <2>2. /\ UNCHANGED <<spent, loops, manifest, count>>
        /\ pc = "PROPOSE" /\ pc' = "SCREEN" /\ used.calls + Asked <= MaxOptimizerCalls
    BY <1>7 DEF Propose, Materialize, RecordPool
  <2>3. /\ used'.proposals = used.proposals + Cardinality(batch)
        /\ used'.calls = used.calls + Asked
        /\ used'.diagnoses = used.diagnoses /\ used'.screens = used.screens
    BY <1>0, <2>1 DEF LoopTyped
  <2>4. used.proposals + Cardinality(batch) <= manifest.proposals /\ Asked \in {0, 1}
    BY BatchesFit DEF Asked
  <2> QED BY <1>a, <2>2, <2>3, <2>4, Numbers
          DEF BudgetsHold, CallsCharged, SpendingCharged, Running, InRound, Pooled
<1>8. CASE Screen
  <2> DEFINE n == Cardinality(work.batch)
  <2>1. /\ UNCHANGED <<spent, loops, manifest, count>>
        /\ pc = "SCREEN" /\ pc' = "NOMINATE"
        /\ n <= Min({manifest.screensPerRound, RemainingScreens})
        /\ used' = [used EXCEPT !.screens = @ + n]
    BY <1>8 DEF Screen, RecordScreen
  <2>2. n \in Nat
    BY <1>0, CandidatesAssumption, FS_Subset, FS_CardinalityType
       DEF CandidatesAssumption, LoopTyped
  <2>3. manifest.screensPerRound \in Int /\ RemainingScreens \in Int
    BY PolicyTyped, Numbers DEF RemainingScreens, TypeOK
  <2>4. /\ Min({manifest.screensPerRound, RemainingScreens}) \in Int
        /\ Min({manifest.screensPerRound, RemainingScreens}) <= RemainingScreens
    BY <2>3, MinOfTwo
  <2> HIDE DEF n
  <2>5. n <= RemainingScreens
    BY <2>1, <2>2, <2>3, <2>4
  <2>6. manifest.screens \in Nat
    BY PolicyTyped DEF TypeOK
  <2>7. used.screens + n <= manifest.screens
    BY <2>2, <2>5, <2>6, Numbers DEF RemainingScreens
  <2>8. /\ used'.screens = used.screens + n
        /\ used'.diagnoses = used.diagnoses /\ used'.proposals = used.proposals
        /\ used'.calls = used.calls
    BY <1>0, <2>1 DEF LoopTyped
  <2> QED BY <1>a, <2>1, <2>7, <2>8, Numbers
          DEF BudgetsHold, CallsCharged, SpendingCharged, Running, InRound, Pooled
<1>9. CASE NominateBest
  <2>1. CASE RecordNoCandidate /\ pc' = "EMPTY"
    BY <1>0, <1>9, <2>1, NothingCharged DEF NominateBest, RecordNoCandidate, LoopTyped, Pooled
  <2>2. CASE \E c \in Candidates : Nominate(c) /\ pc' = "GATE"
    <3>1. /\ UNCHANGED <<used, spent, loops, manifest>>
          /\ pc = "NOMINATE" /\ count.nominations < manifest.nominations
          /\ count' = [count EXCEPT !.nominations = @ + 1]
      BY <1>9, <2>2 DEF NominateBest, Nominate
    <3>2. count'.nominations = count.nominations + 1 /\ count'.completed = count.completed
      BY <1>0, <3>1 DEF JournalTyped, Counters
    <3> QED BY <1>a, <2>2, <3>1, <3>2, Numbers
            DEF BudgetsHold, CallsCharged, SpendingCharged, Running, InRound, Pooled
  <2> QED BY <1>9, <2>1, <2>2 DEF NominateBest
<1>10. CASE FinishEmpty \/ FinishNominated
  <2>1. /\ UNCHANGED <<used, spent, loops, manifest>>
        /\ pc \in {"EMPTY", "COMPLETE"} /\ pc' = "LOOP"
        /\ count' = EmptyCounted \/ (\E promoted \in BOOLEAN : count' = NominationCounted(promoted))
    BY <1>10 DEF FinishEmpty, CompleteEmpty, FinishNominated, CompleteNominated
  <2>2. count'.nominations = count.nominations /\ count'.completed = count.completed + 1
    BY <1>0, <2>1 DEF EmptyCounted, NominationCounted, JournalTyped, Counters
  <2> QED BY <1>a, <2>1, <2>2, Numbers
          DEF BudgetsHold, CallsCharged, SpendingCharged, Running, InRound, Pooled
<1>11. CASE PayGate
  <2>1. /\ UNCHANGED <<used, loops, manifest, count>>
        /\ pc = "GATE" /\ pc' = "DECIDE" /\ spent' = spent + 1
    BY <1>11 DEF PayGate
  <2> QED BY <1>a, <2>1, Numbers
          DEF BudgetsHold, CallsCharged, SpendingCharged, Running, InRound, Pooled
<1>12. CASE NewLoop
  <2>1. /\ manifest' = manifest /\ spent' = spent /\ loops' = loops + 1
        /\ count' \in {count, NothingCounted}
        /\ pc' = "BEGIN" /\ used' = NothingUsed
    BY <1>12 DEF NewLoop, NewSearch
  <2>2. Earlier' = loops * manifest.nominations /\ loops' \in Nat \ {0}
    BY <2>1, Numbers DEF Earlier, SpendingCharged
  <2>3. loops * manifest.nominations \in Nat /\ manifest.nominations \in Nat
    BY Numbers
  <2>4. loops' * manifest'.nominations = Earlier' + manifest'.nominations
    <3>1. \A a, b \in Nat : (a + 1) * b = a * b + b
      OBVIOUS
    <3> QED BY <2>1, <2>2, <2>3, <3>1 DEF SpendingCharged
  <2>5. spent' <= Earlier'
    BY <2>1, <2>2 DEF BudgetsHold
  <2>6. SpendingCharged'
    <3>1. count'.nominations <= manifest'.nominations
      BY <2>1, <2>3 DEF NothingCounted, SpendingCharged
    <3> QED BY <2>1, <2>2, <2>5, <3>1 DEF SpendingCharged, Running
  <2>7. spent' <= loops' * manifest'.nominations
    BY <2>1, <2>2, <2>3, <2>4, <2>5, Numbers
  <2>8. MaxOptimizerCalls' = MaxOptimizerCalls
    BY <2>1 DEF MaxOptimizerCalls
  <2>9. CallsCharged'
    BY <2>1 DEF CallsCharged, InRound, Pooled
  <2>10. /\ used'.diagnoses = 0 /\ used'.proposals = 0 /\ used'.screens = 0 /\ used'.calls = 0
    BY <2>1 DEF NothingUsed
  <2>11. manifest.diagnoses \in Nat /\ manifest.proposals \in Nat /\ manifest.screens \in Nat
    BY PolicyTyped DEF TypeOK
  <2> QED BY <2>1, <2>6, <2>7, <2>8, <2>9, <2>10, <2>11, Numbers DEF BudgetsHold
<1> QED BY <1>1, <1>2, <1>3, <1>4, <1>5, <1>6, <1>7, <1>8, <1>9, <1>10, <1>11, <1>12
        DEF Next, LoopStep

-----------------------------------------------------------------------------
(* Rounds and disclosures                                                  *)

(* A step that leaves the round, its work, the disclosures and the parents  *)
(* alone keeps what is known of them, if the loop goes where no more is     *)
(* known than where it was.                                                *)
LEMMA RoundStands ==
  ASSUME IInv, UNCHANGED <<round, work, seen, disclosed, parent>>,
         count'.completed = count.completed,
         pc' \in Running => pc \in Running,
         pc' \in Pooled => pc \in Pooled,
         pc' \in Gating => pc \in Gating
  PROVE  DisclosureInv'
BY DEF IInv, DisclosureInv, RoundShape, DisclosedBefore, NoGateResultTwice

(* A round that is closed or abandoned leaves nothing to nominate.          *)
LEMMA RoundGone ==
  ASSUME IInv, round' = NoRound, UNCHANGED <<seen, disclosed, parent>>,
         count'.completed \in Nat, count'.completed >= count.completed,
         \/ pc' \in {"LOOP", "RAISED"} /\ (pc' \in Running => pc \in Running)
         \/ pc' = pc /\ work' = work
  PROVE  DisclosureInv'
<1>1. /\ Absent \notin Candidates
      /\ round'.pool = {} /\ round'.eligible = {} /\ round'.nominated = Absent
      /\ round'.stage = "NONE"
  BY SeedAssumption DEF SeedAssumption, NoRound
<1>2. /\ Len(disclosed) \in Nat /\ count.completed \in Nat
  BY DEF IInv, TypeOK, Counters
<1> QED BY <1>1, <1>2
        DEF IInv, DisclosureInv, RoundShape, DisclosedBefore, NoGateResultTwice, Pooled, Gating

(* Disclosures are never about one candidate twice.                         *)
LEMMA DisclosureStep ==
  ASSUME IInv, [Next]_vars PROVE DisclosureInv'
<1> USE DEF IInv
<1>0. /\ JournalTyped' /\ LoopTyped' /\ ExperimentTyped'
      /\ JournalTyped /\ LoopTyped /\ ExperimentTyped
  BY TypeParts, JournalTypes, LoopTypes, ExperimentTypes
<1>1. CASE UNCHANGED vars \/ Prepare
  BY <1>1, RoundStands DEF vars, Prepare, FreezeSearch, StartSearch
<1>2. CASE \/ ReuseDecision \/ PayGate \/ DecideGate \/ Displaced \/ CloseSelection
           \/ CloseExperiment \/ Issue \/ CallFails
  <2>1. UNCHANGED <<round, work, seen, disclosed, parent, count>>
    BY <1>2 DEF ReuseDecision, PayGate, DecideGate, Displaced, CloseSelection, CloseExperiment,
         Issue, CallFails, CloseSearch
  <2>2. /\ pc' \in Running => pc \in Running
        /\ pc' \in Pooled => pc \in Pooled
        /\ pc' \in Gating => pc \in Gating
    BY <1>2 DEF ReuseDecision, PayGate, DecideGate, Displaced, CloseSelection, CloseExperiment,
         Issue, CallFails, Running, Pooled, Gating
  <2> QED BY <2>1, <2>2, RoundStands
<1>12. CASE Feedback
  <2>1. /\ round' = [round EXCEPT !.stage = "EVIDENCE_READY"] /\ round.stage = "ROUND_OPEN"
        /\ UNCHANGED <<work, seen, disclosed, parent, count>>
        /\ pc = "FEEDBACK" /\ pc' \in {"DIAGNOSE", "PROPOSE"}
    BY <1>12 DEF Feedback, RecordEvidence, Active
  <2>2. /\ round'.pool = round.pool /\ round'.eligible = round.eligible
        /\ round'.nominated = round.nominated
    BY <1>0, <2>1 DEF JournalTyped, Rounds
  <2> QED BY <2>1, <2>2 DEF DisclosureInv, RoundShape, DisclosedBefore, NoGateResultTwice,
               Running, Pooled, Gating
<1>3. CASE Enter
  <2>1. /\ UNCHANGED <<round, work, seen, disclosed, parent, count>>
        /\ pc' = "LOOP" => count.completed = 0
        /\ pc' \in {"LOOP", "RAISED"}
    BY <1>3 DEF Enter
  <2>2. pc' = "LOOP" => DOMAIN disclosed = {}
    <3>1. Len(disclosed) \in Nat /\ DOMAIN disclosed = 1 .. Len(disclosed)
      BY <1>0 DEF JournalTyped
    <3> QED BY <2>1, <3>1 DEF DisclosureInv, DisclosedBefore
  <2> QED BY <2>1, <2>2 DEF DisclosureInv, RoundShape, DisclosedBefore, NoGateResultTwice, Running,
               Pooled, Gating
<1>4. CASE BeginRound
  <2>1. /\ round' = [NoRound EXCEPT !.stage = "ROUND_OPEN"]
        /\ UNCHANGED <<seen, disclosed, parent, count>>
        /\ pc = "LOOP" /\ pc' \in {"FEEDBACK", "RAISED"}
    BY <1>4 DEF BeginRound, OpenRound
  <2>2. /\ round'.pool = {} /\ round'.eligible = {} /\ round'.nominated = Absent
        /\ Absent \notin Candidates
    BY <2>1, SeedAssumption DEF NoRound, SeedAssumption
  <2> QED BY <2>1, <2>2 DEF DisclosureInv, RoundShape, DisclosedBefore, NoGateResultTwice, Running,
               Pooled, Gating
<1>5. CASE Diagnose
  BY <1>5 DEF Diagnose, DisclosureInv, RoundShape, DisclosedBefore, NoGateResultTwice, Running,
       Pooled, Gating
<1>6. CASE Propose
  <2>1. PICK batch \in Batches :
          /\ \E pool \in SUBSET batch : Materialize(batch, pool)
          /\ seen' = seen \cup batch
    BY <1>6 DEF Propose
  <2>2. PICK pool \in SUBSET batch : Materialize(batch, pool)
    BY <2>1
  <2>3. /\ work' = [work EXCEPT !.batch = batch]
        /\ parent' = [c \in Candidates |-> IF c \in pool THEN champion ELSE parent[c]]
        /\ Active("EVIDENCE_READY") /\ UNCHANGED <<count, disclosed>>
        /\ round' = [round EXCEPT !.stage = "CANDIDATE_POOL_READY", !.pool = pool,
                                  !.declined = (batch = {})]
    BY <2>2 DEF Materialize, RecordPool
  <2>4. batch \subseteq Candidates \ seen
    BY BatchesFit DEF BudgetInv
  <2>5. /\ work'.batch = batch /\ round'.pool = pool /\ round'.eligible = round.eligible
        /\ round'.nominated = round.nominated /\ round'.stage = "CANDIDATE_POOL_READY"
    BY <1>0, <2>3 DEF LoopTyped, JournalTyped, Rounds
  <2>6. \A c \in pool : parent'[c] \in Lineage
    BY <1>0, <2>3, <2>4 DEF JournalTyped, Lineage
  <2>7. pc = "PROPOSE" /\ pc' = "SCREEN"
    BY <1>6 DEF Propose
  <2> QED BY <2>1, <2>3, <2>4, <2>5, <2>6, <2>7
          DEF Active, DisclosureInv, RoundShape, DisclosedBefore, NoGateResultTwice, Running, Pooled, Gating
<1>7. CASE Screen
  <2>1. PICK eligible \in SUBSET round.pool : RecordScreen(eligible)
    BY <1>7 DEF Screen
  <2>2. /\ round'.pool = round.pool /\ round'.eligible = eligible
        /\ round'.nominated = round.nominated /\ round'.stage = "SCREENED"
        /\ round.stage = "CANDIDATE_POOL_READY" /\ UNCHANGED <<count, disclosed>>
    BY <1>0, <2>1 DEF RecordScreen, Active, JournalTyped, Rounds
  <2>3. pc = "SCREEN" /\ pc' = "NOMINATE" /\ UNCHANGED <<work, seen, parent>>
    BY <1>7 DEF Screen
  <2> QED BY <2>2, <2>3 DEF DisclosureInv, RoundShape, DisclosedBefore, NoGateResultTwice,
               Running, Pooled, Gating
<1>8. CASE NominateBest
  <2>1. /\ UNCHANGED <<disclosed, seen, parent>> /\ count'.completed = count.completed
        /\ pc = "NOMINATE" /\ round.stage = "SCREENED"
        /\ round'.pool = round.pool /\ round'.eligible = round.eligible
    BY <1>0, <1>8 DEF NominateBest, Nominate, RecordNoCandidate, Active, JournalTyped, Rounds,
         Counters
  <2>2. CASE RecordNoCandidate /\ pc' = "EMPTY" /\ work' = work
    <3>1. round'.nominated = round.nominated /\ round.eligible = {}
      BY <1>0, <2>2 DEF RecordNoCandidate, JournalTyped, Rounds
    <3> QED BY <2>1, <2>2, <3>1 DEF DisclosureInv, RoundShape, DisclosedBefore, NoGateResultTwice,
               Running, Pooled, Gating
  <2>3. ASSUME NEW c \in Candidates,
               Nominate(c), pc' = "GATE", work' = [work EXCEPT !.nominee = c]
        PROVE  DisclosureInv'
    <3>1. /\ round'.nominated = c /\ c \in round.eligible /\ round'.stage = "NOMINATED"
          /\ work'.nominee = c /\ work'.batch = work.batch
      BY <1>0, <2>3 DEF Nominate, JournalTyped, LoopTyped, Rounds
    <3> QED BY <2>1, <2>3, <3>1 DEF DisclosureInv, RoundShape, DisclosedBefore, NoGateResultTwice,
               Running, Pooled, Gating
  <2> QED BY <1>8, <2>2, <2>3 DEF NominateBest
<1>9. CASE FinishEmpty \/ RejectOutput \/ Foreign
  <2>1. CASE round' = NoRound
    <3>1. count'.completed \in Nat /\ count'.completed >= count.completed
      <4>1. count' = count \/ count' = EmptyCounted
        BY <1>9 DEF FinishEmpty, CompleteEmpty, RejectOutput, Foreign, InvalidateSearch
      <4>2. count.completed \in Nat
        BY <1>0 DEF JournalTyped, Counters
      <4>3. EmptyCounted.completed = count.completed + 1
        BY <1>0 DEF EmptyCounted, JournalTyped, Counters
      <4> QED BY <4>1, <4>2, <4>3
    <3>2. /\ UNCHANGED <<seen, disclosed, parent>>
          /\ \/ pc' \in {"LOOP", "RAISED"} /\ (pc' \in Running => pc \in Running)
             \/ pc' = pc /\ work' = work
      BY <1>9 DEF FinishEmpty, CompleteEmpty, RejectOutput, Foreign, InvalidateSearch, Running
    <3> QED BY <2>1, <3>1, <3>2, RoundGone
  <2>2. CASE Foreign /\ UNCHANGED searchVars
    BY <2>2, RoundStands DEF Foreign
  <2> QED BY <1>9, <2>1, <2>2 DEF FinishEmpty, CompleteEmpty, RejectOutput, Foreign, InvalidateSearch
<1>10. CASE FinishNominated
  <2> DEFINE a == authorized[work.nominee]
  <2>1. CompleteNominated(a) /\ pc = "COMPLETE" /\ pc' = "LOOP" /\ UNCHANGED <<work, seen, parent>>
    BY <1>10 DEF FinishNominated
  <2>2. PICK d : disclosed' = Append(disclosed, d) /\ d.candidate = round.nominated
    BY <2>1 DEF CompleteNominated, Disclose
  <2>3. /\ round.nominated = work.nominee /\ work.nominee \in work.batch
        /\ work.batch \subseteq seen
    BY <2>1 DEF CompleteNominated, Active, DisclosureInv, RoundShape, Gating, Pooled
  <2>4. /\ round'.pool = {} /\ round'.eligible = {} /\ round'.nominated = Absent
        /\ Absent \notin Candidates
    BY <2>1, SeedAssumption DEF CompleteNominated, NoRound, SeedAssumption
  <2>5. count'.completed = count.completed + 1 /\ count.completed \in Nat
    BY <1>0, <2>1 DEF CompleteNominated, NominationCounted, JournalTyped, Counters
  <2>6. /\ Len(disclosed) \in Nat /\ DOMAIN disclosed = 1 .. Len(disclosed)
        /\ Len(disclosed') = Len(disclosed) + 1 /\ DOMAIN disclosed' = 1 .. Len(disclosed) + 1
        /\ \A i \in DOMAIN disclosed : disclosed'[i] = disclosed[i]
        /\ disclosed'[Len(disclosed) + 1] = d
    BY <1>0, <2>2 DEF JournalTyped
  <2>7. \A i \in DOMAIN disclosed : disclosed[i].candidate # work.nominee
    BY <2>1, <2>3 DEF DisclosureInv, DisclosedBefore, Pooled
  <2>8. NoGateResultTwice'
    BY <2>2, <2>3, <2>6, <2>7 DEF DisclosureInv, NoGateResultTwice
  <2>9. DisclosedBefore'
    BY <2>1, <2>2, <2>3, <2>5, <2>6 DEF DisclosureInv, DisclosedBefore, Running, Pooled
  <2> QED BY <2>1, <2>4, <2>8, <2>9 DEF DisclosureInv, RoundShape, Pooled, Gating
<1>11. CASE NewLoop
  <2>1. CASE UNCHANGED searchVars
    BY <1>11, <2>1
       DEF NewLoop, DisclosureInv, RoundShape, DisclosedBefore, NoGateResultTwice, Running, Pooled,
           Gating
  <2>2. CASE NewSearch
    <3>1. /\ round'.pool = {} /\ round'.eligible = {} /\ round'.nominated = Absent
          /\ Absent \notin Candidates /\ disclosed' = <<>> /\ count'.completed = 0
          /\ pc' = "BEGIN"
      BY <1>11, <2>2, SeedAssumption DEF NewLoop, NewSearch, NoRound, NothingCounted, SeedAssumption
    <3>2. DOMAIN disclosed' = {} /\ Len(disclosed') = 0
      BY <3>1
    <3> QED BY <3>1, <3>2 DEF DisclosureInv, RoundShape, DisclosedBefore, NoGateResultTwice, Running,
                 Pooled, Gating
  <2> QED BY <1>11, <2>1, <2>2 DEF NewLoop
<1> QED BY <1>1, <1>2, <1>3, <1>4, <1>5, <1>6, <1>7, <1>8, <1>9, <1>10, <1>11, <1>12
        DEF Next, LoopStep

-----------------------------------------------------------------------------
(* Decisions, closing and issuing                                          *)

(* A promoted candidate is or was the champion, whoever promotes next, and  *)
(* a result is issued only behind both closures.                           *)
LEMMA ClosingStep ==
  ASSUME IInv, [Next]_vars PROVE ClosingInv'
<1> USE DEF IInv, ClosingInv
<1>0. TypeOK /\ AuthorizedTyped /\ ClosedBefore
  OBVIOUS
<1>1. CASE UNCHANGED vars
  BY <1>1 DEF vars, AuthorizedTyped, ClosedBefore
<1>2. CASE \/ Prepare \/ Enter \/ BeginRound \/ Feedback \/ Diagnose \/ Propose \/ Screen
           \/ NominateBest \/ FinishEmpty \/ ReuseDecision \/ FinishNominated \/ RejectOutput
           \/ Displaced \/ CallFails \/ NewLoop \/ PayGate
  <2>1. UNCHANGED <<authorized, phase, leader, past, result>>
    BY <1>2 DEF Prepare, Enter, BeginRound, Feedback, Diagnose, Propose, Screen, NominateBest,
         FinishEmpty, ReuseDecision, FinishNominated, RejectOutput, Displaced, CallFails, NewLoop,
         PayGate, Experiment!Spend
  <2>2. pc' \notin {"SELECT", "ISSUE"}
    BY <1>2 DEF Prepare, Enter, BeginRound, Feedback, Diagnose, Propose, Screen, NominateBest,
         FinishEmpty, ReuseDecision, FinishNominated, RejectOutput, Displaced, CallFails, NewLoop,
         PayGate
  <2> QED BY <2>1, <2>2 DEF AuthorizedTyped, ClosedBefore
<1>3. CASE DecideGate
  <2> DEFINE c == work.nominee
  <2>1. PICK t \in GateOutcomes :
          /\ authorized' = [authorized EXCEPT ![c] = Decision(c, t)]
          /\ \/ t # "PROMOTED" /\ UNCHANGED experimentVars
             \/ leader' = c /\ past' = past \cup {leader} /\ UNCHANGED phase
    BY <1>3 DEF DecideGate, GateOutcomes, Experiment!Advance
  <2>2. c \in Candidates /\ parent[c] \in Lineage
    BY <1>3, NomineeTyped DEF DecideGate, DisclosureInv, RoundShape, Gating
  <2>3. Decision(c, t) \in Terminal /\ Decision(c, t).candidate = c /\ Decision(c, t).terminal = t
    BY <2>2 DEF Decision, Terminal, TypeOK
  <2>4. /\ authorized'[c] = Decision(c, t)
        /\ \A d \in Candidates \ {c} : authorized'[d] = authorized[d]
        /\ authorized' \in [Candidates -> Terminal \cup {Absent}]
    BY <2>1, <2>2, <2>3 DEF AuthorizedTyped
  <2>5. pc' = "COMPLETE" /\ UNCHANGED <<result, phase>>
    BY <1>3, <2>1 DEF DecideGate
  <2> HIDE DEF c
  <2>6. AuthorizedTyped'
    BY <2>3, <2>4 DEF AuthorizedTyped
  <2>7. ASSUME NEW d \in Candidates, authorized'[d] # Absent, authorized'[d].terminal = "PROMOTED"
        PROVE  d \in (past \cup {leader})'
    BY <2>1, <2>3, <2>4, <2>7 DEF ClosedBefore
  <2> QED BY <2>5, <2>6, <2>7 DEF ClosedBefore
<1>4. CASE CloseSelection
  BY <1>4 DEF CloseSelection, CloseSearch, AuthorizedTyped, ClosedBefore
<1>5. CASE CloseExperiment
  BY <1>5 DEF CloseExperiment, Experiment!Select, AuthorizedTyped, ClosedBefore
<1>6. CASE Issue
  BY <1>6 DEF Issue, AuthorizedTyped, ClosedBefore
<1>7. CASE Foreign
  BY <1>7 DEF Foreign, Experiment!Advance, Experiment!Select, Experiment!Void, InvalidateSearch,
       AuthorizedTyped, ClosedBefore
<1> QED BY <1>1, <1>2, <1>3, <1>4, <1>5, <1>6, <1>7 DEF Next, LoopStep

-----------------------------------------------------------------------------
(* Theorems                                                                *)

(* The loop starts with nothing proposed, charged, disclosed or decided.    *)
LEMMA InitHolds == Init => IInv
<1> SUFFICES ASSUME Init PROVE IInv
  OBVIOUS
<1> USE DEF Init, InitAt, SearchInit
<1>1. /\ Absent \notin Candidates
      /\ round.pool = {} /\ round.eligible = {} /\ round.nominated = Absent
      /\ count.completed = 0 /\ count.nominations = 0
      /\ used.diagnoses = 0 /\ used.proposals = 0 /\ used.screens = 0 /\ used.calls = 0
  BY SeedAssumption DEF SeedAssumption, NoRound, NothingCounted, NothingUsed
<1>2. JournalTyped /\ LoopTyped /\ ExperimentTyped
  BY NothingTyped DEF JournalTyped, LoopTyped, ExperimentTyped, States, Harnesses, Lineage,
       NoWork, NothingUsed
<1>3. TypeOK
  BY <1>2, TypeParts
<1>4. SpendingCharged /\ spent <= loops * manifest.nominations
  <2>1. manifest.nominations \in Nat
    BY <1>3, PolicyTyped DEF TypeOK
  <2>2. Earlier = 0 /\ loops * manifest.nominations = manifest.nominations
    BY <2>1 DEF Earlier
  <2> QED BY <1>1, <2>1, <2>2 DEF SpendingCharged, Running
<1>5. BudgetInv
  BY <1>1, <1>3, <1>4, PolicyTyped DEF BudgetInv, BudgetsHold, CallsCharged, Pooled, InRound, TypeOK
<1>6. DisclosureInv
  BY <1>1 DEF DisclosureInv, RoundShape, DisclosedBefore, NoGateResultTwice, Running, Pooled,
       Gating
<1>7. ClosingInv
  BY DEF ClosingInv, AuthorizedTyped, ClosedBefore
<1> QED BY <1>3, <1>5, <1>6, <1>7 DEF IInv

(* The inductive invariant of the loop, its journal and its experiment.     *)
LEMMA LoopInvariant == Spec => []IInv
<1>1. IInv /\ [Next]_vars => TypeOK'
  BY JournalTypes, LoopTypes, ExperimentTypes
     DEF TypeOK, JournalTyped, LoopTyped, ExperimentTyped
<1>2. IInv /\ [Next]_vars => IInv'
  BY <1>1, BudgetStep, DisclosureStep, ClosingStep DEF IInv
<1> QED BY InitHolds, <1>2, PTL DEF Spec

(* Types and budgets: no loop takes more gate evaluations, proposals,       *)
(* diagnoses, screens or optimizer calls than its frozen policy allows,     *)
(* whatever the runtime, the plugin and other holders do (orchestrator.py,  *)
(* AutomaticSearchController.run).                                         *)
THEOREM LoopBudgets == Spec => []LoopInv
<1>1. IInv => LoopInv
  BY DEF IInv, BudgetInv, LoopInv
<1> QED BY LoopInvariant, <1>1, PTL

(* A gate result is disclosed to the optimizer once in a search.            *)
THEOREM GateResultsCountOnce == Spec => []NoGateResultTwice
<1>1. IInv => NoGateResultTwice
  BY DEF IInv, DisclosureInv
<1> QED BY LoopInvariant, <1>1, PTL

-----------------------------------------------------------------------------
(* The loop implements SearchRun                                           *)

USE DEF Promise!Promote, Promise!Follow, Promise!CloseSearch, Promise!VoidSearch,
        Promise!SearchAgain, Promise!CloseExperiment, Promise!VoidExperiment, Promise!Issue,
        Promise!vars

(* The initial states agree.                                               *)
LEMMA PromiseInit == Init => Promise!Init
BY DEF Init, InitAt, SearchInit, Promise!Init

(* Every step of the loop is one that SearchRun allows.                     *)
LEMMA PromiseStep ==
  ASSUME IInv, [Next]_vars PROVE [Promise!Next]_Promise!vars
<1> USE DEF IInv, Promise!Next
<1>1. CASE \/ UNCHANGED vars \/ Enter \/ Diagnose \/ ReuseDecision \/ PayGate \/ Displaced
           \/ CallFails
  BY <1>1 DEF vars, Enter, Diagnose, ReuseDecision, PayGate, Displaced, CallFails,
       Experiment!Spend
<1>2. CASE Prepare
  BY <1>2 DEF Prepare, FreezeSearch, StartSearch
<1>3. CASE BeginRound \/ Feedback \/ Propose \/ Screen \/ NominateBest \/ FinishEmpty
  BY <1>3 DEF BeginRound, OpenRound, Feedback, RecordEvidence, Propose, Materialize, RecordPool,
       Screen, RecordScreen, NominateBest, Nominate, RecordNoCandidate, FinishEmpty, CompleteEmpty
<1>4. CASE DecideGate
  BY <1>4 DEF DecideGate, Experiment!Advance
<1>5. CASE FinishNominated
  <2> DEFINE a == authorized[work.nominee]
  <2>1. CompleteNominated(a) /\ QuietExperiment /\ Quiet
    BY <1>5 DEF FinishNominated
  <2>2. state = "SEARCHING" /\ state' = "SEARCHING"
    BY <2>1 DEF CompleteNominated, Active
  <2>3. CASE a.terminal # "PROMOTED"
    BY <2>1, <2>2, <2>3 DEF CompleteNominated
  <2>4. CASE a.terminal = "PROMOTED"
    <3>1. work.nominee \in Candidates
      BY <1>5, NomineeTyped DEF FinishNominated, DisclosureInv, Gating
    <3>2. a # Absent /\ a.candidate = round.nominated
      BY <2>1 DEF CompleteNominated, Authorizes
    <3>3. a.candidate = work.nominee /\ work.nominee \in past \cup {leader}
      BY <2>4, <3>1, <3>2 DEF ClosingInv, AuthorizedTyped, ClosedBefore
    <3>4. champion' = round.nominated
      BY <2>1, <2>4 DEF CompleteNominated
    <3> QED BY <2>1, <2>2, <3>2, <3>3, <3>4
  <2> QED BY <2>3, <2>4
<1>6. CASE RejectOutput
  BY <1>6 DEF RejectOutput, InvalidateSearch, TypeOK, States
<1>7. CASE CloseSelection
  BY <1>7 DEF CloseSelection, CloseSearch, IdleSearch
<1>8. CASE CloseExperiment
  BY <1>8 DEF CloseExperiment, Experiment!Select
<1>9. CASE Issue
  BY <1>9 DEF Issue, ClosingInv, ClosedBefore
<1>10. CASE NewLoop
  BY <1>10 DEF NewLoop, NewSearch
<1>11. CASE Foreign
  BY <1>11 DEF Foreign, Experiment!Advance, Experiment!Select, Experiment!Void, InvalidateSearch
<1> QED BY <1>1, <1>2, <1>3, <1>4, <1>5, <1>6, <1>7, <1>8, <1>9, <1>10, <1>11
        DEF Next, LoopStep

(* The loop, its journal and its experiment keep the promise: the search    *)
(* selects champions of the experiment only, a closed selection stands, and *)
(* one result is issued over two closures that agree.                      *)
THEOREM LoopKeepsPromise == Spec => PromiseKept
<1>1. Spec => Promise!Init /\ [][Promise!Next]_Promise!vars
  BY PromiseInit, PromiseStep, LoopInvariant, PTL DEF Spec
<1> QED BY <1>1 DEF PromiseKept, Promise!Spec

-----------------------------------------------------------------------------
(* Score feedback                                                          *)

\* What an attested round keeps of the projection it was stored by.
RoundAttested(chain, n) ==
  /\ chain[n].block \in Blocks /\ BlockInOrder(chain[n], n)
  /\ chain[n].exploration.tasks = ExplorationTasks
  /\ chain[n].gate.tasks = BlockTasks(chain[n].block)
  /\ chain[n].gate.query = shared.blocks[chain[n].block].query
  /\ chain[n].champion = OutputChampion(chain[n], AuthorizedParent(chain, n))

ChainStands(chain) ==
  /\ \E S : chain \in Seq(S)
  /\ \A n \in DOMAIN chain : RoundAttested(chain, n)

\* Ledgers move at any time, but what was stored stays as it projected.
FeedbackInv == FeedbackTypeOK /\ \A chain \in stored : ChainStands(chain)

\* The rounds up to the n-th that promoted, and the champion they leave.
Won(chain, n) == {i \in 1 .. n : PerformanceDecision(chain[i].gate.measure) = "PROMOTE"}

WonChampion(chain, n) ==
  IF Won(chain, n) = {} THEN SeedHarness
  ELSE chain[CHOOSE i \in Won(chain, n) : \A j \in Won(chain, n) : j <= i].gate.candidate

(* A round that projects on a chain that stands makes a chain that stands.  *)
LEMMA ChainGrows ==
  ASSUME NEW chain, ChainStands(chain), NEW last, last.block \in Blocks,
         RoundProjects(Append(chain, last), Len(chain) + 1)
  PROVE  ChainStands(Append(chain, last))
<1> DEFINE longer == Append(chain, last)
           k == Len(chain)
<1>1. PICK S : chain \in Seq(S)
  BY DEF ChainStands
<1>2. chain \in Seq(S \cup {last})
  BY <1>1, SeqMonotonic
<1>3. /\ longer \in Seq(S \cup {last}) /\ Len(longer) = k + 1 /\ longer[k + 1] = last
      /\ \A i \in 1 .. k : longer[i] = chain[i]
  BY <1>2, AppendProperties
<1>4. k \in Nat /\ DOMAIN chain = 1 .. k /\ DOMAIN longer = 1 .. k + 1
  BY <1>2, <1>3, LenProperties
<1>5. RoundProjects(longer, k + 1)
  OBVIOUS
<1> HIDE DEF longer, k
<1>6. RoundAttested(longer, k + 1)
  BY <1>3, <1>5 DEF RoundProjects, ClosureHolds, ScheduleMatches, RoundAttested
<1>7. ASSUME NEW n \in 1 .. k PROVE RoundAttested(longer, n)
  <2>1. longer[n] = chain[n] /\ (n # 1 => longer[n - 1] = chain[n - 1])
    BY <1>3, <1>4
  <2>2. AuthorizedParent(longer, n) = AuthorizedParent(chain, n)
    BY <2>1 DEF AuthorizedParent
  <2>3. RoundAttested(chain, n)
    BY <1>4 DEF ChainStands
  <2> QED BY <2>1, <2>2, <2>3 DEF RoundAttested
<1>8. \A n \in DOMAIN longer : RoundAttested(longer, n)
  BY <1>4, <1>6, <1>7
<1>9. ChainStands(longer)
  BY <1>3, <1>8 DEF ChainStands
<1> QED BY <1>9 DEF longer

(* The coordinates of the run are frozen, and so is what a chain stands on.  *)
LEMMA ChainStays ==
  ASSUME NEW chain, ChainStands(chain), UNCHANGED shared PROVE ChainStands(chain)'
BY DEF ChainStands, RoundAttested, BlockInOrder, Blocks, BlockTasks

(* Every step keeps the stored chains standing.                             *)
LEMMA FeedbackStep ==
  ASSUME FeedbackInv, [FeedbackNext]_feedbackVars PROVE FeedbackInv'
<1>1. CASE Evaluate
  <2>1. UNCHANGED <<shared, stored, returned, attesting>> /\ moved' \subseteq objectives'
    BY <1>1 DEF Evaluate, AttestObjective, FeedbackInv, FeedbackTypeOK
  <2> QED BY <2>1, ChainStays DEF FeedbackInv, FeedbackTypeOK
<1>2. CASE LedgerMoves
  <2>1. UNCHANGED <<shared, objectives, stored, returned, attesting>> /\ moved' \subseteq objectives
    BY <1>2 DEF LedgerMoves, FeedbackInv, FeedbackTypeOK
  <2> QED BY <2>1, ChainStays DEF FeedbackInv, FeedbackTypeOK
<1>3. CASE StoreAttestation
  <2>1. PICK prior \in stored \cup {<<>>}, exploration \in objectives, gate \in objectives,
             b \in Blocks :
          LET hands == IF prior = <<>> THEN SeedHarness ELSE Last(prior).champion
              longer == Append(prior, FeedbackRound(exploration, gate, b, hands))
          IN  /\ RoundProjects(longer, Len(prior) + 1)
              /\ stored' = stored \cup {longer} /\ attesting' = longer
    BY <1>3 DEF StoreAttestation
  <2> DEFINE last == FeedbackRound(exploration, gate, b,
                                  IF prior = <<>> THEN SeedHarness ELSE Last(prior).champion)
  <2>2. last.block = b
    BY DEF FeedbackRound
  <2>3. /\ RoundProjects(Append(prior, last), Len(prior) + 1)
        /\ stored' = stored \cup {Append(prior, last)} /\ attesting' = Append(prior, last)
    BY <2>1
  <2> HIDE DEF last
  <2>4. UNCHANGED <<shared, objectives, moved, returned>>
    BY <1>3 DEF StoreAttestation
  <2>5. ChainStands(prior)
    <3>1. ChainStands(<<>>)
      BY EmptySeq DEF ChainStands
    <3> QED BY <3>1 DEF FeedbackInv
  <2>6. ChainStands(Append(prior, last))
    BY <2>2, <2>3, <2>5, ChainGrows
  <2>7. \A chain \in stored' : ChainStands(chain)'
    BY <2>3, <2>4, <2>6, ChainStays DEF FeedbackInv
  <2>8. FeedbackTypeOK'
    BY <2>3, <2>4 DEF FeedbackInv, FeedbackTypeOK
  <2> QED BY <2>7, <2>8 DEF FeedbackInv
<1>4. CASE CloseAttestation
  <2>1. /\ UNCHANGED <<shared, objectives, moved, stored>> /\ attesting' = Unused
        /\ returned' \subseteq returned \cup {attesting} /\ attesting # Unused
    BY <1>4 DEF CloseAttestation
  <2> QED BY <2>1, ChainStays DEF FeedbackInv, FeedbackTypeOK
<1>5. CASE UNCHANGED feedbackVars
  BY <1>5, ChainStays DEF feedbackVars, FeedbackInv, FeedbackTypeOK
<1> QED BY <1>1, <1>2, <1>3, <1>4, <1>5 DEF FeedbackNext

(* The blocks are numbered from one, and the n-th round is gated on the     *)
(* n-th block.                                                             *)
LEMMA BlockOfRound ==
  ASSUME FeedbackInv, NEW chain \in stored, NEW n \in DOMAIN chain
  PROVE  n \in Nat \ {0} /\ n \in Blocks /\ chain[n].block = n /\ RoundAttested(chain, n)
<1>1. ChainStands(chain) /\ shared \in SharedOptions
  BY DEF FeedbackInv, FeedbackTypeOK
<1>2. RoundAttested(chain, n)
  BY <1>1 DEF ChainStands
<1>3. Blocks = 1 .. shared.ceilings.nominations /\ shared.ceilings.nominations \in Nat
  BY <1>1, FeedbackAssumption DEF Blocks
<1>4. n \in Nat \ {0}
  BY <1>1, LenProperties DEF ChainStands
<1>5. chain[n].block \in Nat /\ n = (chain[n].block - 1) + 1 /\ chain[n].block \in Blocks
  BY <1>2, <1>3 DEF RoundAttested, BlockInOrder
<1> QED BY <1>2, <1>4, <1>5

(* Two rounds of an admitted run share no ground.                           *)
LEMMA RoundsApart ==
  ASSUME FeedbackInv, BlocksFresh(shared.blocks), NEW chain \in stored,
         NEW i \in DOMAIN chain, NEW j \in DOMAIN chain
  PROVE  /\ chain[i].gate.tasks \cap chain[j].exploration.tasks = {}
         /\ i # j => /\ FamiliesOf(chain[i]) \cap FamiliesOf(chain[j]) = {}
                     /\ chain[i].gate # chain[j].gate
<1>1. /\ i \in Nat \ {0} /\ i \in Blocks /\ chain[i].block = i /\ RoundAttested(chain, i)
      /\ j \in Nat \ {0} /\ j \in Blocks /\ chain[j].block = j /\ RoundAttested(chain, j)
  BY BlockOfRound
<1>2. chain[i].gate.tasks \cap chain[j].exploration.tasks = {}
  BY <1>1 DEF BlocksFresh, Blocks, BlockTasks, RoundAttested
<1>3. ASSUME i # j PROVE FamiliesOf(chain[i]) \cap FamiliesOf(chain[j]) = {}
  <2>1. Unrelated(shared.blocks[i], shared.blocks[j]) \/ Unrelated(shared.blocks[j], shared.blocks[i])
    BY <1>1, <1>3 DEF BlocksFresh, Blocks
  <2>2. FamiliesOf(chain[i]) = CoordinatesOf(shared.blocks[i], "family")
        /\ FamiliesOf(chain[j]) = CoordinatesOf(shared.blocks[j], "family")
    BY <1>1 DEF FamiliesOf
  <2> QED BY <2>1, <2>2 DEF Unrelated
<1>4. ASSUME i # j PROVE chain[i].gate # chain[j].gate
  <2>1. chain[i].gate.query = i - 1 /\ chain[j].gate.query = j - 1
    BY <1>1 DEF BlocksFresh, Blocks, RoundAttested
  <2> QED BY <1>1, <1>4, <2>1
<1> QED BY <1>2, <1>3, <1>4

(* A nonempty set of numbers has a least element.                           *)
LEMMA LeastNumber ==
  ASSUME NEW T, T \subseteq Nat, T # {} PROVE \E n \in T : \A m \in T : n <= m
<1> DEFINE below == {p \in Nat \X Nat : p[1] < p[2]}
<1>1. IsWellFoundedOn(below, Nat)
  BY NatLessThanWellFounded DEF OpToRel
<1>2. PICK n \in T : \A m \in T : ~(<<m, n>> \in below)
  BY <1>1, WFMin
<1>3. ASSUME NEW m \in T PROVE n <= m
  <2>1. ~(<<m, n>> \in Nat \X Nat /\ <<m, n>>[1] < <<m, n>>[2])
    BY <1>2
  <2> QED BY <2>1
<1> QED BY <1>3

(* The champion of a round is the one of the round before or, if it         *)
(* promoted, its own candidate.                                            *)
LEMMA ChampionHandedOn ==
  ASSUME NEW chain, ChainStands(chain), NEW n \in DOMAIN chain,
         n # 1 => chain[n - 1].champion = WonChampion(chain, n - 1)
  PROVE  chain[n].champion = WonChampion(chain, n)
<1> DEFINE promotes == PerformanceDecision(chain[n].gate.measure) = "PROMOTE"
<1>1. n \in Nat \ {0}
  BY LenProperties DEF ChainStands
<1>2. chain[n].champion = IF promotes THEN chain[n].gate.candidate ELSE AuthorizedParent(chain, n)
  BY DEF ChainStands, RoundAttested, OutputChampion
<1>3. AuthorizedParent(chain, n) = IF n = 1 THEN SeedHarness ELSE chain[n - 1].champion
  BY DEF AuthorizedParent
<1>4. CASE promotes
  <2>1. n \in Won(chain, n) /\ \A i \in Won(chain, n) : i \in Nat /\ i <= n
    BY <1>1, <1>4 DEF Won
  <2> DEFINE latest == CHOOSE i \in Won(chain, n) : \A j \in Won(chain, n) : j <= i
  <2>2. latest \in Won(chain, n) /\ \A j \in Won(chain, n) : j <= latest
    BY <2>1
  <2> HIDE DEF latest
  <2>3. latest = n
    BY <1>1, <2>1, <2>2
  <2> USE DEF latest
  <2>4. WonChampion(chain, n) = chain[latest].gate.candidate
    BY <2>1 DEF WonChampion
  <2> HIDE DEF latest
  <2> QED BY <1>2, <1>4, <2>3, <2>4
<1>5. CASE ~promotes /\ n = 1
  <2>1. Won(chain, n) = {}
    BY <1>5 DEF Won
  <2> QED BY <1>2, <1>3, <1>5, <2>1 DEF WonChampion
<1>6. CASE ~promotes /\ n # 1
  <2>1. Won(chain, n) = Won(chain, n - 1)
    BY <1>1, <1>6 DEF Won
  <2>2. WonChampion(chain, n) = WonChampion(chain, n - 1)
    BY <2>1 DEF WonChampion
  <2> QED BY <1>2, <1>3, <1>6, <2>2
<1> QED BY <1>4, <1>5, <1>6

(* Every champion of a chain was won in the last round that promoted.       *)
LEMMA ChampionsWon ==
  ASSUME NEW chain, ChainStands(chain)
  PROVE  \A n \in DOMAIN chain : chain[n].champion = WonChampion(chain, n)
<1> DEFINE wrong == {n \in DOMAIN chain : chain[n].champion # WonChampion(chain, n)}
<1>1. DOMAIN chain = 1 .. Len(chain) /\ Len(chain) \in Nat
  BY LenProperties DEF ChainStands
<1>2. CASE wrong # {}
  <2>1. PICK n \in wrong : \A m \in wrong : n <= m
    <3>1. wrong \subseteq Nat
      BY <1>1
    <3> QED BY <1>2, <3>1, LeastNumber
  <2>2. n \in DOMAIN chain /\ n \in Nat /\ (n # 1 => n - 1 \in DOMAIN chain /\ ~(n <= n - 1))
    BY <1>1, <2>1
  <2>3. n # 1 => chain[n - 1].champion = WonChampion(chain, n - 1)
    BY <2>1, <2>2
  <2> QED BY <2>1, <2>2, <2>3, ChampionHandedOn
<1> QED BY <1>2

(* Whatever batches were attested, slipped or lost their ledgers, returned  *)
(* feedback of an admitted run was won on fresh ground, and its champion is *)
(* the candidate of the last round that promoted                           *)
(* (score_feedback_attestation.py, matched_v2.py).                         *)
THEOREM FeedbackStaysFresh == FeedbackSpec => []FeedbackIsFresh
<1>1. FeedbackInit => FeedbackInv
  BY DEF FeedbackInit, FeedbackInv, FeedbackTypeOK
<1>2. FeedbackInv /\ [FeedbackNext]_feedbackVars => FeedbackInv'
  BY FeedbackStep
<1>3. FeedbackInv => FeedbackIsFresh
  <2> SUFFICES ASSUME FeedbackInv, Admitted, NEW chain \in returned
               PROVE  /\ \A i, j \in DOMAIN chain :
                           /\ chain[i].gate.tasks \cap chain[j].exploration.tasks = {}
                           /\ i # j => /\ FamiliesOf(chain[i]) \cap FamiliesOf(chain[j]) = {}
                                       /\ chain[i].gate # chain[j].gate
                      /\ \A n \in DOMAIN chain : chain[n].champion = WonChampion(chain, n)
    BY DEF FeedbackIsFresh, FeedbackInv, WonChampion, Won
  <2>1. chain \in stored /\ ChainStands(chain)
    BY DEF FeedbackInv, FeedbackTypeOK
  <2>2. BlocksFresh(shared.blocks)
    BY DEF Admitted, AdmitsStudy
  <2> QED BY <2>1, <2>2, RoundsApart, ChampionsWon
<1> QED BY <1>1, <1>2, <1>3, PTL DEF FeedbackSpec
=============================================================================
