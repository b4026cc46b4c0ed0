------------------------- MODULE FourArmDevelopment -------------------------
(***************************************************************************)
(* experiments/development_four_arm_runner.py with its plan, contracts,    *)
(* execution, artifacts and prompts: one evolution step of two adaptive    *)
(* arms (SCORE sees sums, FULL sees items) from a parent they share,       *)
(* compared on holdout tasks with the parent (STATIC) and with the bare    *)
(* model (PURE).                                                           *)
(*                                                                         *)
(* A call is one action: the trace is the sequence of calls, and each of   *)
(* the two attempt ledgers holds the calls of the trace that are its own.  *)
(* A harness is known by the arm it was published for and its prompt.      *)
(***************************************************************************)
EXTENDS Integers, Sequences, FiniteSets

CONSTANTS BenchmarkOf,  \* benchmark of each task of a split, in canonical order
          Unfrozen,     \* no freeze, no result
          MaxUpsets     \* bound: calls that fail or overrun their ceiling

Benchmarks == {"bbh", "gsm8k"}
ASSUME FourArmAssumption ==
  BenchmarkOf \in Seq(Benchmarks) /\ BenchmarkOf # <<>> /\ MaxUpsets \in Nat

VARIABLES armStage,         \* where run_development_four_arm stands
          trace,            \* call_trace
          overran,          \* attempt ledgers closed by an overrun
          candidateFreeze,  \* the JointCandidateFreeze in the store
          selectionFreeze,  \* the selections in the store
          armResult         \* the closure in the store

armVars == <<armStage, trace, overran, candidateFreeze, selectionFreeze, armResult>>

-----------------------------------------------------------------------------
(* The plan                                                                *)

ArmOrder == <<"PURE", "STATIC", "SCORE", "FULL">>
ArmRoster == {ArmOrder[i] : i \in 1 .. 4}
CandidateArms == {"SCORE", "FULL"}

\* What the three artifacts are, and that Unfrozen is none of them.
Prompts == {"seed", "proposer", "candidate", "bare"}
Conditions == ArmRoster \X Prompts
CandidateFreezes ==
  [sequence : Nat, proposals : [CandidateArms -> [parent : Conditions, condition : Conditions]]]
Selections ==
  [CandidateArms -> [valid : BOOLEAN, parent : [Benchmarks -> Nat],
                     candidate : [Benchmarks -> Nat], promote : BOOLEAN,
                     condition : Conditions]]
SelectionFreezes == [sequence : Nat, selections : Selections]
FourArmClosures ==
  [selections : Selections,
   observed : SUBSET [task : Nat, arm : ArmRoster, condition : Conditions, reference : Nat]]
ASSUME UnfrozenAssumption ==
  Unfrozen \notin CandidateFreezes \cup SelectionFreezes \cup FourArmClosures

\* The fit split and the holdout split have as many tasks of each benchmark.
SplitTasks == Len(BenchmarkOf)
FixedCalls == 6 * SplitTasks + 2
PureCalls == SplitTasks

LedgerOf(arm) == IF arm = "PURE" THEN "PURE" ELSE "FIXED"
Condition(arm, variant) == <<arm, variant>>
Harness(arm, prompt) == [arm |-> arm, prompt |-> prompt]
StaticHarness == Harness("STATIC", "seed")
StaticCondition == Condition("STATIC", "seed")

-----------------------------------------------------------------------------
(* What the calls made so far say                                          *)

CallsOf(phase, arm) == {i \in DOMAIN trace : trace[i].phase = phase /\ trace[i].arm = arm}
ProposalOf(arm) == trace[CHOOSE i \in CallsOf("PROPOSE", arm) : TRUE]
Correct(phase, arm, benchmark) ==
  Cardinality({i \in CallsOf(phase, arm) :
                 trace[i].right /\ BenchmarkOf[trace[i].task] = benchmark})
CorrectIn(phase, arm) == [b \in Benchmarks |-> Correct(phase, arm, b)]

\* score_disclosure shows sums, full_disclosure items; both of the parent's fit.
ScoreDisclosure == CorrectIn("FIT", "STATIC")
FullDisclosure ==
  {[task |-> trace[i].task, right |-> trace[i].right] : i \in CallsOf("FIT", "STATIC")}

SumOf(counts) == counts["bbh"] + counts["gsm8k"]

\* Mutant: a gain in total is enough.
SelectOnTotal(arm, valid) ==
  LET parent == CorrectIn("FIT", "STATIC")  candidate == CorrectIn("CANDIDATE", arm)
      promote == valid /\ SumOf(candidate) > SumOf(parent)
  IN  [valid |-> valid, parent |-> parent, candidate |-> candidate, promote |-> promote,
       condition |-> candidateFreeze.proposals[arm][IF promote THEN "condition" ELSE "parent"]]

\* select_candidate
SelectCandidate(arm, valid) ==
  LET parent == CorrectIn("FIT", "STATIC")  candidate == CorrectIn("CANDIDATE", arm)
      promote == /\ valid
                 /\ \A b \in Benchmarks : candidate[b] >= parent[b]
                 /\ SumOf(candidate) > SumOf(parent)
  IN  [valid |-> valid, parent |-> parent, candidate |-> candidate, promote |-> promote,
       condition |-> candidateFreeze.proposals[arm][IF promote THEN "condition" ELSE "parent"]]

-----------------------------------------------------------------------------
(* Calls                                                                   *)

\* evaluate_fixed, evaluate_pure and execute_proposer: a call that fails is
\* recorded and counts as wrong, one that overruns closes its ledger as well.
\* "right" is the grade of an answer, and of a proposal that it parses; what a
\* holdout answer is worth decides nothing and is left out.  BLANK is a completed
\* answer of white space alone: it is not replaced as a missing one is, and makes
\* a difference to the parent's fit only.
Call(phase, arm, task, condition, harness) ==
  /\ LedgerOf(arm) \notin overran
  /\ \E status \in {"COMPLETED", "BLANK", "FAILED", "OVERRUN"}, right \in BOOLEAN :
       /\ right => status = "COMPLETED"
       /\ status = "BLANK" => phase = "FIT"
       /\ phase = "HOLDOUT" => status # "FAILED" /\ right = (status = "COMPLETED")
       /\ status # "COMPLETED" =>
            Cardinality({i \in DOMAIN trace : trace[i].status # "COMPLETED"}) < MaxUpsets
       /\ trace' = Append(trace, [phase |-> phase, arm |-> arm, task |-> task,
                                  condition |-> condition, harness |-> harness,
                                  status |-> status, right |-> right])
       /\ overran' = IF status = "OVERRUN" THEN overran \cup {LedgerOf(arm)} ELSE overran
  /\ UNCHANGED <<candidateFreeze, selectionFreeze, armResult>>

\* The output directory must be empty, so a run starts once.
StartFourArm ==
  /\ armStage = "IDLE" /\ armStage' = "FIT"
  /\ UNCHANGED <<trace, overran, candidateFreeze, selectionFreeze, armResult>>

\* The parent's answers no FULL disclosure takes.
BlankFits == {i \in CallsOf("FIT", "STATIC") : trace[i].status = "BLANK"}

\* After the last fit task the disclosures are made, which raises over a blank answer.
FitParent ==
  LET task == Cardinality(CallsOf("FIT", "STATIC")) + 1
  IN  /\ armStage = "FIT"
      /\ Call("FIT", "STATIC", task, StaticCondition, StaticHarness)
      /\ armStage' = CASE task < SplitTasks -> "FIT"
                       [] task = SplitTasks /\ BlankFits' = {} -> "PROPOSE"
                       [] task = SplitTasks /\ BlankFits' # {} -> "RAISED"

\* SCORE proposes first; FULL's input does not depend on what it said.
Propose ==
  LET arm == IF CallsOf("PROPOSE", "SCORE") = {} THEN "SCORE" ELSE "FULL"
  IN  /\ armStage = "PROPOSE"
      /\ Call("PROPOSE", arm, 0, Condition(arm, "proposer"), Harness(arm, "proposer"))
      /\ armStage' = IF arm = "FULL" THEN "FREEZE" ELSE "PROPOSE"

\* A proposal that does not parse is frozen too, with the seed prompt.
FreezeProposals ==
  /\ armStage = "FREEZE" /\ armStage' = "CANDIDATE"
  /\ candidateFreeze' =
       [sequence |-> Len(trace),
        proposals |-> [arm \in CandidateArms |->
                         [parent |-> StaticCondition, condition |-> Condition(arm, "candidate")]]]
  /\ UNCHANGED <<trace, overran, selectionFreeze, armResult>>

CandidateHarness(arm) == Harness(arm, IF ProposalOf(arm).right THEN "candidate" ELSE "seed")

FitCandidate ==
  LET arm == IF Cardinality(CallsOf("CANDIDATE", "SCORE")) < SplitTasks THEN "SCORE" ELSE "FULL"
      task == Cardinality(CallsOf("CANDIDATE", arm)) + 1
  IN  /\ armStage = "CANDIDATE"
      /\ Call("CANDIDATE", arm, task, candidateFreeze.proposals[arm].condition,
              CandidateHarness(arm))
      /\ armStage' = IF arm = "FULL" /\ task = SplitTasks THEN "SELECT" ELSE "CANDIDATE"

FreezeSelections ==
  /\ armStage = "SELECT" /\ armStage' = "HOLDOUT"
  /\ selectionFreeze' =
       [sequence |-> Len(trace),
        selections |-> [arm \in CandidateArms |-> SelectCandidate(arm, ProposalOf(arm).right)]]
  /\ UNCHANGED <<trace, overran, candidateFreeze, armResult>>

HoldoutHarness(arm) ==
  IF arm = "PURE" THEN Harness("PURE", "bare")
  ELSE IF arm \in CandidateArms /\ selectionFreeze.selections[arm].promote
       THEN CandidateHarness(arm) ELSE StaticHarness
HoldoutCondition(arm) ==
  CASE arm = "PURE"   -> Condition("PURE", "bare")
    [] arm = "STATIC" -> StaticCondition
    [] OTHER          -> selectionFreeze.selections[arm].condition

\* Each task is held out in all four arms, the first of them rotating.
HeldOut == Cardinality({i \in DOMAIN trace : trace[i].phase = "HOLDOUT"})
HoldoutArm == ArmOrder[(((HeldOut \div 4) + HeldOut) % 4) + 1]
HoldOut ==
  LET task == (HeldOut \div 4) + 1
      arm == HoldoutArm
  IN  /\ armStage = "HOLDOUT"
      /\ Call("HOLDOUT", arm, task, HoldoutCondition(arm), HoldoutHarness(arm))
      /\ armStage' = IF HeldOut + 1 = 4 * SplitTasks THEN "CLOSE" ELSE "HOLDOUT"

\* The ledger of the next call is closed: reserve raises, and there is no retry.
ReserveRefused ==
  /\ armStage \in {"FIT", "PROPOSE", "CANDIDATE", "HOLDOUT"}
  /\ LedgerOf(IF armStage = "HOLDOUT" THEN HoldoutArm ELSE "STATIC") \in overran
  /\ armStage' = "RAISED"
  /\ UNCHANGED <<trace, overran, candidateFreeze, selectionFreeze, armResult>>

-----------------------------------------------------------------------------
(* The closure                                                             *)

AttemptsOn(ledger) == Cardinality({i \in DOMAIN trace : LedgerOf(trace[i].arm) = ledger})

\* DevelopmentArmObservation: one per holdout call, its execution as reference.
Observations ==
  {[task |-> trace[i].task, arm |-> trace[i].arm, condition |-> trace[i].condition,
    reference |-> i] : i \in {j \in DOMAIN trace : trace[j].phase = "HOLDOUT"}}

\* close_exact_development_study, over what the closure holds.
ClosureAccepted(score, full, freeze, selections, observed) ==
  LET ConditionsOf(arm) == {o.condition : o \in {p \in observed : p.arm = arm}}
      fromItems == [b \in Benchmarks |->
                      Cardinality({o \in full : o.right /\ BenchmarkOf[o.task] = b})]
      shared == freeze.proposals["SCORE"].parent
  IN  /\ {o.task : o \in full} = 1 .. SplitTasks
      /\ score = fromItems
      /\ freeze.proposals["FULL"].parent = shared
      /\ \A arm \in CandidateArms :
           LET chosen == selections[arm]  proposal == freeze.proposals[arm]
           IN  /\ chosen.parent = score
               /\ chosen.condition = IF chosen.promote THEN proposal.condition ELSE proposal.parent
               /\ chosen.promote = /\ chosen.valid
                                   /\ SumOf(chosen.candidate) > SumOf(chosen.parent)
                                   /\ \A b \in Benchmarks : chosen.candidate[b] >= chosen.parent[b]
               /\ ConditionsOf(arm) = {chosen.condition}
      /\ Cardinality(observed) = 4 * SplitTasks
      /\ {<<o.task, o.arm>> : o \in observed} = (1 .. SplitTasks) \X ArmRoster
      /\ ConditionsOf("STATIC") = {shared}
      /\ Cardinality(ConditionsOf("PURE")) = 1
      /\ ConditionsOf("PURE") \cap UNION {ConditionsOf(arm) : arm \in ArmRoster \ {"PURE"}} = {}

CloseFourArm ==
  LET selections == selectionFreeze.selections
      closes == /\ AttemptsOn("FIXED") = FixedCalls /\ AttemptsOn("PURE") = PureCalls
                /\ ClosureAccepted(ScoreDisclosure, FullDisclosure, candidateFreeze, selections,
                                   Observations)
  IN  /\ armStage = "CLOSE"
      /\ armStage' = IF closes THEN "DONE" ELSE "RAISED"
      /\ armResult' = IF closes THEN [selections |-> selections, observed |-> Observations]
                      ELSE armResult
      /\ UNCHANGED <<trace, overran, candidateFreeze, selectionFreeze>>

FourArmInit ==
  /\ armStage = "IDLE" /\ trace = <<>> /\ overran = {}
  /\ candidateFreeze = Unfrozen /\ selectionFreeze = Unfrozen /\ armResult = Unfrozen

FourArmNext ==
  \/ StartFourArm \/ FitParent \/ Propose \/ FreezeProposals \/ FitCandidate
  \/ FreezeSelections \/ HoldOut \/ ReserveRefused \/ CloseFourArm

FourArmSpec == FourArmInit /\ [][FourArmNext]_armVars

-----------------------------------------------------------------------------
(* Properties                                                              *)

\* The candidate of an arm parsed and beat the parent on the trace itself,
\* benchmark by benchmark and in total.
EarnedHoldout(arm) ==
  LET Won(b, phase, owner) == {i \in CallsOf(phase, owner) :
                                 trace[i].right /\ BenchmarkOf[trace[i].task] = b}
      gain == [b \in Benchmarks |-> Cardinality(Won(b, "CANDIDATE", arm))
                                      - Cardinality(Won(b, "FIT", "STATIC"))]
  IN  /\ ProposalOf(arm).status = "COMPLETED" /\ ProposalOf(arm).right
      /\ \A b \in Benchmarks : gain[b] >= 0
      /\ \E b \in Benchmarks : gain[b] > 0

\* No candidate is tried before both are frozen, no holdout task is shown before
\* both selections are, and an adaptive arm shows its holdout answers under the
\* harness its condition names: its own only when the calls before it earned it.
HoldoutIsEarned ==
  \A i \in DOMAIN trace :
    LET call == trace[i]
    IN  /\ call.phase = "CANDIDATE" =>
             candidateFreeze # Unfrozen /\ candidateFreeze.sequence < i
        /\ call.phase = "HOLDOUT" =>
             /\ selectionFreeze # Unfrozen /\ selectionFreeze.sequence < i
             /\ call.condition[1] = call.harness.arm
             /\ call.harness.arm \in {call.arm, "STATIC"}
             /\ call.arm \in CandidateArms /\ call.harness.arm = call.arm => EarnedHoldout(call.arm)

\* Two things stop a run, an overrun and a parent's answer of white space when the
\* disclosures are made: whatever else its calls answered or failed with, a run
\* that spent them is never refused by the closure's own rules.
SpentRunCloses ==
  /\ armStage = "RAISED" =>
       overran # {} \/ (Len(trace) = SplitTasks /\ BlankFits # {})
  /\ armStage = "DONE" => armResult # Unfrozen

FourArmStands == HoldoutIsEarned /\ SpentRunCloses
=============================================================================
