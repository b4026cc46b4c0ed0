--------------------------- MODULE DevelopmentProofs ---------------------------
(***************************************************************************)
(* Theorems about the development runs: the four arms, and the repairs of  *)
(* the harness-fault slice.                                                *)
(***************************************************************************)
EXTENDS FourArmDevelopment, FaultDevelopment, FiniteSetTheorems, SequenceTheorems, TLAPS

-----------------------------------------------------------------------------
(* The four-arm run: the trace is the plan, as far as it got               *)

\* A call as the trace records it.
ArmCalls ==
  [phase : {"FIT", "PROPOSE", "CANDIDATE", "HOLDOUT"}, arm : ArmRoster, task : Nat,
   condition : Conditions, harness : [arm : ArmRoster, prompt : Prompts],
   status : {"COMPLETED", "BLANK", "FAILED", "OVERRUN"}, right : BOOLEAN]

\* The arm and the task of the holdout call that follows h others.
ArmAt(h) == ArmOrder[(((h \div 4) + h) % 4) + 1]
TaskAt(h) == (h \div 4) + 1

\* What the plan makes the i-th call.
InPlan(i, call) ==
  /\ i <= SplitTasks => call.phase = "FIT" /\ call.arm = "STATIC" /\ call.task = i
  /\ i = SplitTasks + 1 => call.phase = "PROPOSE" /\ call.arm = "SCORE"
  /\ i = SplitTasks + 2 => call.phase = "PROPOSE" /\ call.arm = "FULL"
  /\ SplitTasks + 2 < i /\ i <= 2 * SplitTasks + 2 =>
       call.phase = "CANDIDATE" /\ call.arm = "SCORE"
  /\ 2 * SplitTasks + 2 < i /\ i <= 3 * SplitTasks + 2 =>
       call.phase = "CANDIDATE" /\ call.arm = "FULL"
  /\ 3 * SplitTasks + 2 < i =>
       /\ call.phase = "HOLDOUT"
       /\ call.arm = ArmAt(i - (3 * SplitTasks + 3))
       /\ call.task = TaskAt(i - (3 * SplitTasks + 3))

TraceTyped ==
  /\ trace \in Seq(ArmCalls)
  /\ \A i \in DOMAIN trace : trace[i].right => trace[i].status = "COMPLETED"
TraceInPlan == \A i \in DOMAIN trace : InPlan(i, trace[i])

\* Where the runner stands after how many calls.
StageAtLength ==
  LET n == Len(trace) IN
  /\ armStage \in {"IDLE", "FIT", "PROPOSE", "FREEZE", "CANDIDATE", "SELECT", "HOLDOUT",
                   "CLOSE", "DONE", "RAISED"}
  /\ armStage = "IDLE" => n = 0
  /\ armStage = "FIT" => n < SplitTasks
  /\ armStage = "PROPOSE" => SplitTasks <= n /\ n < SplitTasks + 2
  /\ armStage = "FREEZE" => n = SplitTasks + 2
  /\ armStage = "CANDIDATE" => SplitTasks + 2 <= n /\ n < 3 * SplitTasks + 2
  /\ armStage = "SELECT" => n = 3 * SplitTasks + 2
  /\ armStage = "HOLDOUT" => 3 * SplitTasks + 2 <= n /\ n < 7 * SplitTasks + 2
  /\ armStage \in {"CLOSE", "DONE"} => n = 7 * SplitTasks + 2

\* What the two freezes hold, once they are there.
PlannedFreeze ==
  [sequence |-> SplitTasks + 2,
   proposals |-> [arm \in CandidateArms |->
                    [parent |-> StaticCondition, condition |-> Condition(arm, "candidate")]]]
PlannedSelections ==
  [sequence |-> 3 * SplitTasks + 2,
   selections |-> [arm \in CandidateArms |-> SelectCandidate(arm, ProposalOf(arm).right)]]

FreezesStand ==
  /\ Len(trace) > SplitTasks + 2 \/ armStage \in {"CANDIDATE", "SELECT", "HOLDOUT", "CLOSE", "DONE"}
       => candidateFreeze = PlannedFreeze
  /\ Len(trace) > 3 * SplitTasks + 2 \/ armStage \in {"HOLDOUT", "CLOSE", "DONE"}
       => selectionFreeze = PlannedSelections

\* A holdout call runs what the selections make of its arm.
HoldoutsRecorded ==
  \A arm \in ArmRoster, i \in DOMAIN trace : i > 3 * SplitTasks + 2 /\ trace[i].arm = arm =>
    /\ trace[i].condition = HoldoutCondition(arm)
    /\ trace[i].harness = HoldoutHarness(arm)

FourArmInv ==
  /\ TraceTyped /\ TraceInPlan /\ StageAtLength /\ FreezesStand /\ HoldoutsRecorded
  /\ SpentRunCloses

\* The frozen plan has tasks.
LEMMA PlanSize ==
  /\ SplitTasks \in Nat /\ SplitTasks > 0
  /\ DOMAIN BenchmarkOf = 1 .. SplitTasks
  /\ BenchmarkOf \in [1 .. SplitTasks -> Benchmarks]
<1>1. BenchmarkOf \in Seq(Benchmarks) /\ BenchmarkOf # <<>>
  BY FourArmAssumption
<1>2. Len(BenchmarkOf) \in Nat /\ Len(BenchmarkOf) # 0
  BY <1>1, EmptySeq, LenProperties
<1>3. QED
  BY <1>1, <1>2, LenProperties DEF SplitTasks

\* The calls of a phase and an arm are an interval of a trace in the plan.
CallsAmong(calls, phase, arm) == {i \in DOMAIN calls : calls[i].phase = phase /\ calls[i].arm = arm}
UpTo(n, last) == IF n <= last THEN n ELSE last
LEMMA CallsAreIntervals ==
  ASSUME NEW calls \in Seq(ArmCalls), \A i \in DOMAIN calls : InPlan(i, calls[i])
  PROVE  LET n == Len(calls)  T == SplitTasks IN
         /\ n \in Nat /\ DOMAIN calls = 1 .. n
         /\ CallsAmong(calls, "FIT", "STATIC") = 1 .. UpTo(n, T)
         /\ CallsAmong(calls, "PROPOSE", "SCORE") = {i \in 1 .. n : i = T + 1}
         /\ CallsAmong(calls, "PROPOSE", "FULL") = {i \in 1 .. n : i = T + 2}
         /\ CallsAmong(calls, "CANDIDATE", "SCORE") = T + 3 .. UpTo(n, 2 * T + 2)
         /\ CallsAmong(calls, "CANDIDATE", "FULL") = 2 * T + 3 .. UpTo(n, 3 * T + 2)
         /\ {i \in DOMAIN calls : calls[i].phase = "HOLDOUT"} = 3 * T + 3 .. n
<1> DEFINE n == Len(calls)
           T == SplitTasks
<1>1. n \in Nat /\ DOMAIN calls = 1 .. n
  BY LenProperties
<1>2. T \in Nat /\ T > 0
  BY PlanSize
<1>3. \A i \in 1 .. n :
        /\ i <= T => calls[i].phase = "FIT" /\ calls[i].arm = "STATIC"
        /\ i = T + 1 => calls[i].phase = "PROPOSE" /\ calls[i].arm = "SCORE"
        /\ i = T + 2 => calls[i].phase = "PROPOSE" /\ calls[i].arm = "FULL"
        /\ T + 2 < i /\ i <= 2 * T + 2 => calls[i].phase = "CANDIDATE" /\ calls[i].arm = "SCORE"
        /\ 2 * T + 2 < i /\ i <= 3 * T + 2 =>
             calls[i].phase = "CANDIDATE" /\ calls[i].arm = "FULL"
        /\ 3 * T + 2 < i => calls[i].phase = "HOLDOUT"
  BY <1>1 DEF InPlan
<1> HIDE DEF n, T
<1>4. CallsAmong(calls, "FIT", "STATIC") = 1 .. UpTo(n, T)
  BY <1>1, <1>2, <1>3 DEF CallsAmong, UpTo
<1>5. CallsAmong(calls, "PROPOSE", "SCORE") = {i \in 1 .. n : i = T + 1}
  BY <1>1, <1>2, <1>3 DEF CallsAmong
<1>6. CallsAmong(calls, "PROPOSE", "FULL") = {i \in 1 .. n : i = T + 2}
  BY <1>1, <1>2, <1>3 DEF CallsAmong
<1>7. CallsAmong(calls, "CANDIDATE", "SCORE") = T + 3 .. UpTo(n, 2 * T + 2)
  BY <1>1, <1>2, <1>3 DEF CallsAmong, UpTo
<1>8. CallsAmong(calls, "CANDIDATE", "FULL") = 2 * T + 3 .. UpTo(n, 3 * T + 2)
  BY <1>1, <1>2, <1>3 DEF CallsAmong, UpTo
<1>9. {i \in DOMAIN calls : calls[i].phase = "HOLDOUT"} = 3 * T + 3 .. n
  BY <1>1, <1>2, <1>3
<1>10. QED
  BY <1>1, <1>4, <1>5, <1>6, <1>7, <1>8, <1>9 DEF n, T

\* The same of the trace of a run.
LEMMA TraceIsIntervals ==
  ASSUME TraceTyped, TraceInPlan
  PROVE  LET n == Len(trace)  T == SplitTasks IN
         /\ n \in Nat /\ DOMAIN trace = 1 .. n
         /\ CallsOf("FIT", "STATIC") = 1 .. UpTo(n, T)
         /\ CallsOf("PROPOSE", "SCORE") = {i \in 1 .. n : i = T + 1}
         /\ CallsOf("PROPOSE", "FULL") = {i \in 1 .. n : i = T + 2}
         /\ CallsOf("CANDIDATE", "SCORE") = T + 3 .. UpTo(n, 2 * T + 2)
         /\ CallsOf("CANDIDATE", "FULL") = 2 * T + 3 .. UpTo(n, 3 * T + 2)
         /\ {i \in DOMAIN trace : trace[i].phase = "HOLDOUT"} = 3 * T + 3 .. n
<1>1. trace \in Seq(ArmCalls) /\ \A i \in DOMAIN trace : InPlan(i, trace[i])
  BY DEF TraceTyped, TraceInPlan
<1>2. \A phase, arm : CallsOf(phase, arm) = CallsAmong(trace, phase, arm)
  BY DEF CallsOf, CallsAmong
<1>3. QED
  BY <1>1, <1>2, CallsAreIntervals

-----------------------------------------------------------------------------
(* What a call adds to the trace                                           *)

\* An append leaves the calls before it where they were.
LEMMA CallEffect ==
  ASSUME TraceTyped, NEW phase \in {"FIT", "PROPOSE", "CANDIDATE", "HOLDOUT"},
         NEW arm \in ArmRoster, NEW task \in Nat, NEW condition \in Conditions,
         NEW harness \in [arm : ArmRoster, prompt : Prompts],
         Call(phase, arm, task, condition, harness)
  PROVE  /\ TraceTyped'
         /\ Len(trace') = Len(trace) + 1 /\ DOMAIN trace' = 1 .. Len(trace) + 1
         /\ DOMAIN trace = 1 .. Len(trace) /\ Len(trace) \in Nat
         /\ \A i \in DOMAIN trace : trace'[i] = trace[i]
         /\ trace'[Len(trace) + 1].phase = phase /\ trace'[Len(trace) + 1].arm = arm
         /\ trace'[Len(trace) + 1].task = task
         /\ trace'[Len(trace) + 1].condition = condition
         /\ trace'[Len(trace) + 1].harness = harness
         /\ UNCHANGED <<candidateFreeze, selectionFreeze, armResult>>
         /\ overran \subseteq overran'
<1>1. PICK status \in {"COMPLETED", "BLANK", "FAILED", "OVERRUN"}, right \in BOOLEAN :
        /\ right => status = "COMPLETED"
        /\ trace' = Append(trace, [phase |-> phase, arm |-> arm, task |-> task,
                                   condition |-> condition, harness |-> harness,
                                   status |-> status, right |-> right])
  BY DEF Call
<1> DEFINE call == [phase |-> phase, arm |-> arm, task |-> task, condition |-> condition,
                    harness |-> harness, status |-> status, right |-> right]
<1>2. call \in ArmCalls /\ (call.right => call.status = "COMPLETED")
  BY <1>1 DEF ArmCalls
<1>3. trace \in Seq(ArmCalls) /\ trace' = Append(trace, call)
  BY <1>1 DEF TraceTyped
<1>4. /\ call.phase = phase /\ call.arm = arm /\ call.task = task
      /\ call.condition = condition /\ call.harness = harness
  OBVIOUS
<1> HIDE DEF call
<1>5. /\ trace' \in Seq(ArmCalls)
      /\ Len(trace') = Len(trace) + 1 /\ DOMAIN trace' = 1 .. Len(trace) + 1
      /\ DOMAIN trace = 1 .. Len(trace) /\ Len(trace) \in Nat
      /\ \A i \in DOMAIN trace : trace'[i] = trace[i]
      /\ trace'[Len(trace) + 1] = call
  BY <1>2, <1>3, AppendProperties, LenProperties
<1>6. TraceTyped'
  BY <1>2, <1>5 DEF TraceTyped
<1>7. UNCHANGED <<candidateFreeze, selectionFreeze, armResult>> /\ overran \subseteq overran'
  BY DEF Call
<1>8. QED
  BY <1>4, <1>5, <1>6, <1>7

\* A call in its place keeps the trace in the plan.
LEMMA PlanExtends ==
  ASSUME TraceInPlan, Len(trace) \in Nat, DOMAIN trace = 1 .. Len(trace),
         DOMAIN trace' = 1 .. Len(trace) + 1,
         \A i \in DOMAIN trace : trace'[i] = trace[i],
         InPlan(Len(trace) + 1, trace'[Len(trace) + 1])
  PROVE  TraceInPlan'
<1>1. \A i \in DOMAIN trace' : i \in DOMAIN trace \/ i = Len(trace) + 1
  OBVIOUS
<1>2. \A i \in DOMAIN trace' : InPlan(i, trace'[i])
  BY <1>1 DEF TraceInPlan
<1>3. QED
  BY <1>2 DEF TraceInPlan, InPlan

-----------------------------------------------------------------------------
(* What the calls of the plan say later on                                 *)

\* Past the selections, a call changes nothing that the calls before them say.
LEMMA SayingsStand ==
  ASSUME TraceTyped, TraceInPlan, TraceTyped', TraceInPlan',
         Len(trace) >= 3 * SplitTasks + 2, Len(trace') = Len(trace) + 1,
         \A i \in DOMAIN trace : trace'[i] = trace[i]
  PROVE  /\ \A arm \in CandidateArms :
              /\ CallsOf("PROPOSE", arm)' = CallsOf("PROPOSE", arm)
              /\ ProposalOf(arm)' = ProposalOf(arm)
              /\ CorrectIn("CANDIDATE", arm)' = CorrectIn("CANDIDATE", arm)
         /\ CorrectIn("FIT", "STATIC")' = CorrectIn("FIT", "STATIC")
<1> DEFINE n == Len(trace)
           T == SplitTasks
<1>1. T \in Nat /\ T > 0
  BY PlanSize
<1>2. /\ n \in Nat /\ DOMAIN trace = 1 .. n /\ n >= 3 * T + 2
      /\ Len(trace') = n + 1
  BY TraceIsIntervals
<1> HIDE DEF T
<1>3. /\ CallsOf("FIT", "STATIC") = 1 .. T
      /\ CallsOf("PROPOSE", "SCORE") = {T + 1}
      /\ CallsOf("PROPOSE", "FULL") = {T + 2}
      /\ CallsOf("CANDIDATE", "SCORE") = T + 3 .. 2 * T + 2
      /\ CallsOf("CANDIDATE", "FULL") = 2 * T + 3 .. 3 * T + 2
  <2>1. /\ CallsOf("FIT", "STATIC") = 1 .. UpTo(n, T)
        /\ CallsOf("PROPOSE", "SCORE") = {i \in 1 .. n : i = T + 1}
        /\ CallsOf("PROPOSE", "FULL") = {i \in 1 .. n : i = T + 2}
        /\ CallsOf("CANDIDATE", "SCORE") = T + 3 .. UpTo(n, 2 * T + 2)
        /\ CallsOf("CANDIDATE", "FULL") = 2 * T + 3 .. UpTo(n, 3 * T + 2)
    BY TraceIsIntervals DEF T
  <2>2. QED
    BY <1>1, <1>2, <2>1 DEF UpTo
<1>4. /\ CallsOf("FIT", "STATIC")' = 1 .. T
      /\ CallsOf("PROPOSE", "SCORE")' = {T + 1}
      /\ CallsOf("PROPOSE", "FULL")' = {T + 2}
      /\ CallsOf("CANDIDATE", "SCORE")' = T + 3 .. 2 * T + 2
      /\ CallsOf("CANDIDATE", "FULL")' = 2 * T + 3 .. 3 * T + 2
  <2>1. trace' \in Seq(ArmCalls) /\ \A i \in DOMAIN trace' : InPlan(i, trace'[i])
    BY DEF TraceTyped, TraceInPlan, InPlan, ArmAt, TaskAt
  <2>2. /\ CallsOf("FIT", "STATIC")' = CallsAmong(trace', "FIT", "STATIC")
        /\ CallsOf("PROPOSE", "SCORE")' = CallsAmong(trace', "PROPOSE", "SCORE")
        /\ CallsOf("PROPOSE", "FULL")' = CallsAmong(trace', "PROPOSE", "FULL")
        /\ CallsOf("CANDIDATE", "SCORE")' = CallsAmong(trace', "CANDIDATE", "SCORE")
        /\ CallsOf("CANDIDATE", "FULL")' = CallsAmong(trace', "CANDIDATE", "FULL")
    BY DEF CallsOf, CallsAmong
  <2>3. LET m == n + 1 IN
        /\ CallsAmong(trace', "FIT", "STATIC") = 1 .. UpTo(m, T)
        /\ CallsAmong(trace', "PROPOSE", "SCORE") = {i \in 1 .. m : i = T + 1}
        /\ CallsAmong(trace', "PROPOSE", "FULL") = {i \in 1 .. m : i = T + 2}
        /\ CallsAmong(trace', "CANDIDATE", "SCORE") = T + 3 .. UpTo(m, 2 * T + 2)
        /\ CallsAmong(trace', "CANDIDATE", "FULL") = 2 * T + 3 .. UpTo(m, 3 * T + 2)
    BY <1>2, <2>1, CallsAreIntervals DEF T
  <2>4. QED
    BY <1>1, <1>2, <2>2, <2>3 DEF UpTo
<1>5. \A i \in 1 .. 3 * T + 2 : trace'[i] = trace[i]
  BY <1>1, <1>2
<1>6. \A arm \in CandidateArms : ProposalOf(arm)' = ProposalOf(arm)
  <2>1. ProposalOf("SCORE") = trace[T + 1] /\ ProposalOf("FULL") = trace[T + 2]
    BY <1>3 DEF ProposalOf
  <2>2. ProposalOf("SCORE")' = trace'[T + 1] /\ ProposalOf("FULL")' = trace'[T + 2]
    BY <1>4 DEF ProposalOf
  <2>3. QED
    BY <1>1, <1>5, <2>1, <2>2 DEF CandidateArms
<1>7. /\ 1 .. T \subseteq 1 .. 3 * T + 2
      /\ T + 3 .. 2 * T + 2 \subseteq 1 .. 3 * T + 2
      /\ 2 * T + 3 .. 3 * T + 2 \subseteq 1 .. 3 * T + 2
  BY <1>1
<1>8. ASSUME NEW b PROVE Correct("FIT", "STATIC", b)' = Correct("FIT", "STATIC", b)
  <2> DEFINE S == 1 .. T
  <2>1. Correct("FIT", "STATIC", b)
          = Cardinality({i \in S : trace[i].right /\ BenchmarkOf[trace[i].task] = b})
    BY <1>3 DEF Correct
  <2>2. Correct("FIT", "STATIC", b)'
          = Cardinality({i \in S : trace'[i].right /\ BenchmarkOf[trace'[i].task] = b})
    BY <1>4 DEF Correct
  <2>3. S \subseteq 1 .. 3 * T + 2
    BY <1>7
  <2> HIDE DEF S
  <2>4. {i \in S : trace'[i].right /\ BenchmarkOf[trace'[i].task] = b}
          = {i \in S : trace[i].right /\ BenchmarkOf[trace[i].task] = b}
    BY <1>5, <2>3
  <2>5. QED
    BY <2>1, <2>2, <2>4
<1>9. ASSUME NEW b PROVE Correct("CANDIDATE", "SCORE", b)' = Correct("CANDIDATE", "SCORE", b)
  <2> DEFINE S == T + 3 .. 2 * T + 2
  <2>1. Correct("CANDIDATE", "SCORE", b)
          = Cardinality({i \in S : trace[i].right /\ BenchmarkOf[trace[i].task] = b})
    BY <1>3 DEF Correct
  <2>2. Correct("CANDIDATE", "SCORE", b)'
          = Cardinality({i \in S : trace'[i].right /\ BenchmarkOf[trace'[i].task] = b})
    BY <1>4 DEF Correct
  <2>3. S \subseteq 1 .. 3 * T + 2
    BY <1>7
  <2> HIDE DEF S
  <2>4. {i \in S : trace'[i].right /\ BenchmarkOf[trace'[i].task] = b}
          = {i \in S : trace[i].right /\ BenchmarkOf[trace[i].task] = b}
    BY <1>5, <2>3
  <2>5. QED
    BY <2>1, <2>2, <2>4
<1>10. ASSUME NEW b PROVE Correct("CANDIDATE", "FULL", b)' = Correct("CANDIDATE", "FULL", b)
  <2> DEFINE S == 2 * T + 3 .. 3 * T + 2
  <2>1. Correct("CANDIDATE", "FULL", b)
          = Cardinality({i \in S : trace[i].right /\ BenchmarkOf[trace[i].task] = b})
    BY <1>3 DEF Correct
  <2>2. Correct("CANDIDATE", "FULL", b)'
          = Cardinality({i \in S : trace'[i].right /\ BenchmarkOf[trace'[i].task] = b})
    BY <1>4 DEF Correct
  <2>3. S \subseteq 1 .. 3 * T + 2
    BY <1>7
  <2> HIDE DEF S
  <2>4. {i \in S : trace'[i].right /\ BenchmarkOf[trace'[i].task] = b}
          = {i \in S : trace[i].right /\ BenchmarkOf[trace[i].task] = b}
    BY <1>5, <2>3
  <2>5. QED
    BY <2>1, <2>2, <2>4
<1>11. QED
  BY <1>3, <1>4, <1>6, <1>8, <1>9, <1>10 DEF CorrectIn, CandidateArms

-----------------------------------------------------------------------------
(* The steps before the holdout                                            *)

\* An action that makes no call leaves the trace and all it says.
LEMMA NoCallStands ==
  ASSUME UNCHANGED trace, TraceTyped, TraceInPlan
  PROVE  TraceTyped' /\ TraceInPlan'
  BY DEF TraceTyped, TraceInPlan, InPlan

\* The empty trace is in the plan.
LEMMA FourArmStarts == FourArmInit => FourArmInv
<1> SUFFICES ASSUME FourArmInit PROVE FourArmInv
  OBVIOUS
<1>1. trace = <<>> /\ Len(trace) = 0 /\ DOMAIN trace = {} /\ trace \in Seq(ArmCalls)
  BY EmptySeq DEF FourArmInit
<1>2. SplitTasks \in Nat /\ SplitTasks > 0
  BY PlanSize
<1>3. TraceTyped /\ TraceInPlan /\ HoldoutsRecorded
  BY <1>1 DEF TraceTyped, TraceInPlan, HoldoutsRecorded
<1>4. StageAtLength /\ FreezesStand /\ SpentRunCloses
  BY <1>1, <1>2 DEF FourArmInit, StageAtLength, FreezesStand, SpentRunCloses
<1>5. QED
  BY <1>3, <1>4 DEF FourArmInv

\* Starting changes the stage alone.
LEMMA StartStep == FourArmInv /\ StartFourArm => FourArmInv'
<1> SUFFICES ASSUME FourArmInv, StartFourArm PROVE FourArmInv'
  OBVIOUS
<1>1. SplitTasks \in Nat /\ SplitTasks > 0
  BY PlanSize
<1>2. TraceTyped' /\ TraceInPlan'
  BY NoCallStands DEF FourArmInv, StartFourArm
<1>3. Len(trace) = 0 /\ Len(trace') = 0 /\ DOMAIN trace' = {}
  BY LenProperties DEF FourArmInv, StartFourArm, StageAtLength, TraceTyped
<1>4. HoldoutsRecorded'
  BY <1>3 DEF HoldoutsRecorded
<1>5. StageAtLength' /\ FreezesStand' /\ SpentRunCloses'
  BY <1>1, <1>3 DEF StartFourArm, StageAtLength, FreezesStand, SpentRunCloses
<1>6. QED
  BY <1>2, <1>4, <1>5 DEF FourArmInv

\* A call of the parent's fit is of the next task.
LEMMA FitParentStep == FourArmInv /\ FitParent => FourArmInv'
<1> SUFFICES ASSUME FourArmInv, FitParent PROVE FourArmInv'
  OBVIOUS
<1> DEFINE n == Len(trace)
<1>1. SplitTasks \in Nat /\ SplitTasks > 0
  BY PlanSize
<1>2. n \in Nat /\ n < SplitTasks /\ CallsOf("FIT", "STATIC") = 1 .. n
  BY <1>1, TraceIsIntervals DEF FourArmInv, FitParent, StageAtLength, UpTo
<1>3. Cardinality(CallsOf("FIT", "STATIC")) = n
  BY <1>2, FS_Interval
<1>4. /\ Call("FIT", "STATIC", n + 1, StaticCondition, StaticHarness)
      /\ armStage' = CASE n + 1 < SplitTasks -> "FIT"
                       [] n + 1 = SplitTasks /\ BlankFits' = {} -> "PROPOSE"
                       [] n + 1 = SplitTasks /\ BlankFits' # {} -> "RAISED"
  BY <1>3 DEF FitParent
<1>5. /\ "STATIC" \in ArmRoster /\ StaticCondition \in Conditions
      /\ StaticHarness \in [arm : ArmRoster, prompt : Prompts]
  BY DEF ArmRoster, ArmOrder, StaticCondition, Condition, Conditions, Prompts,
         StaticHarness, Harness
<1>6. /\ TraceTyped' /\ Len(trace') = n + 1 /\ DOMAIN trace' = 1 .. n + 1
      /\ DOMAIN trace = 1 .. n /\ \A i \in DOMAIN trace : trace'[i] = trace[i]
      /\ trace'[n + 1].phase = "FIT" /\ trace'[n + 1].arm = "STATIC"
      /\ trace'[n + 1].task = n + 1
      /\ armResult' = armResult
  BY <1>2, <1>4, <1>5, CallEffect DEF FourArmInv
<1>7. InPlan(n + 1, trace'[n + 1])
  BY <1>1, <1>2, <1>6 DEF InPlan
<1>8. TraceInPlan'
  BY <1>2, <1>6, <1>7, PlanExtends DEF FourArmInv
<1>9. \/ n + 1 < SplitTasks /\ armStage' = "FIT"
      \/ n + 1 = SplitTasks /\ armStage' = "PROPOSE"
      \/ n + 1 = SplitTasks /\ armStage' = "RAISED" /\ BlankFits' # {}
  BY <1>1, <1>2, <1>4
<1>10. HoldoutsRecorded' /\ FreezesStand' /\ StageAtLength' /\ SpentRunCloses'
  BY <1>1, <1>2, <1>6, <1>9 DEF HoldoutsRecorded, FreezesStand, StageAtLength, SpentRunCloses
<1>11. QED
  BY <1>6, <1>8, <1>10 DEF FourArmInv

\* SCORE proposes once and then FULL.
LEMMA ProposeStep == FourArmInv /\ Propose => FourArmInv'
<1> SUFFICES ASSUME FourArmInv, Propose PROVE FourArmInv'
  OBVIOUS
<1> DEFINE n == Len(trace)
           arm == IF n = SplitTasks THEN "SCORE" ELSE "FULL"
<1>1. SplitTasks \in Nat /\ SplitTasks > 0
  BY PlanSize
<1>2. /\ n \in Nat /\ SplitTasks <= n /\ n < SplitTasks + 2
      /\ CallsOf("PROPOSE", "SCORE") = {i \in 1 .. n : i = SplitTasks + 1}
  BY <1>1, TraceIsIntervals DEF FourArmInv, Propose, StageAtLength
<1>3. CallsOf("PROPOSE", "SCORE") = {} <=> n = SplitTasks
  <2>1. CASE n = SplitTasks
    BY <1>1, <1>2, <2>1
  <2>2. CASE n = SplitTasks + 1
    <3>1. SplitTasks + 1 \in CallsOf("PROPOSE", "SCORE")
      BY <1>1, <1>2, <2>2
    <3>2. QED
      BY <1>1, <2>2, <3>1
  <2>3. QED
    BY <1>1, <1>2, <2>1, <2>2
<1>4. /\ Call("PROPOSE", arm, 0, Condition(arm, "proposer"), Harness(arm, "proposer"))
      /\ armStage' = IF arm = "FULL" THEN "FREEZE" ELSE "PROPOSE"
  BY <1>3 DEF Propose
<1>5. /\ arm \in ArmRoster /\ Condition(arm, "proposer") \in Conditions
      /\ Harness(arm, "proposer") \in [arm : ArmRoster, prompt : Prompts]
  BY DEF ArmRoster, ArmOrder, Condition, Conditions, Prompts, Harness
<1>a. (n = SplitTasks /\ arm = "SCORE") \/ (n = SplitTasks + 1 /\ arm = "FULL")
  BY <1>1, <1>2
<1> HIDE DEF arm
<1>6. /\ TraceTyped' /\ Len(trace') = n + 1 /\ DOMAIN trace' = 1 .. n + 1
      /\ DOMAIN trace = 1 .. n /\ \A i \in DOMAIN trace : trace'[i] = trace[i]
      /\ trace'[n + 1].phase = "PROPOSE" /\ trace'[n + 1].arm = arm
      /\ armResult' = armResult
  BY <1>2, <1>4, <1>5, CallEffect DEF FourArmInv
<1>7. InPlan(n + 1, trace'[n + 1])
  <2>1. CASE n = SplitTasks /\ arm = "SCORE"
    BY <1>1, <1>6, <2>1 DEF InPlan
  <2>2. CASE n = SplitTasks + 1 /\ arm = "FULL"
    BY <1>1, <1>6, <2>2 DEF InPlan
  <2>3. QED
    BY <1>a, <2>1, <2>2
<1>8. TraceInPlan'
  BY <1>2, <1>6, <1>7, PlanExtends DEF FourArmInv
<1>9. HoldoutsRecorded' /\ FreezesStand' /\ StageAtLength' /\ SpentRunCloses'
  <2>1. CASE n = SplitTasks /\ arm = "SCORE"
    BY <1>1, <1>4, <1>6, <2>1 DEF HoldoutsRecorded, FreezesStand, StageAtLength, SpentRunCloses
  <2>2. CASE n = SplitTasks + 1 /\ arm = "FULL"
    BY <1>1, <1>4, <1>6, <2>2 DEF HoldoutsRecorded, FreezesStand, StageAtLength, SpentRunCloses
  <2>3. QED
    BY <1>a, <2>1, <2>2
<1>10. QED
  BY <1>6, <1>8, <1>9 DEF FourArmInv

\* Both proposals are frozen after both were made.
LEMMA FreezeProposalsStep == FourArmInv /\ FreezeProposals => FourArmInv'
<1> SUFFICES ASSUME FourArmInv, FreezeProposals PROVE FourArmInv'
  OBVIOUS
<1>1. SplitTasks \in Nat /\ SplitTasks > 0
  BY PlanSize
<1>2. TraceTyped' /\ TraceInPlan'
  BY NoCallStands DEF FourArmInv, FreezeProposals
<1>3. Len(trace) = SplitTasks + 2 /\ trace' = trace /\ DOMAIN trace = 1 .. SplitTasks + 2
  BY LenProperties DEF FourArmInv, FreezeProposals, StageAtLength, TraceTyped
<1>4. candidateFreeze' = PlannedFreeze /\ PlannedFreeze' = PlannedFreeze
  BY <1>3 DEF FreezeProposals, PlannedFreeze
<1>5. HoldoutsRecorded'
  BY <1>1, <1>3 DEF HoldoutsRecorded
<1>6. StageAtLength' /\ FreezesStand' /\ SpentRunCloses'
  BY <1>1, <1>3, <1>4 DEF FreezeProposals, StageAtLength, FreezesStand, SpentRunCloses
<1>7. QED
  BY <1>2, <1>5, <1>6 DEF FourArmInv

\* A candidate is tried task by task, SCORE's before FULL's.
LEMMA FitCandidateStep == FourArmInv /\ FitCandidate => FourArmInv'
<1> SUFFICES ASSUME FourArmInv, FitCandidate PROVE FourArmInv'
  OBVIOUS
<1> DEFINE n == Len(trace)
           T == SplitTasks
           arm == IF n < 2 * T + 2 THEN "SCORE" ELSE "FULL"
           task == IF n < 2 * T + 2 THEN n - T - 1 ELSE n - 2 * T - 1
           condition == candidateFreeze.proposals[arm].condition
           harness == CandidateHarness(arm)
<1>1. T \in Nat /\ T > 0
  BY PlanSize
<1>2. /\ n \in Nat /\ DOMAIN trace = 1 .. n /\ T + 2 <= n /\ n < 3 * T + 2
      /\ CallsOf("CANDIDATE", "SCORE") = T + 3 .. UpTo(n, 2 * T + 2)
      /\ CallsOf("CANDIDATE", "FULL") = 2 * T + 3 .. UpTo(n, 3 * T + 2)
      /\ CallsOf("PROPOSE", "SCORE") = {i \in 1 .. n : i = T + 1}
      /\ CallsOf("PROPOSE", "FULL") = {i \in 1 .. n : i = T + 2}
  BY TraceIsIntervals DEF FourArmInv, FitCandidate, StageAtLength
<1> HIDE DEF n, T
<1>3. /\ UpTo(n, 2 * T + 2) = IF n < 2 * T + 2 THEN n ELSE 2 * T + 2
      /\ UpTo(n, 3 * T + 2) = n
  BY <1>1, <1>2 DEF UpTo
<1>4. Cardinality(CallsOf("CANDIDATE", "SCORE")) = IF n < 2 * T + 2 THEN n - T - 2 ELSE T
  <2>1. CASE n < 2 * T + 2
    BY <1>1, <1>2, <1>3, <2>1, FS_Interval
  <2>2. CASE ~(n < 2 * T + 2)
    BY <1>1, <1>2, <1>3, <2>2, FS_Interval
  <2>3. QED
    BY <2>1, <2>2
<1>5. n >= 2 * T + 2 => Cardinality(CallsOf("CANDIDATE", "FULL")) = n - 2 * T - 2
  BY <1>1, <1>2, <1>3, FS_Interval
<1>6. (Cardinality(CallsOf("CANDIDATE", "SCORE")) < T) <=> n < 2 * T + 2
  BY <1>1, <1>2, <1>4
<1>7. Cardinality(CallsOf("CANDIDATE", arm)) + 1 = task
  BY <1>1, <1>2, <1>4, <1>5
<1>8. arm = IF Cardinality(CallsOf("CANDIDATE", "SCORE")) < T THEN "SCORE" ELSE "FULL"
  BY <1>6
<1>9. arm \in CandidateArms /\ arm \in ArmRoster /\ task \in Nat
  BY <1>1, <1>2 DEF CandidateArms, ArmRoster, ArmOrder
<1>10. n + 1 = 3 * T + 2 <=> arm = "FULL" /\ task = T
  BY <1>1, <1>2
<1> HIDE DEF arm, task, condition, harness
<1>11. /\ Call("CANDIDATE", arm, task, condition, harness)
       /\ armStage' = IF n + 1 = 3 * T + 2 THEN "SELECT" ELSE "CANDIDATE"
  BY <1>7, <1>8, <1>10 DEF FitCandidate, T, condition, harness
<1>12. condition \in Conditions
  <2>1. candidateFreeze = PlannedFreeze
    BY DEF FourArmInv, FitCandidate, FreezesStand
  <2>2. condition = Condition(arm, "candidate")
    BY <1>9, <2>1 DEF condition, PlannedFreeze
  <2>3. QED
    BY <1>9, <2>2 DEF Condition, Conditions, Prompts
<1>13. harness \in [arm : ArmRoster, prompt : Prompts]
  BY <1>9 DEF harness, CandidateHarness, Harness, Prompts
<1>14. /\ TraceTyped' /\ Len(trace') = n + 1 /\ DOMAIN trace' = 1 .. n + 1
       /\ \A i \in DOMAIN trace : trace'[i] = trace[i]
       /\ trace'[n + 1].phase = "CANDIDATE" /\ trace'[n + 1].arm = arm
       /\ armResult' = armResult /\ candidateFreeze' = candidateFreeze
       /\ overran \subseteq overran'
  BY <1>9, <1>11, <1>12, <1>13, CallEffect DEF FourArmInv, n
<1>15. InPlan(n + 1, trace'[n + 1])
  <2>1. CASE n < 2 * T + 2 /\ arm = "SCORE"
    BY <1>1, <1>2, <1>14, <2>1 DEF InPlan, T
  <2>2. CASE n >= 2 * T + 2 /\ arm = "FULL"
    BY <1>1, <1>2, <1>14, <2>2 DEF InPlan, T
  <2>3. QED
    BY <1>1, <1>2, <2>1, <2>2 DEF arm
<1>16. TraceInPlan'
  BY <1>2, <1>14, <1>15, PlanExtends DEF FourArmInv, n
<1>17. StageAtLength'
  BY <1>1, <1>2, <1>11, <1>14 DEF StageAtLength, T
<1>18. HoldoutsRecorded'
  BY <1>1, <1>2, <1>14 DEF HoldoutsRecorded, T
<1>19. FreezesStand'
  <2>1. candidateFreeze' = PlannedFreeze /\ PlannedFreeze' = PlannedFreeze
    BY <1>14 DEF FourArmInv, FitCandidate, FreezesStand, PlannedFreeze
  <2>2. Len(trace') <= 3 * T + 2 /\ armStage' \in {"SELECT", "CANDIDATE"}
    BY <1>1, <1>2, <1>11, <1>14
  <2>3. QED
    BY <1>1, <1>14, <2>1, <2>2 DEF FreezesStand, T
<1>20. SpentRunCloses'
  BY <1>11, <1>14 DEF SpentRunCloses
<1>21. QED
  BY <1>14, <1>16, <1>17, <1>18, <1>19, <1>20 DEF FourArmInv

\* What the selections hold of an arm.
LEMMA SelectionFacts ==
  ASSUME TraceTyped, TraceInPlan, Len(trace) >= 3 * SplitTasks + 2,
         candidateFreeze = PlannedFreeze, NEW arm \in CandidateArms
  PROVE  LET valid == ProposalOf(arm).right
             chosen == SelectCandidate(arm, valid)
         IN  /\ ProposalOf(arm) \in ArmCalls
             /\ valid => ProposalOf(arm).status = "COMPLETED"
             /\ chosen.condition = IF chosen.promote THEN Condition(arm, "candidate")
                                   ELSE StaticCondition
             /\ chosen.promote \in BOOLEAN
             /\ chosen \in [valid : BOOLEAN, parent : [Benchmarks -> Nat],
                            candidate : [Benchmarks -> Nat], promote : BOOLEAN,
                            condition : Conditions]
             /\ \A b \in Benchmarks : /\ Correct("FIT", "STATIC", b) \in Nat
                                      /\ Correct("CANDIDATE", arm, b) \in Nat
<1> DEFINE n == Len(trace)
           T == SplitTasks
           valid == ProposalOf(arm).right
           parent == CorrectIn("FIT", "STATIC")
           candidate == CorrectIn("CANDIDATE", arm)
           promote == /\ valid
                      /\ \A b \in Benchmarks : candidate[b] >= parent[b]
                      /\ SumOf(candidate) > SumOf(parent)
           condition == candidateFreeze.proposals[arm][IF promote THEN "condition" ELSE "parent"]
           chosen == [valid |-> valid, parent |-> parent, candidate |-> candidate,
                      promote |-> promote, condition |-> condition]
<1>1. T \in Nat /\ T > 0
  BY PlanSize
<1>2. /\ n \in Nat /\ n >= 3 * T + 2 /\ DOMAIN trace = 1 .. n
      /\ CallsOf("FIT", "STATIC") = 1 .. UpTo(n, T)
      /\ CallsOf("PROPOSE", "SCORE") = {i \in 1 .. n : i = T + 1}
      /\ CallsOf("PROPOSE", "FULL") = {i \in 1 .. n : i = T + 2}
      /\ CallsOf("CANDIDATE", "SCORE") = T + 3 .. UpTo(n, 2 * T + 2)
      /\ CallsOf("CANDIDATE", "FULL") = 2 * T + 3 .. UpTo(n, 3 * T + 2)
  BY TraceIsIntervals
<1> HIDE DEF n, T
<1>3. PICK i \in DOMAIN trace : ProposalOf(arm) = trace[i]
  <2>1. T + 1 \in CallsOf("PROPOSE", "SCORE") /\ T + 2 \in CallsOf("PROPOSE", "FULL")
    BY <1>1, <1>2
  <2>2. (CHOOSE i \in CallsOf("PROPOSE", arm) : TRUE) \in CallsOf("PROPOSE", arm)
    BY <2>1 DEF CandidateArms
  <2>3. QED
    BY <2>2 DEF ProposalOf, CallsOf
<1>4. ProposalOf(arm) \in ArmCalls /\ (valid => ProposalOf(arm).status = "COMPLETED")
  BY <1>3, ElementOfSeq DEF TraceTyped
<1>5. valid \in BOOLEAN
  BY <1>4 DEF ArmCalls
<1>6. ASSUME NEW phase, NEW owner, NEW b, IsFiniteSet(CallsOf(phase, owner))
      PROVE  Correct(phase, owner, b) \in Nat
  BY <1>6, FS_Subset, FS_CardinalityType DEF Correct
<1>7. /\ IsFiniteSet(CallsOf("FIT", "STATIC"))
      /\ IsFiniteSet(CallsOf("CANDIDATE", "SCORE")) /\ IsFiniteSet(CallsOf("CANDIDATE", "FULL"))
  <2>1. UpTo(n, T) \in Int /\ UpTo(n, 2 * T + 2) \in Int /\ UpTo(n, 3 * T + 2) \in Int
    BY <1>1, <1>2 DEF UpTo
  <2>2. \A a, b \in Int : IsFiniteSet(a .. b)
    BY FS_Interval
  <2>3. 1 \in Int /\ T + 3 \in Int /\ 2 * T + 3 \in Int
    BY <1>1
  <2>4. QED
    BY <1>2, <2>1, <2>2, <2>3
<1>8. \A b \in Benchmarks : Correct("FIT", "STATIC", b) \in Nat /\ Correct("CANDIDATE", arm, b) \in Nat
  BY <1>6, <1>7 DEF CandidateArms
<1>9. parent \in [Benchmarks -> Nat] /\ candidate \in [Benchmarks -> Nat]
  BY <1>8 DEF CorrectIn
<1>10. promote \in BOOLEAN
  BY <1>5
<1> HIDE DEF promote, parent, candidate, valid
<1>11. condition = IF promote THEN Condition(arm, "candidate") ELSE StaticCondition
  BY <1>10 DEF PlannedFreeze
<1>12. condition \in Conditions
  BY <1>11 DEF Condition, StaticCondition, Conditions, CandidateArms, ArmRoster, ArmOrder, Prompts
<1> HIDE DEF condition
<1>13. chosen \in [valid : BOOLEAN, parent : [Benchmarks -> Nat],
                   candidate : [Benchmarks -> Nat], promote : BOOLEAN, condition : Conditions]
  BY <1>5, <1>9, <1>10, <1>12
<1>14. chosen.condition = condition /\ chosen.promote = promote
  OBVIOUS
<1>15. SelectCandidate(arm, valid) = chosen
  BY DEF SelectCandidate, promote, parent, candidate, condition
<1>16. QED
  BY <1>4, <1>8, <1>10, <1>11, <1>13, <1>14, <1>15 DEF valid

\* What is frozen of the selections is no absent freeze, and it is what an arm
\* runs on the holdout: its own candidate if it was promoted, and else the parent.
LEMMA SelectionsFrozen ==
  ASSUME TraceTyped, TraceInPlan, Len(trace) >= 3 * SplitTasks + 2,
         candidateFreeze = PlannedFreeze
  PROVE  /\ PlannedSelections \in SelectionFreezes
         /\ \A arm \in CandidateArms :
              PlannedSelections.selections[arm] = SelectCandidate(arm, ProposalOf(arm).right)
<1>1. \A arm \in CandidateArms :
        SelectCandidate(arm, ProposalOf(arm).right)
          \in [valid : BOOLEAN, parent : [Benchmarks -> Nat], candidate : [Benchmarks -> Nat],
               promote : BOOLEAN, condition : Conditions]
  BY SelectionFacts
<1>2. [arm \in CandidateArms |-> SelectCandidate(arm, ProposalOf(arm).right)] \in Selections
  BY <1>1 DEF Selections
<1>3. 3 * SplitTasks + 2 \in Nat
  BY PlanSize
<1>4. QED
  BY <1>2, <1>3 DEF PlannedSelections, SelectionFreezes

\* The condition and the harness of a holdout call.
LEMMA HoldoutSetting ==
  ASSUME TraceTyped, TraceInPlan, Len(trace) >= 3 * SplitTasks + 2,
         candidateFreeze = PlannedFreeze, selectionFreeze = PlannedSelections,
         NEW arm \in ArmRoster
  PROVE  /\ HoldoutCondition(arm) \in Conditions
         /\ HoldoutHarness(arm) \in [arm : ArmRoster, prompt : Prompts]
         /\ HoldoutCondition(arm)[1] = HoldoutHarness(arm).arm
         /\ HoldoutHarness(arm).arm \in {arm, "STATIC"}
         /\ arm \in CandidateArms /\ HoldoutHarness(arm).arm = arm =>
              SelectCandidate(arm, ProposalOf(arm).right).promote
         /\ arm \in CandidateArms => HoldoutCondition(arm) \in
              {Condition(arm, "candidate"), StaticCondition}
<1>1. arm \in {"PURE", "STATIC", "SCORE", "FULL"}
  BY DEF ArmRoster, ArmOrder
<1>2. CASE arm = "PURE"
  BY <1>2 DEF HoldoutCondition, HoldoutHarness, Condition, Harness, Conditions, Prompts,
              CandidateArms, ArmRoster, ArmOrder
<1>3. CASE arm = "STATIC"
  BY <1>3 DEF HoldoutCondition, HoldoutHarness, Condition, Harness, Conditions, Prompts,
              CandidateArms, StaticCondition, StaticHarness, ArmRoster, ArmOrder
<1>4. CASE arm \in CandidateArms
  <2> DEFINE chosen == SelectCandidate(arm, ProposalOf(arm).right)
  <2>1. selectionFreeze.selections[arm] = chosen
    BY <1>4, SelectionsFrozen
  <2>2. /\ chosen.promote \in BOOLEAN
        /\ chosen.condition = IF chosen.promote THEN Condition(arm, "candidate")
                              ELSE StaticCondition
    BY <1>4, SelectionFacts
  <2> HIDE DEF chosen
  <2>3. arm # "PURE" /\ arm # "STATIC" /\ arm \in ArmRoster /\ "STATIC" \in ArmRoster
    BY <1>4 DEF CandidateArms, ArmRoster, ArmOrder
  <2>4. HoldoutCondition(arm) = chosen.condition
    BY <2>1, <2>3 DEF HoldoutCondition
  <2>5. HoldoutHarness(arm) = IF chosen.promote THEN CandidateHarness(arm) ELSE StaticHarness
    BY <1>4, <2>1, <2>3 DEF HoldoutHarness
  <2>6. CASE chosen.promote
    <3>1. HoldoutCondition(arm) = <<arm, "candidate">> /\ HoldoutHarness(arm) = CandidateHarness(arm)
      BY <2>2, <2>4, <2>5, <2>6 DEF Condition
    <3>2. \E prompt \in Prompts : CandidateHarness(arm) = [arm |-> arm, prompt |-> prompt]
      BY DEF CandidateHarness, Harness, Prompts
    <3>3. QED
      BY <2>3, <2>6, <3>1, <3>2 DEF Conditions, Prompts, chosen, Condition
  <2>7. CASE ~chosen.promote
    <3>1. HoldoutCondition(arm) = StaticCondition /\ HoldoutHarness(arm) = StaticHarness
      BY <2>2, <2>4, <2>5, <2>7
    <3>2. QED
      BY <2>3, <3>1 DEF StaticCondition, StaticHarness, Condition, Harness, Conditions, Prompts
  <2>8. QED
    BY <2>2, <2>6, <2>7
<1>5. QED
  BY <1>1, <1>2, <1>3, <1>4 DEF CandidateArms

\* The selections are frozen before the first holdout call.
LEMMA FreezeSelectionsStep == FourArmInv /\ FreezeSelections => FourArmInv'
<1> SUFFICES ASSUME FourArmInv, FreezeSelections PROVE FourArmInv'
  OBVIOUS
<1>1. SplitTasks \in Nat /\ SplitTasks > 0
  BY PlanSize
<1>2. TraceTyped' /\ TraceInPlan'
  BY NoCallStands DEF FourArmInv, FreezeSelections
<1>3. /\ Len(trace) = 3 * SplitTasks + 2 /\ trace' = trace
      /\ DOMAIN trace = 1 .. 3 * SplitTasks + 2
  BY LenProperties DEF FourArmInv, FreezeSelections, StageAtLength, TraceTyped
<1>4. candidateFreeze' = candidateFreeze /\ candidateFreeze = PlannedFreeze
  BY DEF FourArmInv, FreezeSelections, FreezesStand
<1>5. PlannedFreeze' = PlannedFreeze
  BY DEF PlannedFreeze
<1>6. PlannedSelections' = PlannedSelections
  BY <1>3, <1>4 DEF PlannedSelections, SelectCandidate, ProposalOf, CorrectIn, Correct, CallsOf
<1>7. selectionFreeze' = PlannedSelections
  BY <1>3 DEF FreezeSelections, PlannedSelections
<1>8. HoldoutsRecorded'
  BY <1>1, <1>3 DEF HoldoutsRecorded
<1>9. StageAtLength' /\ FreezesStand' /\ SpentRunCloses'
  BY <1>1, <1>3, <1>4, <1>5, <1>6, <1>7
     DEF FreezeSelections, StageAtLength, FreezesStand, SpentRunCloses
<1>10. QED
  BY <1>2, <1>8, <1>9 DEF FourArmInv

\* A holdout call is the next of the rotation, with what the selections say.
LEMMA HoldOutStep == FourArmInv /\ HoldOut => FourArmInv'
<1> SUFFICES ASSUME FourArmInv, HoldOut PROVE FourArmInv'
  OBVIOUS
<1> DEFINE n == Len(trace)
           T == SplitTasks
           h == n - (3 * T + 2)
           arm == HoldoutArm
           task == TaskAt(h)
<1>1. T \in Nat /\ T > 0
  BY PlanSize
<1>2. /\ n \in Nat /\ DOMAIN trace = 1 .. n /\ 3 * T + 2 <= n /\ n < 7 * T + 2
      /\ {i \in DOMAIN trace : trace[i].phase = "HOLDOUT"} = 3 * T + 3 .. n
  BY TraceIsIntervals DEF FourArmInv, HoldOut, StageAtLength
<1>3. candidateFreeze = PlannedFreeze /\ selectionFreeze = PlannedSelections
  BY DEF FourArmInv, HoldOut, FreezesStand
<1> HIDE DEF n, T
<1>4. HeldOut = h /\ h \in Nat
  <2>1. HeldOut = Cardinality(3 * T + 3 .. n)
    BY <1>2 DEF HeldOut
  <2>2. 3 * T + 3 \in Int /\ n \in Int
    BY <1>1, <1>2
  <2>3. Cardinality(3 * T + 3 .. n) = IF 3 * T + 3 > n THEN 0 ELSE n - (3 * T + 3) + 1
    BY <2>2, FS_Interval
  <2>4. QED
    BY <1>1, <1>2, <2>1, <2>3
<1>5. arm = ArmAt(h)
  BY <1>4 DEF HoldoutArm, ArmAt
<1>6. arm \in ArmRoster
  BY <1>4, <1>5 DEF ArmAt, ArmRoster
<1>7. task \in Nat
  BY <1>4 DEF TaskAt
<1> HIDE DEF h, arm, task
<1>8. /\ Call("HOLDOUT", arm, task, HoldoutCondition(arm), HoldoutHarness(arm))
      /\ armStage' = IF h + 1 = 4 * T THEN "CLOSE" ELSE "HOLDOUT"
  BY <1>4 DEF HoldOut, TaskAt, arm, task, T
<1>9. HoldoutCondition(arm) \in Conditions /\ HoldoutHarness(arm) \in [arm : ArmRoster, prompt : Prompts]
  BY <1>2, <1>3, <1>6, HoldoutSetting DEF FourArmInv, n, T
<1>10. /\ TraceTyped' /\ Len(trace') = n + 1 /\ DOMAIN trace' = 1 .. n + 1
       /\ \A i \in DOMAIN trace : trace'[i] = trace[i]
       /\ trace'[n + 1].phase = "HOLDOUT" /\ trace'[n + 1].arm = arm
       /\ trace'[n + 1].task = task
       /\ trace'[n + 1].condition = HoldoutCondition(arm)
       /\ trace'[n + 1].harness = HoldoutHarness(arm)
       /\ armResult' = armResult /\ candidateFreeze' = candidateFreeze
       /\ selectionFreeze' = selectionFreeze
       /\ overran \subseteq overran'
  BY <1>6, <1>7, <1>8, <1>9, CallEffect DEF FourArmInv, n
<1>11. InPlan(n + 1, trace'[n + 1])
  <2>1. n + 1 - (3 * T + 3) = h /\ n + 1 > 3 * T + 2
    BY <1>1, <1>2 DEF h
  <2>2. QED
    BY <1>1, <1>2, <1>5, <1>10, <2>1 DEF InPlan, T, task
<1>12. TraceInPlan'
  BY <1>2, <1>10, <1>11, PlanExtends DEF FourArmInv, n
<1>13. /\ \A a \in CandidateArms : ProposalOf(a)' = ProposalOf(a)
       /\ \A a \in CandidateArms : CorrectIn("CANDIDATE", a)' = CorrectIn("CANDIDATE", a)
       /\ CorrectIn("FIT", "STATIC")' = CorrectIn("FIT", "STATIC")
  BY <1>2, <1>10, <1>12, SayingsStand DEF FourArmInv, n, T
<1>14. StageAtLength'
  BY <1>1, <1>2, <1>8, <1>10 DEF StageAtLength, T, h
<1>15. PlannedFreeze' = PlannedFreeze
  BY DEF PlannedFreeze
<1>16. PlannedSelections' = PlannedSelections
  <2>1. \A a \in CandidateArms :
          SelectCandidate(a, ProposalOf(a).right)' = SelectCandidate(a, ProposalOf(a).right)
    BY <1>10, <1>13 DEF SelectCandidate
  <2>2. QED
    BY <2>1 DEF PlannedSelections
<1>17. FreezesStand'
  BY <1>3, <1>10, <1>15, <1>16 DEF FreezesStand
<1>18. \A a \in ArmRoster : HoldoutCondition(a)' = HoldoutCondition(a)
  BY <1>10 DEF HoldoutCondition
<1>19. \A a \in ArmRoster : HoldoutHarness(a)' = HoldoutHarness(a)
  BY <1>10, <1>13 DEF HoldoutHarness, CandidateHarness
<1>20. HoldoutsRecorded'
  <2> SUFFICES ASSUME NEW a \in ArmRoster, NEW i \in 1 .. n + 1,
                      i > 3 * T + 2, trace'[i].arm = a
               PROVE  /\ trace'[i].condition = HoldoutCondition(a)
                      /\ trace'[i].harness = HoldoutHarness(a)
    BY <1>10, <1>18, <1>19 DEF HoldoutsRecorded, T
  <2>1. CASE i = n + 1
    BY <1>10, <2>1
  <2>2. CASE i \in DOMAIN trace
    BY <1>10, <2>2 DEF FourArmInv, HoldoutsRecorded, T
  <2>3. QED
    BY <1>2, <2>1, <2>2
<1>21. SpentRunCloses'
  BY <1>8, <1>10 DEF SpentRunCloses
<1>22. QED
  BY <1>10, <1>12, <1>14, <1>17, <1>20, <1>21 DEF FourArmInv

\* A refused reservation stops the run and leaves what it recorded.
LEMMA ReserveRefusedStep == FourArmInv /\ ReserveRefused => FourArmInv'
<1> SUFFICES ASSUME FourArmInv, ReserveRefused PROVE FourArmInv'
  OBVIOUS
<1>1. UNCHANGED <<trace, overran, candidateFreeze, selectionFreeze, armResult>>
  BY DEF ReserveRefused
<1>2. TraceTyped' /\ TraceInPlan'
  BY <1>1, NoCallStands DEF FourArmInv
<1>3. PlannedFreeze' = PlannedFreeze /\ PlannedSelections' = PlannedSelections
  BY <1>1 DEF PlannedFreeze, PlannedSelections, SelectCandidate, ProposalOf, CorrectIn, Correct, CallsOf
<1>4. HoldoutsRecorded'
  BY <1>1 DEF FourArmInv, HoldoutsRecorded, HoldoutCondition, HoldoutHarness, CandidateHarness,
              ProposalOf, CallsOf
<1>5. armStage' = "RAISED" /\ overran # {}
  BY DEF ReserveRefused
<1>6. FreezesStand'
  BY <1>1, <1>3, <1>5 DEF FourArmInv, FreezesStand
<1>7. StageAtLength' /\ SpentRunCloses'
  BY <1>1, <1>5 DEF StageAtLength, SpentRunCloses
<1>8. QED
  BY <1>2, <1>4, <1>6, <1>7 DEF FourArmInv

-----------------------------------------------------------------------------
(* What the invariant says of the holdout                                  *)

\* A promotion was earned on the trace.
LEMMA PromotionIsEarned ==
  ASSUME TraceTyped, TraceInPlan, Len(trace) >= 3 * SplitTasks + 2,
         candidateFreeze = PlannedFreeze, NEW arm \in CandidateArms,
         SelectCandidate(arm, ProposalOf(arm).right).promote
  PROVE  EarnedHoldout(arm)
<1> DEFINE valid == ProposalOf(arm).right
           parent == CorrectIn("FIT", "STATIC")
           candidate == CorrectIn("CANDIDATE", arm)
<1>1. /\ ProposalOf(arm) \in ArmCalls
      /\ valid => ProposalOf(arm).status = "COMPLETED"
      /\ \A b \in Benchmarks : /\ Correct("FIT", "STATIC", b) \in Nat
                               /\ Correct("CANDIDATE", arm, b) \in Nat
  BY SelectionFacts
<1>2. SelectCandidate(arm, valid).promote =
        /\ valid
        /\ \A b \in Benchmarks : candidate[b] >= parent[b]
        /\ SumOf(candidate) > SumOf(parent)
  BY DEF SelectCandidate
<1>3. valid /\ (\A b \in Benchmarks : candidate[b] >= parent[b]) /\ SumOf(candidate) > SumOf(parent)
  BY <1>1, <1>2 DEF ArmCalls
<1>4. /\ \A b \in Benchmarks : parent[b] = Correct("FIT", "STATIC", b)
      /\ \A b \in Benchmarks : candidate[b] = Correct("CANDIDATE", arm, b)
  BY DEF CorrectIn
<1> HIDE DEF parent, candidate, valid
<1>5. \E b \in Benchmarks : candidate[b] > parent[b]
  BY <1>1, <1>3, <1>4 DEF SumOf, Benchmarks
<1> DEFINE Won(b, phase, owner) == {i \in CallsOf(phase, owner) :
                                      trace[i].right /\ BenchmarkOf[trace[i].task] = b}
           gain == [b \in Benchmarks |-> Cardinality(Won(b, "CANDIDATE", arm))
                                           - Cardinality(Won(b, "FIT", "STATIC"))]
<1>6. \A b, phase, owner : Cardinality(Won(b, phase, owner)) = Correct(phase, owner, b)
  BY DEF Correct
<1> HIDE DEF Won
<1>7. \A b \in Benchmarks : gain[b] = candidate[b] - parent[b]
  BY <1>4, <1>6
<1> HIDE DEF gain
<1>8. (\A b \in Benchmarks : gain[b] >= 0) /\ \E b \in Benchmarks : gain[b] > 0
  <2>1. \A b \in Benchmarks : candidate[b] \in Nat /\ parent[b] \in Nat
    BY <1>1, <1>4
  <2>2. QED
    BY <1>3, <1>5, <1>7, <2>1
<1>9. ProposalOf(arm).status = "COMPLETED" /\ ProposalOf(arm).right
  BY <1>1, <1>3 DEF valid
<1>10. QED
  BY <1>8, <1>9 DEF EarnedHoldout, gain, Won

\* The first freeze stands once a candidate is tried, the second once a holdout
\* task is shown.
LEMMA FreezesBeforeCalls ==
  ASSUME FourArmInv, NEW i \in DOMAIN trace
  PROVE  /\ trace[i].phase = "CANDIDATE" => i > SplitTasks + 2
         /\ trace[i].phase = "HOLDOUT" => i > 3 * SplitTasks + 2
         /\ i > SplitTasks + 2 => candidateFreeze = PlannedFreeze
         /\ i > 3 * SplitTasks + 2 => /\ Len(trace) >= 3 * SplitTasks + 2
                                      /\ selectionFreeze = PlannedSelections
<1>1. SplitTasks \in Nat /\ SplitTasks > 0
  BY PlanSize
<1>2. Len(trace) \in Nat /\ i \in Nat /\ i <= Len(trace) /\ i >= 1
  BY TraceIsIntervals DEF FourArmInv
<1>3. InPlan(i, trace[i])
  BY DEF FourArmInv, TraceInPlan
<1>4. /\ trace[i].phase = "CANDIDATE" => i > SplitTasks + 2
      /\ trace[i].phase = "HOLDOUT" => i > 3 * SplitTasks + 2
  BY <1>1, <1>2, <1>3 DEF InPlan
<1>5. FreezesStand
  BY DEF FourArmInv
<1>6. QED
  BY <1>1, <1>2, <1>4, <1>5 DEF FreezesStand

\* The holdout is earned in every state of the invariant.
LEMMA InvImpliesEarned == FourArmInv => HoldoutIsEarned
<1> SUFFICES ASSUME FourArmInv, NEW i \in DOMAIN trace
             PROVE  /\ trace[i].phase = "CANDIDATE" =>
                         candidateFreeze # Unfrozen /\ candidateFreeze.sequence < i
                    /\ trace[i].phase = "HOLDOUT" =>
                         /\ selectionFreeze # Unfrozen /\ selectionFreeze.sequence < i
                         /\ trace[i].condition[1] = trace[i].harness.arm
                         /\ trace[i].harness.arm \in {trace[i].arm, "STATIC"}
                         /\ trace[i].arm \in CandidateArms /\ trace[i].harness.arm = trace[i].arm
                              => EarnedHoldout(trace[i].arm)
  BY DEF HoldoutIsEarned
<1>1. SplitTasks \in Nat /\ i \in Nat
  BY PlanSize, TraceIsIntervals DEF FourArmInv
<1>2. ASSUME trace[i].phase = "CANDIDATE"
      PROVE  candidateFreeze # Unfrozen /\ candidateFreeze.sequence < i
  <2>1. candidateFreeze = PlannedFreeze /\ i > SplitTasks + 2
    BY <1>2, FreezesBeforeCalls
  <2>2. \A arm \in CandidateArms : Condition(arm, "candidate") \in Conditions
    BY DEF CandidateArms, Condition, Conditions, ArmRoster, ArmOrder, Prompts
  <2>3. StaticCondition \in Conditions
    BY DEF StaticCondition, Condition, Conditions, ArmRoster, ArmOrder, Prompts
  <2>4. PlannedFreeze \in CandidateFreezes
    BY <1>1, <2>2, <2>3 DEF PlannedFreeze, CandidateFreezes
  <2>5. QED
    BY <1>1, <2>1, <2>4, UnfrozenAssumption DEF PlannedFreeze
<1>3. ASSUME trace[i].phase = "HOLDOUT"
      PROVE  /\ selectionFreeze # Unfrozen /\ selectionFreeze.sequence < i
             /\ trace[i].condition[1] = trace[i].harness.arm
             /\ trace[i].harness.arm \in {trace[i].arm, "STATIC"}
             /\ trace[i].arm \in CandidateArms /\ trace[i].harness.arm = trace[i].arm
                  => EarnedHoldout(trace[i].arm)
  <2> DEFINE arm == trace[i].arm
  <2>1. /\ i > 3 * SplitTasks + 2 /\ Len(trace) >= 3 * SplitTasks + 2
        /\ selectionFreeze = PlannedSelections
    BY <1>3, FreezesBeforeCalls
  <2>2. candidateFreeze = PlannedFreeze
    BY <1>1, <2>1, FreezesBeforeCalls
  <2>3. TraceTyped /\ TraceInPlan
    BY DEF FourArmInv
  <2>4. PlannedSelections \in SelectionFreezes
    BY <2>1, <2>2, <2>3, SelectionsFrozen
  <2>5. selectionFreeze # Unfrozen /\ selectionFreeze.sequence < i
    BY <2>1, <2>4, UnfrozenAssumption DEF PlannedSelections
  <2>6. arm \in ArmRoster
    <3>1. trace[i] \in ArmCalls
      BY <2>3 DEF TraceTyped
    <3>2. QED
      BY <3>1 DEF ArmCalls
  <2>7. trace[i].condition = HoldoutCondition(arm) /\ trace[i].harness = HoldoutHarness(arm)
    BY <2>1, <2>6 DEF FourArmInv, HoldoutsRecorded
  <2>8. /\ HoldoutCondition(arm)[1] = HoldoutHarness(arm).arm
        /\ HoldoutHarness(arm).arm \in {arm, "STATIC"}
        /\ arm \in CandidateArms /\ HoldoutHarness(arm).arm = arm =>
             SelectCandidate(arm, ProposalOf(arm).right).promote
    BY <2>1, <2>2, <2>3, <2>6, HoldoutSetting
  <2>9. arm \in CandidateArms /\ HoldoutHarness(arm).arm = arm => EarnedHoldout(arm)
    BY <2>1, <2>2, <2>3, <2>8, PromotionIsEarned
  <2>10. QED
    BY <2>5, <2>7, <2>8, <2>9
<1>4. QED
  BY <1>2, <1>3

-----------------------------------------------------------------------------
(* What a run that spent its calls recorded                                *)

\* One-to-one and onto, so as many.
LEMMA AsMany ==
  ASSUME NEW S, NEW U, IsFiniteSet(S), NEW f \in [S -> U],
         \A x, y \in S : f[x] = f[y] => x = y,
         \A u \in U : \E x \in S : f[x] = u
  PROVE  IsFiniteSet(U) /\ Cardinality(U) = Cardinality(S)
<1>1. f \in Bijection(S, U)
  BY DEF Bijection, Injection, Surjection, IsInjective
<1>2. QED
  BY <1>1, FS_Bijection DEF ExistsBijection

\* The rotation: in every block of four holdout calls each arm has its turn once.
LEMMA Rotation ==
  /\ \A h \in Nat : \E q \in Nat, r \in 0 .. 3 : h = 4 * q + r
  /\ \A q \in Nat, r \in 0 .. 3 :
       TaskAt(4 * q + r) = q + 1 /\ ArmAt(4 * q + r) = ArmOrder[((q + r) % 4) + 1]
  /\ \A q \in Nat, k \in 1 .. 4 : \E r \in 0 .. 3 : ((q + r) % 4) + 1 = k
  /\ \A q \in Nat, r, s \in 0 .. 3 : (q + r) % 4 = (q + s) % 4 => r = s
<1>1. ASSUME NEW h \in Nat PROVE \E q \in Nat, r \in 0 .. 3 : h = 4 * q + r
  <2>1. h \div 4 \in Nat /\ h % 4 \in 0 .. 3 /\ h = 4 * (h \div 4) + (h % 4)
    OBVIOUS
  <2>2. QED
    BY <2>1
<1>2. ASSUME NEW q \in Nat, NEW r \in 0 .. 3
      PROVE  /\ TaskAt(4 * q + r) = q + 1
             /\ ArmAt(4 * q + r) = ArmOrder[((q + r) % 4) + 1]
  <2>1. (4 * q + r) \div 4 = q
    OBVIOUS
  <2>2. (q + (4 * q + r)) % 4 = (q + r) % 4
    OBVIOUS
  <2>3. QED
    BY <2>1, <2>2 DEF TaskAt, ArmAt
<1>3. ASSUME NEW q \in Nat, NEW k \in 1 .. 4 PROVE \E r \in 0 .. 3 : ((q + r) % 4) + 1 = k
  <2>1. q % 4 \in 0 .. 3
    OBVIOUS
  <2>2. \A r \in 0 .. 3 : (q + r) % 4 = IF (q % 4) + r < 4 THEN (q % 4) + r ELSE (q % 4) + r - 4
    OBVIOUS
  <2>3. QED
    BY <2>1, <2>2
<1>4. ASSUME NEW q \in Nat, NEW r \in 0 .. 3, NEW s \in 0 .. 3, (q + r) % 4 = (q + s) % 4
      PROVE  r = s
  BY <1>4
<1>5. QED
  BY <1>1, <1>2, <1>3, <1>4

\* The position in the trace of the holdout call of a task and an arm.
LEMMA HoldoutGrid ==
  ASSUME FourArmInv, Len(trace) = 7 * SplitTasks + 2
  PROVE  LET H == 3 * SplitTasks + 3 .. 7 * SplitTasks + 2 IN
         /\ {i \in DOMAIN trace : trace[i].phase = "HOLDOUT"} = H
         /\ H \subseteq DOMAIN trace
         /\ \A i \in H : trace[i].task \in 1 .. SplitTasks /\ trace[i].arm \in ArmRoster
         /\ \A i \in H : trace[i].condition = HoldoutCondition(trace[i].arm)
         /\ \A t \in 1 .. SplitTasks, arm \in ArmRoster :
              \E i \in H : trace[i].task = t /\ trace[i].arm = arm
         /\ \A i, j \in H : trace[i].task = trace[j].task /\ trace[i].arm = trace[j].arm => i = j
<1> DEFINE T == SplitTasks
           H == 3 * T + 3 .. 7 * T + 2
<1>1. T \in Nat /\ T > 0
  BY PlanSize
<1>2. /\ DOMAIN trace = 1 .. 7 * T + 2
      /\ {i \in DOMAIN trace : trace[i].phase = "HOLDOUT"} = H
  BY TraceIsIntervals DEF FourArmInv
<1> HIDE DEF T
<1>3. \A i \in H : trace[i].arm = ArmAt(i - (3 * T + 3)) /\ trace[i].task = TaskAt(i - (3 * T + 3))
  BY <1>1, <1>2 DEF FourArmInv, TraceInPlan, InPlan, T
<1>4. \A i \in H : i - (3 * T + 3) \in Nat /\ i - (3 * T + 3) < 4 * T
  BY <1>1
<1>5. ASSUME NEW i \in H
      PROVE  \E q \in 0 .. T - 1, r \in 0 .. 3 :
               /\ i = 3 * T + 3 + 4 * q + r
               /\ trace[i].task = q + 1 /\ trace[i].arm = ArmOrder[((q + r) % 4) + 1]
  <2>1. PICK q \in Nat, r \in 0 .. 3 : i - (3 * T + 3) = 4 * q + r
    BY <1>4, Rotation
  <2>2. q \in 0 .. T - 1 /\ i = 3 * T + 3 + 4 * q + r
    BY <1>1, <1>4, <2>1
  <2>3. TaskAt(4 * q + r) = q + 1 /\ ArmAt(4 * q + r) = ArmOrder[((q + r) % 4) + 1]
    BY Rotation
  <2>4. trace[i].task = q + 1 /\ trace[i].arm = ArmOrder[((q + r) % 4) + 1]
    BY <1>3, <2>1, <2>3
  <2>5. QED
    BY <2>2, <2>4
<1>6. ASSUME NEW q \in 0 .. T - 1, NEW r \in 0 .. 3
      PROVE  LET i == 3 * T + 3 + 4 * q + r IN
             /\ i \in H /\ trace[i].task = q + 1 /\ trace[i].arm = ArmOrder[((q + r) % 4) + 1]
  <2> DEFINE i == 3 * T + 3 + 4 * q + r
  <2>1. i \in H /\ i - (3 * T + 3) = 4 * q + r
    BY <1>1
  <2>2. TaskAt(4 * q + r) = q + 1 /\ ArmAt(4 * q + r) = ArmOrder[((q + r) % 4) + 1]
    <3>1. q \in Nat
      BY <1>1
    <3>2. QED
      BY <3>1, Rotation
  <2> HIDE DEF i
  <2>3. trace[i].task = q + 1 /\ trace[i].arm = ArmOrder[((q + r) % 4) + 1]
    BY <1>3, <2>1, <2>2
  <2>4. QED
    BY <2>1, <2>3 DEF i
<1>7. \A k, l \in 1 .. 4 : ArmOrder[k] = ArmOrder[l] => k = l
  BY DEF ArmOrder
<1>8. \A q \in Nat, r \in 0 .. 3 : ((q + r) % 4) + 1 \in 1 .. 4
  OBVIOUS
<1>9. \A i \in H : trace[i].task \in 1 .. T /\ trace[i].arm \in ArmRoster
  <2> SUFFICES ASSUME NEW i \in H PROVE trace[i].task \in 1 .. T /\ trace[i].arm \in ArmRoster
    OBVIOUS
  <2>1. PICK q \in 0 .. T - 1, r \in 0 .. 3 :
          trace[i].task = q + 1 /\ trace[i].arm = ArmOrder[((q + r) % 4) + 1]
    BY <1>5
  <2>2. QED
    BY <1>1, <1>8, <2>1 DEF ArmRoster
<1>10. \A i \in H : trace[i].condition = HoldoutCondition(trace[i].arm)
  BY <1>1, <1>2, <1>9 DEF FourArmInv, HoldoutsRecorded, T
<1>11. ASSUME NEW t \in 1 .. T, NEW arm \in ArmRoster
       PROVE  \E i \in H : trace[i].task = t /\ trace[i].arm = arm
  <2>1. PICK k \in 1 .. 4 : arm = ArmOrder[k]
    BY DEF ArmRoster
  <2>2. t - 1 \in Nat /\ t - 1 \in 0 .. T - 1 /\ t - 1 + 1 = t
    BY <1>1
  <2>3. PICK r \in 0 .. 3 : (((t - 1) + r) % 4) + 1 = k
    BY <2>2, Rotation
  <2>4. QED
    BY <1>6, <2>1, <2>2, <2>3
<1>12. ASSUME NEW i \in H, NEW j \in H, trace[i].task = trace[j].task, trace[i].arm = trace[j].arm
       PROVE  i = j
  <2>1. PICK q \in 0 .. T - 1, r \in 0 .. 3 :
          /\ i = 3 * T + 3 + 4 * q + r
          /\ trace[i].task = q + 1 /\ trace[i].arm = ArmOrder[((q + r) % 4) + 1]
    BY <1>5
  <2>2. PICK p \in 0 .. T - 1, s \in 0 .. 3 :
          /\ j = 3 * T + 3 + 4 * p + s
          /\ trace[j].task = p + 1 /\ trace[j].arm = ArmOrder[((p + s) % 4) + 1]
    BY <1>5
  <2>3. p = q
    BY <1>12, <2>1, <2>2
  <2>4. ((q + r) % 4) + 1 \in 1 .. 4 /\ ((q + s) % 4) + 1 \in 1 .. 4
    BY <1>8
  <2>5. ArmOrder[((q + r) % 4) + 1] = ArmOrder[((q + s) % 4) + 1]
    BY <1>12, <2>1, <2>2, <2>3
  <2>6. (q + r) % 4 = (q + s) % 4
    <3>1. ((q + r) % 4) + 1 = ((q + s) % 4) + 1
      BY <1>7, <2>4, <2>5
    <3>2. (q + r) % 4 \in Int /\ (q + s) % 4 \in Int
      OBVIOUS
    <3>3. QED
      BY <3>1, <3>2
  <2>7. q \in Nat
    OBVIOUS
  <2>8. r = s
    BY <2>6, <2>7, Rotation
  <2>9. QED
    BY <2>1, <2>2, <2>3, <2>8
<1>13. QED
  BY <1>1, <1>2, <1>9, <1>10, <1>11, <1>12 DEF T

\* Each ledger was charged for the calls of its plan.
LEMMA LedgersSpent ==
  ASSUME FourArmInv, Len(trace) = 7 * SplitTasks + 2
  PROVE  AttemptsOn("FIXED") = FixedCalls /\ AttemptsOn("PURE") = PureCalls
<1> DEFINE T == SplitTasks
           n == 7 * T + 2
           H == 3 * T + 3 .. n
           Pure == {i \in DOMAIN trace : LedgerOf(trace[i].arm) = "PURE"}
           Fixed == {i \in DOMAIN trace : LedgerOf(trace[i].arm) = "FIXED"}
           at == [i \in Pure |-> trace[i].task]
<1>1. T \in Nat /\ T > 0
  BY PlanSize
<1>2. DOMAIN trace = 1 .. n
  BY TraceIsIntervals DEF FourArmInv
<1>3. /\ \A i \in H : trace[i].task \in 1 .. T /\ trace[i].arm \in ArmRoster
      /\ \A t \in 1 .. T, arm \in ArmRoster : \E i \in H : trace[i].task = t /\ trace[i].arm = arm
      /\ \A i, j \in H : trace[i].task = trace[j].task /\ trace[i].arm = trace[j].arm => i = j
      /\ H \subseteq DOMAIN trace
  BY HoldoutGrid
<1>4. \A i \in DOMAIN trace : i \notin H => trace[i].arm # "PURE"
  BY <1>1, <1>2 DEF FourArmInv, TraceInPlan, InPlan
<1>5. Pure = {i \in H : trace[i].arm = "PURE"}
  BY <1>3, <1>4 DEF LedgerOf
<1>6. Fixed = DOMAIN trace \ Pure
  BY DEF LedgerOf
<1>7. IsFiniteSet(DOMAIN trace) /\ Cardinality(DOMAIN trace) = 7 * T + 2
  BY <1>1, <1>2, FS_Interval
<1>8. Pure \subseteq DOMAIN trace
  OBVIOUS
<1> HIDE DEF T, n, H, Pure, Fixed
<1>9. IsFiniteSet(Pure)
  BY <1>7, <1>8, FS_Subset
<1>10. /\ at \in [Pure -> 1 .. T]
       /\ \A i, j \in Pure : at[i] = at[j] => i = j
       /\ \A t \in 1 .. T : \E i \in Pure : at[i] = t
  <2>1. at \in [Pure -> 1 .. T]
    BY <1>3, <1>5
  <2>2. \A i, j \in Pure : at[i] = at[j] => i = j
    BY <1>3, <1>5
  <2>3. "PURE" \in ArmRoster
    BY DEF ArmRoster, ArmOrder
  <2>4. \A t \in 1 .. T : \E i \in Pure : at[i] = t
    BY <1>3, <1>5, <2>3
  <2>5. QED
    BY <2>1, <2>2, <2>4
<1> HIDE DEF at
<1>11. Cardinality(Pure) = T
  <2>1. Cardinality(1 .. T) = Cardinality(Pure)
    BY <1>9, <1>10, AsMany
  <2>2. Cardinality(1 .. T) = T
    BY <1>1, FS_Interval
  <2>3. QED
    BY <2>1, <2>2
<1>12. Cardinality(Fixed) = 6 * T + 2
  <2>1. DOMAIN trace \cap Pure = Pure
    BY <1>8
  <2>2. Cardinality(DOMAIN trace \ Pure)
          = Cardinality(DOMAIN trace) - Cardinality(DOMAIN trace \cap Pure)
    BY <1>7, FS_Difference
  <2>3. Cardinality(DOMAIN trace \cap Pure) = T
    BY <1>11, <2>1
  <2>4. Cardinality(Fixed) = (7 * T + 2) - T
    BY <1>6, <1>7, <2>2, <2>3
  <2>5. QED
    BY <1>1, <2>4
<1>13. QED
  BY <1>11, <1>12 DEF AttemptsOn, FixedCalls, PureCalls, T, Pure, Fixed

\* The sums shown to SCORE are those of the items shown to FULL.
LEMMA DisclosuresAgree ==
  ASSUME FourArmInv, Len(trace) = 7 * SplitTasks + 2
  PROVE  /\ {o.task : o \in FullDisclosure} = 1 .. SplitTasks
         /\ ScoreDisclosure =
              [b \in Benchmarks |->
                 Cardinality({o \in FullDisclosure : o.right /\ BenchmarkOf[o.task] = b})]
<1> DEFINE T == SplitTasks
           item(i) == [task |-> trace[i].task, right |-> trace[i].right]
<1>1. T \in Nat /\ T > 0
  BY PlanSize
<1>2. /\ DOMAIN trace = 1 .. 7 * T + 2 /\ CallsOf("FIT", "STATIC") = 1 .. T
  BY <1>1, TraceIsIntervals DEF FourArmInv, UpTo
<1> HIDE DEF T
<1>3. \A i \in 1 .. T : trace[i].task = i
  BY <1>1, <1>2 DEF FourArmInv, TraceInPlan, InPlan, T
<1>4. FullDisclosure = {item(i) : i \in 1 .. T}
  BY <1>2 DEF FullDisclosure
<1>5. {o.task : o \in FullDisclosure} = 1 .. T
  <2>1. \A o \in FullDisclosure : o.task \in 1 .. T
    BY <1>3, <1>4
  <2>2. \A t \in 1 .. T : item(t) \in FullDisclosure /\ item(t).task = t
    BY <1>3, <1>4
  <2>3. QED
    BY <2>1, <2>2
<1>6. ASSUME NEW b \in Benchmarks
      PROVE  Correct("FIT", "STATIC", b) =
               Cardinality({o \in FullDisclosure : o.right /\ BenchmarkOf[o.task] = b})
  <2> DEFINE S == {i \in 1 .. T : trace[i].right /\ BenchmarkOf[trace[i].task] = b}
             U == {o \in FullDisclosure : o.right /\ BenchmarkOf[o.task] = b}
             f == [i \in S |-> item(i)]
  <2>1. IsFiniteSet(S)
    <3>1. IsFiniteSet(1 .. T)
      BY <1>1, FS_Interval
    <3>2. S \subseteq 1 .. T
      OBVIOUS
    <3>3. QED
      BY <3>1, <3>2, FS_Subset
  <2>2. \A i \in S : item(i) \in U
    BY <1>4
  <2>3. \A i, j \in S : item(i) = item(j) => i = j
    <3>1. \A i \in S : item(i).task = i
      BY <1>3
    <3>2. QED
      BY <3>1
  <2>4. \A u \in U : \E i \in S : item(i) = u
    BY <1>4
  <2>5. /\ f \in [S -> U]
        /\ \A i, j \in S : f[i] = f[j] => i = j
        /\ \A u \in U : \E i \in S : f[i] = u
    BY <2>2, <2>3, <2>4
  <2> HIDE DEF f, S, U
  <2>6. Cardinality(U) = Cardinality(S)
    BY <2>1, <2>5, AsMany
  <2>7. QED
    BY <1>2, <2>6 DEF Correct, S, U
<1>7. QED
  BY <1>5, <1>6 DEF ScoreDisclosure, CorrectIn, T

\* The observations are the holdout calls, each task in each arm once, and all
\* of an arm under the one condition the arm runs.
LEMMA ObservationsStand ==
  ASSUME FourArmInv, Len(trace) = 7 * SplitTasks + 2
  PROVE  /\ Cardinality(Observations) = 4 * SplitTasks
         /\ {<<o.task, o.arm>> : o \in Observations} = (1 .. SplitTasks) \X ArmRoster
         /\ \A arm \in ArmRoster :
              {o.condition : o \in {p \in Observations : p.arm = arm}} = {HoldoutCondition(arm)}
         /\ \A o \in Observations : /\ o.task \in Nat /\ o.arm \in ArmRoster
                                    /\ o.condition = HoldoutCondition(o.arm)
         /\ \A o \in Observations : \E i \in Nat :
              o = [task |-> o.task, arm |-> o.arm, condition |-> o.condition, reference |-> i]
<1> DEFINE T == SplitTasks
           H == 3 * T + 3 .. 7 * T + 2
           seen(i) == [task |-> trace[i].task, arm |-> trace[i].arm,
                       condition |-> trace[i].condition, reference |-> i]
           f == [i \in H |-> seen(i)]
<1>1. T \in Nat /\ T > 0
  BY PlanSize
<1>2. /\ {i \in DOMAIN trace : trace[i].phase = "HOLDOUT"} = H
      /\ \A i \in H : trace[i].task \in 1 .. T /\ trace[i].arm \in ArmRoster
      /\ \A i \in H : trace[i].condition = HoldoutCondition(trace[i].arm)
      /\ \A t \in 1 .. T, arm \in ArmRoster : \E i \in H : trace[i].task = t /\ trace[i].arm = arm
  BY HoldoutGrid
<1>3. IsFiniteSet(H) /\ Cardinality(H) = 4 * T /\ H \subseteq Nat
  <2>1. 3 * T + 3 \in Int /\ 7 * T + 2 \in Int /\ 3 * T + 3 <= 7 * T + 2
    BY <1>1
  <2>2. IsFiniteSet(H) /\ Cardinality(H) = (7 * T + 2) - (3 * T + 3) + 1
    BY <2>1, FS_Interval
  <2>3. QED
    BY <1>1, <2>2
<1> HIDE DEF T, H
<1>4. Observations = {seen(i) : i \in H}
  BY <1>2 DEF Observations
<1>5. Cardinality(Observations) = 4 * T
  <2>1. \A i, j \in H : seen(i) = seen(j) => i = j
    <3>1. \A i \in H : seen(i).reference = i
      OBVIOUS
    <3>2. QED
      BY <3>1
  <2>2. /\ f \in [H -> Observations]
        /\ \A i, j \in H : f[i] = f[j] => i = j
        /\ \A u \in Observations : \E i \in H : f[i] = u
    BY <1>4, <2>1
  <2> HIDE DEF f
  <2>3. QED
    BY <1>3, <2>2, AsMany
<1>6. {<<o.task, o.arm>> : o \in Observations} = (1 .. T) \X ArmRoster
  <2>1. \A o \in Observations : o.task \in 1 .. T /\ o.arm \in ArmRoster
    BY <1>2, <1>4
  <2>2. \A t \in 1 .. T, arm \in ArmRoster : \E o \in Observations : o.task = t /\ o.arm = arm
    <3> SUFFICES ASSUME NEW t \in 1 .. T, NEW arm \in ArmRoster
                 PROVE  \E o \in Observations : o.task = t /\ o.arm = arm
      OBVIOUS
    <3>1. PICK i \in H : trace[i].task = t /\ trace[i].arm = arm
      BY <1>2
    <3>2. seen(i) \in Observations /\ seen(i).task = t /\ seen(i).arm = arm
      BY <1>4, <3>1
    <3>3. QED
      BY <3>2
  <2>3. QED
    BY <2>1, <2>2
<1>7. \A o \in Observations : o.condition = HoldoutCondition(o.arm)
  BY <1>2, <1>4
<1>8. \A o \in Observations : o.task \in Nat /\ o.arm \in ArmRoster
  BY <1>1, <1>2, <1>4
<1>9. ASSUME NEW arm \in ArmRoster
      PROVE  {o.condition : o \in {p \in Observations : p.arm = arm}} = {HoldoutCondition(arm)}
  <2>1. \A o \in {p \in Observations : p.arm = arm} : o.condition = HoldoutCondition(arm)
    BY <1>7
  <2>2. \E o \in {p \in Observations : p.arm = arm} : TRUE
    <3>1. 1 \in 1 .. T
      BY <1>1
    <3>2. PICK i \in H : trace[i].arm = arm
      BY <1>2, <3>1
    <3>3. seen(i) \in Observations /\ seen(i).arm = arm
      BY <1>4, <3>2
    <3>4. QED
      BY <3>3
  <2>3. QED
    BY <2>1, <2>2
<1>10. ASSUME NEW o \in Observations
       PROVE  \E i \in Nat : o = [task |-> o.task, arm |-> o.arm,
                                  condition |-> o.condition, reference |-> i]
  <2>1. PICK i \in H : o = seen(i)
    BY <1>4
  <2>2. /\ o.task = trace[i].task /\ o.arm = trace[i].arm /\ o.condition = trace[i].condition
        /\ i \in Nat
    BY <1>3, <2>1
  <2>3. QED
    BY <2>1, <2>2
<1>11. QED
  BY <1>5, <1>6, <1>7, <1>8, <1>9, <1>10 DEF T

\* The closure's rules accept what a run records that spent its calls.
LEMMA ClosureIsAccepted ==
  ASSUME FourArmInv, Len(trace) = 7 * SplitTasks + 2,
         candidateFreeze = PlannedFreeze, selectionFreeze = PlannedSelections
  PROVE  ClosureAccepted(ScoreDisclosure, FullDisclosure, candidateFreeze,
                         selectionFreeze.selections, Observations)
<1> DEFINE full == FullDisclosure
           observed == Observations
           ConditionsOf(arm) == {o.condition : o \in {p \in observed : p.arm = arm}}
           shared == candidateFreeze.proposals["SCORE"].parent
           selections == selectionFreeze.selections
<1>1. TraceTyped /\ TraceInPlan /\ Len(trace) >= 3 * SplitTasks + 2
  BY PlanSize DEF FourArmInv
<1>2. /\ {o.task : o \in full} = 1 .. SplitTasks
      /\ ScoreDisclosure = [b \in Benchmarks |->
                              Cardinality({o \in full : o.right /\ BenchmarkOf[o.task] = b})]
  BY DisclosuresAgree
<1>3. /\ Cardinality(observed) = 4 * SplitTasks
      /\ {<<o.task, o.arm>> : o \in observed} = (1 .. SplitTasks) \X ArmRoster
      /\ \A arm \in ArmRoster : ConditionsOf(arm) = {HoldoutCondition(arm)}
  BY ObservationsStand
<1>4. \A arm \in CandidateArms :
        /\ candidateFreeze.proposals[arm].parent = StaticCondition
        /\ candidateFreeze.proposals[arm].condition = Condition(arm, "candidate")
  BY DEF PlannedFreeze
<1>5. /\ shared = StaticCondition /\ candidateFreeze.proposals["FULL"].parent = shared
      /\ "SCORE" \in CandidateArms /\ "FULL" \in CandidateArms
  BY <1>4 DEF CandidateArms
<1> HIDE DEF full, observed, ConditionsOf, shared, selections
<1>6. ASSUME NEW arm \in CandidateArms
      PROVE  LET chosen == selections[arm]  proposal == candidateFreeze.proposals[arm]
             IN  /\ chosen.parent = ScoreDisclosure
                 /\ chosen.condition = IF chosen.promote THEN proposal.condition ELSE proposal.parent
                 /\ chosen.promote = /\ chosen.valid
                                     /\ SumOf(chosen.candidate) > SumOf(chosen.parent)
                                     /\ \A b \in Benchmarks : chosen.candidate[b] >= chosen.parent[b]
                 /\ ConditionsOf(arm) = {chosen.condition}
  <2> DEFINE chosen == selections[arm]
             proposal == candidateFreeze.proposals[arm]
  <2>1. chosen = SelectCandidate(arm, ProposalOf(arm).right)
    BY <1>1, SelectionsFrozen DEF selections
  <2>2. /\ chosen.promote \in BOOLEAN
        /\ chosen.condition = IF chosen.promote THEN Condition(arm, "candidate") ELSE StaticCondition
        /\ ProposalOf(arm).right \in BOOLEAN
    BY <1>1, <2>1, SelectionFacts DEF ArmCalls
  <2>3. /\ chosen.parent = ScoreDisclosure
        /\ chosen.valid = ProposalOf(arm).right
        /\ chosen.candidate = CorrectIn("CANDIDATE", arm)
        /\ chosen.promote = /\ ProposalOf(arm).right
                            /\ \A b \in Benchmarks :
                                 CorrectIn("CANDIDATE", arm)[b] >= CorrectIn("FIT", "STATIC")[b]
                            /\ SumOf(CorrectIn("CANDIDATE", arm)) > SumOf(CorrectIn("FIT", "STATIC"))
    BY <2>1 DEF SelectCandidate, ScoreDisclosure
  <2>4. arm \in ArmRoster /\ HoldoutCondition(arm) = chosen.condition
    BY DEF CandidateArms, ArmRoster, ArmOrder, HoldoutCondition, selections
  <2>5. ConditionsOf(arm) = {chosen.condition}
    BY <1>3, <2>4
  <2>6. chosen.condition = IF chosen.promote THEN proposal.condition ELSE proposal.parent
    BY <1>4, <2>2
  <2>7. chosen.promote = /\ chosen.valid
                         /\ SumOf(chosen.candidate) > SumOf(chosen.parent)
                         /\ \A b \in Benchmarks : chosen.candidate[b] >= chosen.parent[b]
    BY <2>2, <2>3 DEF ScoreDisclosure
  <2>8. QED
    BY <2>3, <2>5, <2>6, <2>7
<1>7. {"PURE", "STATIC", "SCORE", "FULL"} = ArmRoster
  BY DEF ArmRoster, ArmOrder
<1>8. ConditionsOf("STATIC") = {shared}
  BY <1>3, <1>5, <1>7 DEF HoldoutCondition
<1>9. ConditionsOf("PURE") = {Condition("PURE", "bare")}
  BY <1>3, <1>7 DEF HoldoutCondition
<1>10. Cardinality(ConditionsOf("PURE")) = 1
  BY <1>9, FS_Singleton
<1>11. ConditionsOf("PURE") \cap UNION {ConditionsOf(arm) : arm \in ArmRoster \ {"PURE"}} = {}
  <2>1. \A arm \in CandidateArms :
          HoldoutCondition(arm) \in {Condition(arm, "candidate"), StaticCondition}
    BY <1>1, <1>7, HoldoutSetting DEF CandidateArms
  <2>2. HoldoutCondition("STATIC") = StaticCondition
    BY DEF HoldoutCondition
  <2>3. \A arm \in ArmRoster \ {"PURE"} : HoldoutCondition(arm) # Condition("PURE", "bare")
    BY <1>7, <2>1, <2>2 DEF CandidateArms, Condition, StaticCondition
  <2>4. QED
    BY <1>3, <1>9, <2>3
<1>12. QED
  BY <1>2, <1>3, <1>5, <1>6, <1>8, <1>10, <1>11
     DEF ClosureAccepted, ConditionsOf, full, observed, shared, selections

\* Once the calls are spent the run closes.
LEMMA CloseFourArmStep == FourArmInv /\ CloseFourArm => FourArmInv'
<1> SUFFICES ASSUME FourArmInv, CloseFourArm PROVE FourArmInv'
  OBVIOUS
<1>1. Len(trace) = 7 * SplitTasks + 2
  BY DEF FourArmInv, CloseFourArm, StageAtLength
<1>2. candidateFreeze = PlannedFreeze /\ selectionFreeze = PlannedSelections
  BY DEF FourArmInv, CloseFourArm, FreezesStand
<1>3. /\ AttemptsOn("FIXED") = FixedCalls /\ AttemptsOn("PURE") = PureCalls
      /\ ClosureAccepted(ScoreDisclosure, FullDisclosure, candidateFreeze,
                         selectionFreeze.selections, Observations)
  BY <1>1, <1>2, LedgersSpent, ClosureIsAccepted
<1>4. /\ armStage' = "DONE"
      /\ armResult' = [selections |-> selectionFreeze.selections, observed |-> Observations]
      /\ UNCHANGED <<trace, overran, candidateFreeze, selectionFreeze>>
  BY <1>3 DEF CloseFourArm
<1>5. armResult' # Unfrozen
  <2>1. TraceTyped /\ TraceInPlan /\ Len(trace) >= 3 * SplitTasks + 2
    BY <1>1, PlanSize DEF FourArmInv
  <2>2. selectionFreeze.selections \in Selections
    BY <1>2, <2>1, SelectionsFrozen DEF SelectionFreezes
  <2>3. \A arm \in ArmRoster : HoldoutCondition(arm) \in Conditions
    BY <1>2, <2>1, HoldoutSetting
  <2>4. \A o \in Observations :
          o \in [task : Nat, arm : ArmRoster, condition : Conditions, reference : Nat]
    <3> SUFFICES ASSUME NEW o \in Observations
                 PROVE o \in [task : Nat, arm : ArmRoster, condition : Conditions, reference : Nat]
      OBVIOUS
    <3>1. o.task \in Nat /\ o.arm \in ArmRoster /\ o.condition = HoldoutCondition(o.arm)
      BY <1>1, ObservationsStand
    <3>2. PICK i \in Nat :
            o = [task |-> o.task, arm |-> o.arm, condition |-> o.condition, reference |-> i]
      BY <1>1, ObservationsStand
    <3>3. o.condition \in Conditions
      BY <2>3, <3>1
    <3> HIDE DEF Conditions
    <3>4. QED
      BY <3>1, <3>2, <3>3
  <2>5. armResult' \in FourArmClosures
    BY <1>4, <2>2, <2>4 DEF FourArmClosures
  <2>6. QED
    BY <2>5, UnfrozenAssumption
<1>6. TraceTyped' /\ TraceInPlan'
  BY <1>4, NoCallStands DEF FourArmInv
<1>7. PlannedFreeze' = PlannedFreeze /\ PlannedSelections' = PlannedSelections
  BY <1>4 DEF PlannedFreeze, PlannedSelections, SelectCandidate, ProposalOf, CorrectIn, Correct, CallsOf
<1>8. HoldoutsRecorded'
  BY <1>4 DEF FourArmInv, HoldoutsRecorded, HoldoutCondition, HoldoutHarness, CandidateHarness,
              ProposalOf, CallsOf
<1>9. FreezesStand'
  BY <1>2, <1>4, <1>7 DEF FreezesStand
<1>10. StageAtLength' /\ SpentRunCloses'
  BY <1>1, <1>4, <1>5 DEF StageAtLength, SpentRunCloses
<1>11. QED
  BY <1>6, <1>8, <1>9, <1>10 DEF FourArmInv

\* Stuttering.
LEMMA FourArmStutter == FourArmInv /\ UNCHANGED armVars => FourArmInv'
<1> SUFFICES ASSUME FourArmInv, UNCHANGED armVars PROVE FourArmInv'
  OBVIOUS
<1>1. UNCHANGED <<armStage, trace, overran, candidateFreeze, selectionFreeze, armResult>>
  BY DEF armVars
<1>2. TraceTyped' /\ TraceInPlan'
  BY <1>1, NoCallStands DEF FourArmInv
<1>3. PlannedFreeze' = PlannedFreeze /\ PlannedSelections' = PlannedSelections
  BY <1>1 DEF PlannedFreeze, PlannedSelections, SelectCandidate, ProposalOf, CorrectIn, Correct, CallsOf
<1>4. HoldoutsRecorded'
  BY <1>1 DEF FourArmInv, HoldoutsRecorded, HoldoutCondition, HoldoutHarness, CandidateHarness,
              ProposalOf, CallsOf
<1>5. FreezesStand' /\ StageAtLength' /\ SpentRunCloses'
  BY <1>1, <1>3 DEF FourArmInv, FreezesStand, StageAtLength, SpentRunCloses, BlankFits,
                    CallsOf
<1>6. QED
  BY <1>2, <1>4, <1>5 DEF FourArmInv

\* In every run of the four arms, of any number of tasks and with any number of
\* calls that fail or overrun: candidates are tried and holdout tasks are shown
\* only behind their freeze, an adaptive arm shows its own harness on the holdout
\* only if its calls earned it, and a run that spent its calls closes; one raises
\* only over an overrun or a parent's fit answer of white space.
THEOREM FourArmRunStands == FourArmSpec => []FourArmStands
<1>1. FourArmInit => FourArmInv
  BY FourArmStarts
<1>2. FourArmInv /\ [FourArmNext]_armVars => FourArmInv'
  BY StartStep, FitParentStep, ProposeStep, FreezeProposalsStep, FitCandidateStep,
     FreezeSelectionsStep, HoldOutStep, ReserveRefusedStep, CloseFourArmStep, FourArmStutter
     DEF FourArmNext
<1>3. FourArmInv => FourArmStands
  BY InvImpliesEarned DEF FourArmInv, FourArmStands
<1>4. QED
  BY <1>1, <1>2, <1>3, PTL DEF FourArmSpec

-----------------------------------------------------------------------------
(* The repair runs: the ledger is the plan, as far as it got               *)

DevPlans == {FourPlan} \cup OnePlans
Steps == {"NONE", "FIT", "DEFINED", "FROZEN", "ATTRIBUTE", "CLOSE", "DONE", "RAISED"}
PassStages == {"FIT", "PROPOSE", "GATE"}
PassRoles == {"PARENT", "PROPOSER", "CANDIDATE", "REVERT", "PLACEBO"}
PassRules == CandidateRules \cup {"PROPOSER", "CONTROL_NEUTRAL"}
PassRecords == [stage : PassStages, context : Nat, role : PassRoles, rule : PassRules,
                replies : ProposerReplies \cup [Scenarios -> Replies]]

\* Definition calls of a plan, its attribution roles, and the passes of both.
Width(plan) == Len(RoleOrder(plan))
Defined(plan) == 2 * ContextCount(plan)
Total(plan) == Defined(plan) + ContextCount(plan) * Width(plan)

DevTyped ==
  /\ dev \in [step : Steps, plan : DevPlans, context : Nat, role : Nat, lapses : Int]
  /\ passes \in Seq(PassRecords)
  /\ candidates \in Seq(Candidates)
  /\ opened \in BOOLEAN
  /\ \A p \in DOMAIN passes : passes[p].stage = "FIT" => passes[p].replies \in [Scenarios -> Replies]

\* Where the run stands after how many passes.
DevPosition ==
  LET n == ContextCount(dev.plan)
      length == Len(passes)
  IN  /\ dev.step \in {"NONE", "FIT", "ATTRIBUTE"} => dev.context \in 1 .. n
      /\ dev.step = "NONE" => length = 0
      /\ dev.step = "FIT" => length = 2 * (dev.context - 1) \/ length = 2 * dev.context - 1
      /\ dev.step \in {"DEFINED", "FROZEN"} => length = Defined(dev.plan) /\ dev.plan.kind = "FOUR"
      /\ dev.step \in {"DEFINED", "FROZEN"} => dev.context = 1 /\ dev.role = 1
      /\ dev.step = "ATTRIBUTE" =>
           /\ dev.role \in 1 .. Width(dev.plan)
           /\ length = Defined(dev.plan) + (dev.context - 1) * Width(dev.plan) + dev.role - 1
      /\ dev.step \in {"CLOSE", "DONE"} => length = Total(dev.plan)
      /\ length <= Total(dev.plan)

\* The candidates keep up with the proposals.
CandidatesKeepUp ==
  LET n == ContextCount(dev.plan) IN
  /\ dev.step \in {"NONE", "FIT"} => Len(candidates) = dev.context - 1
  /\ dev.step \in {"DEFINED", "FROZEN", "ATTRIBUTE", "CLOSE", "DONE"} => Len(candidates) = n
  /\ Len(candidates) <= n /\ 2 * Len(candidates) <= Len(passes)

LedgerInOrder == \A p \in DOMAIN passes : Key(passes[p]) = ExpectedOrder(dev.plan)[p]

\* A candidate is what its two definition passes make of it.
CandidatesDerived ==
  \A i \in DOMAIN candidates :
    LET reply == passes[2 * i].replies IN
    candidates[i] = [feedback |-> Feedback(dev.plan.contexts[i], passes[2 * i - 1].replies),
                     reply |-> reply, valid |-> Valid(reply), rule |-> AppliedRule(reply)]

\* Every pass answers the rule its role is compiled from.
RulesCompiled ==
  \A p \in DOMAIN passes :
    /\ passes[p].stage = "FIT" => passes[p].rule = "CONSTANT_LEGACY" /\ passes[p].role = "PARENT"
    /\ passes[p].stage = "GATE" =>
         /\ Len(candidates) = ContextCount(dev.plan)
         /\ passes[p].context \in 1 .. ContextCount(dev.plan)
         /\ passes[p].rule = CompiledRule(passes[p].role, candidates[passes[p].context].rule)

\* Nothing follows a pass that overran.
OverrunIsLast == \A p \in DOMAIN passes : PassOverran(passes[p]) => p = Len(passes)

FreezeStands ==
  /\ \/ dev.plan.kind = "FOUR" /\ dev.step \in {"FROZEN", "ATTRIBUTE", "CLOSE", "DONE"}
     \/ opened
     =>
       /\ freeze = [candidates |-> candidates, boundary |-> DefinitionCalls(dev.plan)]
       /\ Len(candidates) = ContextCount(dev.plan)
  /\ dev.step \in {"NONE", "FIT", "DEFINED", "FROZEN"} => ~opened

ResultStands ==
  development # Nothing =>
    /\ dev.step = "DONE" /\ ResourceClosed
    /\ development = [plan |-> dev.plan, candidates |-> candidates,
                      freeze |-> IF dev.plan.kind = "FOUR" THEN freeze ELSE Nothing,
                      observed |-> [i \in Contexts(dev.plan) |-> Observed(dev.plan, i)],
                      gates |-> Gates(dev.plan)]

DevInv ==
  /\ DevTyped /\ DevPosition /\ CandidatesKeepUp /\ LedgerInOrder /\ CandidatesDerived
  /\ RulesCompiled /\ OverrunIsLast /\ FreezeStands /\ ResultStands

-----------------------------------------------------------------------------
(* Plans                                                                   *)

\* The scenarios are finitely many.
LEMMA ScenariosFinite == IsFiniteSet(Scenarios) /\ Cardinality(Scenarios) \in Nat
<1>1. Families \in SUBSET Nat /\ \A family \in Families : family <= 6
  BY DevelopmentAssumption DEF AllFamilies
<1>2. IsFiniteSet(Families)
  <2>1. 6 \in Nat
    OBVIOUS
  <2>2. QED
    BY <1>1, <2>1, FS_BoundedSetOfNaturals
<1> DEFINE roles == {"REPAIRABLE", "NULL", "UNREPAIRABLE", "SHIFT"}
<1>3. {ScenarioRoles[i] : i \in 1 .. 4} = roles
  BY DEF ScenarioRoles
<1>4. IsFiniteSet(roles)
  <2>1. \A S, x : IsFiniteSet(S) => IsFiniteSet(S \cup {x})
    BY FS_AddElement
  <2>2. IsFiniteSet({"REPAIRABLE"} \cup {"NULL"})
    BY <2>1, FS_Singleton
  <2>3. IsFiniteSet(({"REPAIRABLE"} \cup {"NULL"}) \cup {"UNREPAIRABLE"})
    BY <2>1, <2>2
  <2>4. IsFiniteSet((({"REPAIRABLE"} \cup {"NULL"}) \cup {"UNREPAIRABLE"}) \cup {"SHIFT"})
    BY <2>1, <2>3
  <2>5. roles = (({"REPAIRABLE"} \cup {"NULL"}) \cup {"UNREPAIRABLE"}) \cup {"SHIFT"}
    OBVIOUS
  <2>6. QED
    BY <2>4, <2>5
<1>5. IsFiniteSet(Families \X roles)
  BY <1>2, <1>4, FS_Product
<1> DEFINE f == [x \in Families \X roles |-> [family |-> x[1], role |-> x[2]]]
<1>6. f \in Surjection(Families \X roles, Scenarios)
  <2>1. f \in [Families \X roles -> Scenarios]
    BY <1>3 DEF Scenarios, ScenariosOf
  <2>2. \A s \in Scenarios : \E x \in Families \X roles : f[x] = s
    <3> SUFFICES ASSUME NEW s \in Scenarios PROVE \E x \in Families \X roles : f[x] = s
      OBVIOUS
    <3>1. s.family \in Families /\ s.role \in roles /\ s = [family |-> s.family, role |-> s.role]
      BY <1>3 DEF Scenarios, ScenariosOf
    <3>2. f[<<s.family, s.role>>] = s /\ <<s.family, s.role>> \in Families \X roles
      BY <3>1
    <3>3. QED
      BY <3>2
  <2>3. QED
    BY <2>1, <2>2 DEF Surjection
<1> HIDE DEF f, roles
<1>7. IsFiniteSet(Scenarios)
  BY <1>5, <1>6, FS_Surjection
<1>8. QED
  BY <1>7, FS_CardinalityType

\* Every plan has contexts, and three or four attribution roles.
LEMMA PlanFacts ==
  ASSUME NEW plan \in DevPlans
  PROVE  /\ plan.kind \in {"FOUR", "ONE"}
         /\ ContextCount(plan) \in Nat /\ ContextCount(plan) > 0
         /\ Contexts(plan) = 1 .. ContextCount(plan)
         /\ plan.kind = "ONE" => ContextCount(plan) = 1
         /\ Width(plan) = IF plan.kind = "FOUR" THEN 4 ELSE 3
         /\ \A r \in 1 .. Width(plan) :
              RoleOrder(plan)[r] \in {"PARENT", "CANDIDATE", "REVERT", "PLACEBO"}
         /\ \A i \in Contexts(plan) :
              plan.contexts[i].linkage \in {"SCORE", "LINKED", "SHUFFLED"}
<1>1. CASE plan = FourPlan
  <2>1. ContextOrder \in Seq(FactorialCells) /\ Len(ContextOrder) \in Nat /\ Len(ContextOrder) # 0
    BY DevelopmentAssumption, EmptySeq, LenProperties
  <2>2. DOMAIN ContextOrder = 1 .. Len(ContextOrder)
    BY <2>1, LenProperties
  <2>3. plan.kind = "FOUR" /\ DOMAIN plan.contexts = 1 .. Len(ContextOrder)
    BY <1>1, <2>2 DEF FourPlan
  <2>4. Len(plan.contexts) = Len(ContextOrder)
    BY <1>1, <2>1, <2>2 DEF FourPlan
  <2>5. RoleOrder(plan) = FourRoles /\ Len(FourRoles) = 4
    BY <2>3 DEF RoleOrder, FourRoles
  <2>6. \A i \in DOMAIN plan.contexts : plan.contexts[i].linkage \in {"SCORE", "LINKED"}
    BY <1>1, <2>2 DEF FourPlan, DevelopmentContext, Linkage
  <2>7. QED
    BY <2>1, <2>3, <2>4, <2>5, <2>6 DEF Width, ContextCount, Contexts, FourRoles
<1>2. CASE plan \in OnePlans
  <2>1. PICK cell, linkage : /\ plan = OnePlan(cell, linkage)
                             /\ linkage \in {"SCORE", "LINKED", "SHUFFLED"}
    BY <1>2 DEF OnePlans, Linkage
  <2>2. plan.kind = "ONE" /\ plan.contexts = <<DevelopmentContext(cell, linkage)>>
    BY <2>1 DEF OnePlan
  <2>3. RoleOrder(plan) = OneRoles /\ Len(OneRoles) = 3
    BY <2>2 DEF RoleOrder, OneRoles
  <2>4. QED
    BY <2>1, <2>2, <2>3 DEF Width, ContextCount, Contexts, OneRoles, DevelopmentContext
<1>3. QED
  BY <1>1, <1>2 DEF DevPlans

\* The order of the calls: definition calls by context, then attribution calls by
\* context and role.
LEMMA OrderOfPlan ==
  ASSUME NEW plan \in DevPlans
  PROVE  LET n == ContextCount(plan)  w == Width(plan)  order == ExpectedOrder(plan) IN
         /\ Total(plan) \in Nat /\ DOMAIN order = 1 .. Total(plan)
         /\ \A i \in 1 .. n : /\ order[2 * i - 1] = At2("FIT", i, "PARENT")
                              /\ order[2 * i] = At2("PROPOSE", i, "PROPOSER")
         /\ \A i \in 1 .. n, r \in 1 .. w :
              /\ 2 * n + (i - 1) * w + r \in 2 * n + 1 .. Total(plan)
              /\ order[2 * n + (i - 1) * w + r] = At2("GATE", i, RoleOrder(plan)[r])
         /\ \A k \in 1 .. Total(plan) :
              /\ order[k].stage = "GATE" => order[k].context \in 1 .. n
              /\ order[k].stage = "FIT" => k = 2 * order[k].context - 1
              /\ order[k].stage = "PROPOSE" => k = 2 * order[k].context
<1> DEFINE n == ContextCount(plan)
           w == Width(plan)
           order == ExpectedOrder(plan)
           total == Total(plan)
           gate(j) == At2("GATE", (j \div w) + 1, RoleOrder(plan)[(j % w) + 1])
<1>1. n \in Nat /\ n > 0 /\ (w = 4 \/ w = 3)
  BY PlanFacts
<1>2. total = 2 * n + n * w
  BY DEF Total, Defined
<1>3. order = [k \in 1 .. 2 * n + n * w |->
                 IF k <= 2 * n
                 THEN LET i == ((k - 1) \div 2) + 1
                      IN  IF k % 2 = 1 THEN At2("FIT", i, "PARENT") ELSE At2("PROPOSE", i, "PROPOSER")
                 ELSE gate(k - 2 * n - 1)]
  BY DEF ExpectedOrder, Width
<1> HIDE DEF n, w, order, total
<1>4. n * w \in Nat /\ total \in Nat /\ DOMAIN order = 1 .. total
  <2>1. CASE w = 4
    BY <1>1, <1>2, <1>3, <2>1
  <2>2. CASE w = 3
    BY <1>1, <1>2, <1>3, <2>2
  <2>3. QED
    BY <1>1, <2>1, <2>2
<1>5. ASSUME NEW i \in 1 .. n
      PROVE  /\ order[2 * i - 1] = At2("FIT", i, "PARENT")
             /\ order[2 * i] = At2("PROPOSE", i, "PROPOSER")
  <2>1. 2 * i - 1 \in 1 .. 2 * n + n * w /\ 2 * i \in 1 .. 2 * n + n * w /\ 2 * i <= 2 * n
    BY <1>1, <1>4
  <2>2. (2 * i - 1) % 2 = 1 /\ (2 * i) % 2 = 0
    OBVIOUS
  <2>3. (((2 * i - 1) - 1) \div 2) + 1 = i /\ ((2 * i - 1) \div 2) + 1 = i
    OBVIOUS
  <2>4. QED
    BY <1>1, <1>3, <2>1, <2>2, <2>3
<1>6. ASSUME NEW i \in 1 .. n, NEW r \in 1 .. w
      PROVE  /\ 2 * n + (i - 1) * w + r \in 2 * n + 1 .. total
             /\ order[2 * n + (i - 1) * w + r] = At2("GATE", i, RoleOrder(plan)[r])
  <2> DEFINE j == (i - 1) * w + r - 1
             k == 2 * n + (i - 1) * w + r
  <2>1. /\ j \in Nat /\ j \div w = i - 1 /\ j % w = r - 1
        /\ k \in 2 * n + 1 .. 2 * n + n * w /\ k - 2 * n - 1 = j
    <3>1. CASE w = 4
      BY <1>1, <3>1
    <3>2. CASE w = 3
      BY <1>1, <3>2
    <3>3. QED
      BY <1>1, <3>1, <3>2
  <2> HIDE DEF j, k
  <2>2. k \in 1 .. 2 * n + n * w /\ ~(k <= 2 * n)
    BY <1>1, <1>4, <2>1
  <2>3. order[k] = gate(j)
    BY <1>3, <2>1, <2>2
  <2>4. (j \div w) + 1 = i /\ (j % w) + 1 = r
    BY <1>1, <2>1
  <2>5. order[k] = At2("GATE", i, RoleOrder(plan)[r])
    BY <2>3, <2>4
  <2>6. QED
    BY <1>2, <2>1, <2>5 DEF k
<1>7. ASSUME NEW k \in 1 .. total
      PROVE  \/ \E i \in 1 .. n : k = 2 * i - 1 \/ k = 2 * i
             \/ \E i \in 1 .. n, r \in 1 .. w : k = 2 * n + (i - 1) * w + r
  <2>1. CASE k <= 2 * n
    <3>1. ((k - 1) \div 2) + 1 \in 1 .. n
      BY <1>1, <1>4, <2>1
    <3>2. k = 2 * (((k - 1) \div 2) + 1) - 1 \/ k = 2 * (((k - 1) \div 2) + 1)
      BY <1>1, <1>4, <2>1
    <3>3. QED
      BY <3>1, <3>2
  <2>2. CASE k > 2 * n
    <3> DEFINE j == k - 2 * n - 1
               i == (j \div w) + 1
               r == (j % w) + 1
    <3>1. i \in 1 .. n /\ r \in 1 .. w /\ k = 2 * n + (i - 1) * w + r
      <4>1. CASE w = 4
        BY <1>1, <1>2, <2>2, <4>1
      <4>2. CASE w = 3
        BY <1>1, <1>2, <2>2, <4>2
      <4>3. QED
        BY <1>1, <4>1, <4>2
    <3> HIDE DEF i, r
    <3>2. QED
      BY <3>1
  <2>3. QED
    BY <1>1, <1>4, <2>1, <2>2
<1>8. ASSUME NEW k \in 1 .. total
      PROVE  /\ order[k].stage = "GATE" => order[k].context \in 1 .. n
             /\ order[k].stage = "FIT" => k = 2 * order[k].context - 1
             /\ order[k].stage = "PROPOSE" => k = 2 * order[k].context
  <2>1. CASE \E i \in 1 .. n : k = 2 * i - 1 \/ k = 2 * i
    <3>1. PICK i \in 1 .. n : k = 2 * i - 1 \/ k = 2 * i
      BY <2>1
    <3>2. CASE k = 2 * i - 1
      <4>1. order[k] = At2("FIT", i, "PARENT")
        BY <1>5, <3>2
      <4>2. QED
        BY <3>2, <4>1 DEF At2
    <3>3. CASE k = 2 * i
      <4>1. order[k] = At2("PROPOSE", i, "PROPOSER")
        BY <1>5, <3>3
      <4>2. QED
        BY <3>3, <4>1 DEF At2
    <3>4. QED
      BY <3>1, <3>2, <3>3
  <2>2. CASE \E i \in 1 .. n, r \in 1 .. w : k = 2 * n + (i - 1) * w + r
    <3>1. PICK i \in 1 .. n, r \in 1 .. w : k = 2 * n + (i - 1) * w + r
      BY <2>2
    <3>2. order[k] = At2("GATE", i, RoleOrder(plan)[r])
      BY <1>6, <3>1
    <3>3. QED
      BY <3>2 DEF At2
  <2>3. QED
    BY <1>7, <2>1, <2>2
<1>9. QED
  BY <1>4, <1>5, <1>6, <1>8 DEF n, w, order, total

-----------------------------------------------------------------------------
(* What a call adds to the ledger                                          *)

\* A rule answers with a branch, and a pass with replies.
LEMMA RepliesTyped ==
  ASSUME NEW rule, NEW replies \in PassReplies(rule)
  PROVE  replies \in [Scenarios -> Replies] /\ LapsesIn(rule, replies) \in Int
<1>1. Followed(rule) \in [Scenarios -> Replies]
  <2>1. \A s \in Scenarios : BranchForRule(rule, s) \in {"SAFE", "LEGACY"}
    BY DEF BranchForRule
  <2>2. QED
    BY <2>1 DEF Followed, Replies
<1>2. replies = Followed(rule) \/
      \E s \in Scenarios, reply \in Replies : replies = [Followed(rule) EXCEPT ![s] = reply]
  BY DEF PassReplies
<1>3. QED
  BY <1>1, <1>2 DEF LapsesIn

\* What the proposer is shown is a count and, of the scenarios, replies or nothing.
LEMMA FeedbackTyped ==
  ASSUME NEW context, context.linkage \in {"SCORE", "LINKED", "SHUFFLED"},
         NEW replies \in [Scenarios -> Replies]
  PROVE  Feedback(context, replies) \in [right : Nat, items : {Nothing} \cup [Scenarios -> Replies]]
<1> DEFINE among == {s \in Scenarios : replies[s] = Oracle(s)}
<1>1. RightIn(replies, Scenarios) \in Nat
  <2>1. RightIn(replies, Scenarios) = Cardinality(among)
    BY DEF RightIn
  <2>2. among \in SUBSET Scenarios
    OBVIOUS
  <2>3. QED
    BY <2>1, <2>2, ScenariosFinite, FS_Subset, FS_CardinalityType
<1>2. \A s \in Scenarios : [s EXCEPT !.role = NextRole(@)] \in Scenarios
  <2> SUFFICES ASSUME NEW s \in Scenarios PROVE [s EXCEPT !.role = NextRole(@)] \in Scenarios
    OBVIOUS
  <2>1. PICK j \in 1 .. 4 : ScenarioRoles[j] = s.role
    BY DEF Scenarios, ScenariosOf
  <2>2. (CHOOSE k \in 1 .. 4 : ScenarioRoles[k] = s.role) \in 1 .. 4
    BY <2>1
  <2>3. NextRole(s.role) \in {ScenarioRoles[i] : i \in 1 .. 4}
    <3> DEFINE k == CHOOSE k \in 1 .. 4 : ScenarioRoles[k] = s.role
    <3>1. NextRole(s.role) = ScenarioRoles[(k % 4) + 1]
      BY DEF NextRole
    <3>2. k \in 1 .. 4
      BY <2>2
    <3> HIDE DEF k
    <3>3. (k % 4) + 1 \in 1 .. 4
      BY <3>2
    <3>4. QED
      BY <3>1, <3>3
  <2>4. QED
    BY <2>3 DEF Scenarios, ScenariosOf
<1>3. Feedback(context, replies).items \in {Nothing} \cup [Scenarios -> Replies]
  <2>1. CASE context.linkage = "SCORE"
    BY <2>1 DEF Feedback
  <2>2. CASE context.linkage = "LINKED"
    BY <2>2 DEF Feedback
  <2>3. CASE context.linkage = "SHUFFLED"
    <3>1. Feedback(context, replies).items =
            [s \in Scenarios |-> replies[[s EXCEPT !.role = NextRole(@)]]]
      BY <2>3 DEF Feedback
    <3>2. \A s \in Scenarios : replies[[s EXCEPT !.role = NextRole(@)]] \in Replies
      BY <1>2
    <3>3. QED
      BY <3>1, <3>2
  <2>4. QED
    BY <2>1, <2>2, <2>3
<1>4. \E items : Feedback(context, replies) = [right |-> RightIn(replies, Scenarios), items |-> items]
  BY DEF Feedback
<1>5. QED
  BY <1>1, <1>3, <1>4

\* An append in the order of the plan, to a ledger that is not poisoned.
LEMMA PassAppended ==
  ASSUME DevInv, ~LedgerPoisoned, NEW pass \in PassRecords, passes' = Append(passes, pass),
         pass.stage = "FIT" => pass.replies \in [Scenarios -> Replies],
         Key(pass) = ExpectedOrder(dev.plan)[Len(passes) + 1], dev'.plan = dev.plan
  PROVE  /\ passes' \in Seq(PassRecords) /\ Len(passes) \in Nat
         /\ Len(passes') = Len(passes) + 1
         /\ DOMAIN passes = 1 .. Len(passes) /\ DOMAIN passes' = 1 .. Len(passes) + 1
         /\ \A p \in 1 .. Len(passes) : passes'[p] = passes[p]
         /\ passes'[Len(passes) + 1] = pass
         /\ \A p \in DOMAIN passes' :
              passes'[p].stage = "FIT" => passes'[p].replies \in [Scenarios -> Replies]
         /\ LedgerInOrder' /\ OverrunIsLast'
<1> DEFINE n == Len(passes)
<1>1. passes \in Seq(PassRecords)
  BY DEF DevInv, DevTyped
<1>2. /\ passes' \in Seq(PassRecords) /\ n \in Nat /\ Len(passes') = n + 1
      /\ DOMAIN passes = 1 .. n /\ DOMAIN passes' = 1 .. n + 1
      /\ \A p \in 1 .. n : passes'[p] = passes[p]
      /\ passes'[n + 1] = pass
  BY <1>1, AppendProperties, LenProperties
<1>3. \A p \in 1 .. n + 1 : p \in 1 .. n \/ p = n + 1
  BY <1>2
<1>4. \A p \in DOMAIN passes' :
        passes'[p].stage = "FIT" => passes'[p].replies \in [Scenarios -> Replies]
  BY <1>2, <1>3 DEF DevInv, DevTyped
<1>5. \A p \in DOMAIN passes' : Key(passes'[p]) = ExpectedOrder(dev.plan)[p]
  BY <1>2, <1>3 DEF DevInv, LedgerInOrder
<1>6. LedgerInOrder'
  BY <1>5 DEF LedgerInOrder, Key, ExpectedOrder
<1>7. \A p \in 1 .. n : ~PassOverran(passes[p])
  <2> SUFFICES ASSUME NEW p \in 1 .. n, PassOverran(passes[p]) PROVE FALSE
    OBVIOUS
  <2>1. p = n
    BY <1>2 DEF DevInv, OverrunIsLast
  <2>2. passes # <<>>
    <3>1. Len(passes) # Len(<<>>)
      BY <1>2, <2>1, EmptySeq
    <3>2. QED
      BY <3>1
  <2>3. QED
    BY <2>1, <2>2 DEF LedgerPoisoned
<1>8. \A p \in DOMAIN passes' : PassOverran(passes'[p]) => p = n + 1
  BY <1>2, <1>3, <1>7
<1>9. OverrunIsLast'
  BY <1>2, <1>8 DEF OverrunIsLast, PassOverran
<1>10. QED
  BY <1>2, <1>4, <1>6, <1>9

-----------------------------------------------------------------------------
(* The definition passes                                                   *)

\* The first state has no pass and no result.
LEMMA DevStarts == DevInit => DevInv
<1> SUFFICES ASSUME DevInit PROVE DevInv
  OBVIOUS
<1>1. FourPlan \in DevPlans
  BY DEF DevPlans
<1>2. /\ ContextCount(FourPlan) \in Nat /\ ContextCount(FourPlan) > 0
      /\ Total(FourPlan) \in Nat
  BY <1>1, PlanFacts, OrderOfPlan
<1>3. /\ passes = <<>> /\ candidates = <<>> /\ Len(passes) = 0 /\ Len(candidates) = 0
      /\ DOMAIN passes = {} /\ DOMAIN candidates = {}
      /\ passes \in Seq(PassRecords) /\ candidates \in Seq(Candidates)
  BY EmptySeq DEF DevInit
<1>4. /\ dev.step = "NONE" /\ dev.plan = FourPlan /\ dev.context = 1
      /\ opened = FALSE /\ development = Nothing
  BY DEF DevInit
<1>5. DevTyped
  <2>1. dev = [step |-> "NONE", plan |-> FourPlan, context |-> 1, role |-> 0, lapses |-> 0]
    BY DEF DevInit
  <2>2. dev \in [step : Steps, plan : DevPlans, context : Nat, role : Nat, lapses : Int]
    BY <1>1, <2>1 DEF Steps
  <2>3. QED
    BY <1>3, <1>4, <2>2 DEF DevTyped
<1>6. DevPosition /\ CandidatesKeepUp
  BY <1>2, <1>3, <1>4 DEF DevPosition, CandidatesKeepUp
<1>7. LedgerInOrder /\ CandidatesDerived /\ RulesCompiled /\ OverrunIsLast
  BY <1>3 DEF LedgerInOrder, CandidatesDerived, RulesCompiled, OverrunIsLast
<1>8. FreezeStands /\ ResultStands
  BY <1>4 DEF FreezeStands, ResultStands
<1>9. QED
  BY <1>5, <1>6, <1>7, <1>8 DEF DevInv

\* A run begins with the first context of its plan.
LEMMA BeginStep ==
  ASSUME DevInv, NEW plan \in DevPlans, Begin(plan)
  PROVE  DevInv'
<1>1. /\ ContextCount(plan) \in Nat /\ ContextCount(plan) > 0 /\ Total(plan) \in Nat
  BY PlanFacts, OrderOfPlan
<1>2. /\ dev.step = "NONE"
      /\ dev' = [step |-> "FIT", plan |-> plan, context |-> 1, role |-> 0, lapses |-> 0]
      /\ UNCHANGED <<passes, candidates, freeze, opened, development>>
  BY DEF Begin
<1>3. /\ dev'.step = "FIT" /\ dev'.plan = plan /\ dev'.context = 1
      /\ dev' \in [step : Steps, plan : DevPlans, context : Nat, role : Nat, lapses : Int]
  BY <1>2 DEF Steps
<1>4. passes \in Seq(PassRecords) /\ candidates \in Seq(Candidates)
  BY DEF DevInv, DevTyped
<1>5. Len(passes) = 0 /\ Len(candidates) = 0
  <2>1. Len(passes) = 0 /\ Len(candidates) \in Nat /\ 2 * Len(candidates) <= Len(passes)
    BY <1>2, <1>4, LenProperties DEF DevInv, DevPosition, CandidatesKeepUp
  <2>2. QED
    BY <2>1
<1>6. DOMAIN passes = {} /\ DOMAIN candidates = {}
  BY <1>4, <1>5, LenProperties
<1>7. ~opened /\ development = Nothing
  BY <1>2 DEF DevInv, FreezeStands, ResultStands
<1>8. DevTyped'
  BY <1>2, <1>3 DEF DevInv, DevTyped
<1>9. DevPosition' /\ CandidatesKeepUp'
  BY <1>1, <1>2, <1>3, <1>5 DEF DevPosition, CandidatesKeepUp
<1>10. LedgerInOrder' /\ CandidatesDerived' /\ RulesCompiled' /\ OverrunIsLast'
  BY <1>2, <1>6 DEF LedgerInOrder, CandidatesDerived, RulesCompiled, OverrunIsLast
<1>11. FreezeStands' /\ ResultStands'
  BY <1>2, <1>3, <1>7 DEF FreezeStands, ResultStands
<1>12. QED
  BY <1>8, <1>9, <1>10, <1>11 DEF DevInv

\* The parent's pass of a context.
LEMMA ObserveParentStep == DevInv /\ ObserveParent => DevInv'
<1> SUFFICES ASSUME DevInv, ObserveParent PROVE DevInv'
  OBVIOUS
<1> DEFINE c == dev.context
           n == ContextCount(dev.plan)
           k == Len(passes)
<1>1. PICK replies \in PassReplies("CONSTANT_LEGACY") :
        /\ passes' = Append(passes, Pass("FIT", c, "PARENT", "CONSTANT_LEGACY", replies))
        /\ dev' = [dev EXCEPT !.lapses = @ + LapsesIn("CONSTANT_LEGACY", replies)]
  BY DEF ObserveParent, RunPass
<1>2. /\ dev.step = "FIT" /\ ~LedgerPoisoned /\ k = 2 * (c - 1)
      /\ UNCHANGED <<candidates, freeze, opened, development>>
  BY DEF ObserveParent, Running
<1>3. /\ dev \in [step : Steps, plan : DevPlans, context : Nat, role : Nat, lapses : Int]
      /\ c \in 1 .. n /\ Len(candidates) = c - 1
  BY <1>2 DEF DevInv, DevTyped, DevPosition, CandidatesKeepUp
<1>4. dev.plan \in DevPlans /\ n \in Nat /\ Total(dev.plan) \in Nat /\ 2 * n <= Total(dev.plan)
  <2>1. dev.plan \in DevPlans /\ n \in Nat /\ Total(dev.plan) \in Nat
    BY <1>3, PlanFacts, OrderOfPlan
  <2>2. Width(dev.plan) = 4 \/ Width(dev.plan) = 3
    BY <2>1, PlanFacts
  <2>3. CASE Width(dev.plan) = 4
    BY <2>1, <2>3 DEF Total, Defined
  <2>4. CASE Width(dev.plan) = 3
    BY <2>1, <2>4 DEF Total, Defined
  <2>5. QED
    BY <2>1, <2>2, <2>3, <2>4
<1>5. replies \in [Scenarios -> Replies] /\ LapsesIn("CONSTANT_LEGACY", replies) \in Int
  BY RepliesTyped
<1>6. /\ dev'.step = "FIT" /\ dev'.plan = dev.plan /\ dev'.context = c
      /\ dev' \in [step : Steps, plan : DevPlans, context : Nat, role : Nat, lapses : Int]
  <2> DEFINE lapses == dev.lapses + LapsesIn("CONSTANT_LEGACY", replies)
  <2>1. lapses \in Int
    BY <1>3, <1>5
  <2>2. dev' = [dev EXCEPT !.lapses = lapses]
    BY <1>1
  <2> HIDE DEF lapses
  <2>3. QED
    BY <1>2, <1>3, <2>1, <2>2
<1> DEFINE pass == Pass("FIT", c, "PARENT", "CONSTANT_LEGACY", replies)
<1>7. /\ pass \in PassRecords /\ pass.stage = "FIT" /\ pass.replies = replies
      /\ pass.rule = "CONSTANT_LEGACY" /\ pass.role = "PARENT" /\ pass.context = c
      /\ Key(pass) = At2("FIT", c, "PARENT")
  BY <1>3, <1>5 DEF Pass, PassRecords, PassStages, PassRoles, PassRules, CandidateRules, Key, At2
<1> HIDE DEF pass
<1>8. Key(pass) = ExpectedOrder(dev.plan)[k + 1]
  <2>1. ExpectedOrder(dev.plan)[2 * c - 1] = At2("FIT", c, "PARENT")
    BY <1>3, <1>4, OrderOfPlan
  <2>2. k + 1 = 2 * c - 1
    BY <1>2, <1>3, <1>4
  <2>3. QED
    BY <1>7, <2>1, <2>2
<1>9. /\ passes' \in Seq(PassRecords) /\ k \in Nat /\ Len(passes') = k + 1
      /\ DOMAIN passes = 1 .. k /\ DOMAIN passes' = 1 .. k + 1
      /\ \A p \in 1 .. k : passes'[p] = passes[p]
      /\ passes'[k + 1] = pass
      /\ \A p \in DOMAIN passes' :
           passes'[p].stage = "FIT" => passes'[p].replies \in [Scenarios -> Replies]
      /\ LedgerInOrder' /\ OverrunIsLast'
  BY <1>1, <1>2, <1>5, <1>6, <1>7, <1>8, PassAppended DEF pass
<1> HIDE DEF k
<1>10. DevTyped'
  BY <1>2, <1>6, <1>9 DEF DevInv, DevTyped
<1>11. DevPosition'
  BY <1>2, <1>3, <1>4, <1>6, <1>9 DEF DevPosition, k
<1>12. CandidatesKeepUp'
  BY <1>2, <1>3, <1>4, <1>6, <1>9 DEF DevInv, CandidatesKeepUp, k
<1>13. CandidatesDerived'
  <2>1. DOMAIN candidates = 1 .. c - 1
    BY <1>3, LenProperties DEF DevInv, DevTyped
  <2>2. \A i \in DOMAIN candidates : 2 * i \in 1 .. k /\ 2 * i - 1 \in 1 .. k
    BY <1>2, <1>3, <1>9, <2>1
  <2>3. \A i \in DOMAIN candidates :
          passes'[2 * i] = passes[2 * i] /\ passes'[2 * i - 1] = passes[2 * i - 1]
    BY <1>9, <2>2
  <2>4. QED
    BY <1>2, <1>6, <2>3 DEF DevInv, CandidatesDerived
<1>14. RulesCompiled'
  <2>1. \A p \in 1 .. k + 1 : p \in 1 .. k \/ p = k + 1
    BY <1>9
  <2>2. ASSUME NEW p \in DOMAIN passes'
        PROVE  /\ passes'[p].stage = "FIT" =>
                    passes'[p].rule = "CONSTANT_LEGACY" /\ passes'[p].role = "PARENT"
               /\ passes'[p].stage = "GATE" =>
                    /\ Len(candidates) = n
                    /\ passes'[p].context \in 1 .. n
                    /\ passes'[p].rule =
                         CompiledRule(passes'[p].role, candidates[passes'[p].context].rule)
    <3>1. CASE p \in 1 .. k
      BY <1>9, <3>1 DEF DevInv, RulesCompiled
    <3>2. CASE p = k + 1
      BY <1>7, <1>9, <3>2
    <3>3. QED
      BY <1>9, <2>1, <3>1, <3>2
  <2>3. QED
    BY <1>2, <1>6, <2>2 DEF RulesCompiled
<1>15. FreezeStands' /\ ResultStands'
  BY <1>2, <1>6 DEF DevInv, FreezeStands, ResultStands
<1>16. QED
  BY <1>9, <1>10, <1>11, <1>12, <1>13, <1>14, <1>15 DEF DevInv

\* What holds of the plan, the ledger and the candidates in any state.
LEMMA DevFacts ==
  ASSUME DevInv
  PROVE  /\ dev \in [step : Steps, plan : DevPlans, context : Nat, role : Nat, lapses : Int]
         /\ ContextCount(dev.plan) \in Nat /\ ContextCount(dev.plan) > 0
         /\ Width(dev.plan) = 4 \/ Width(dev.plan) = 3
         /\ Defined(dev.plan) = 2 * ContextCount(dev.plan)
         /\ Total(dev.plan) = 2 * ContextCount(dev.plan) + ContextCount(dev.plan) * Width(dev.plan)
         /\ Total(dev.plan) \in Nat
         /\ passes \in Seq(PassRecords) /\ Len(passes) \in Nat /\ DOMAIN passes = 1 .. Len(passes)
         /\ candidates \in Seq(Candidates) /\ Len(candidates) \in Nat
         /\ DOMAIN candidates = 1 .. Len(candidates)
<1>1. /\ dev \in [step : Steps, plan : DevPlans, context : Nat, role : Nat, lapses : Int]
      /\ passes \in Seq(PassRecords) /\ candidates \in Seq(Candidates)
  BY DEF DevInv, DevTyped
<1>2. /\ ContextCount(dev.plan) \in Nat /\ ContextCount(dev.plan) > 0
      /\ Width(dev.plan) = 4 \/ Width(dev.plan) = 3
      /\ Total(dev.plan) \in Nat
  BY <1>1, PlanFacts, OrderOfPlan
<1>3. QED
  BY <1>1, <1>2, LenProperties DEF Total, Defined

\* The proposer's call of a context completes its candidate.
LEMMA ProposerCalled ==
  ASSUME DevInv, NEW reply \in ProposerReplies, CallProposer(reply),
         dev' \in [step : Steps, plan : DevPlans, context : Nat, role : Nat, lapses : Int],
         dev'.plan = dev.plan,
         \/ dev'.step = "FIT" /\ dev'.context = dev.context + 1
            /\ dev.context < ContextCount(dev.plan)
         \/ dev'.step = "DEFINED" /\ dev'.context = 1 /\ dev'.role = 1
            /\ dev.plan.kind = "FOUR" /\ ~(dev.context < ContextCount(dev.plan))
         \/ dev'.step = "ATTRIBUTE" /\ dev'.context = dev.context /\ dev'.role = 1
            /\ dev.plan.kind = "ONE"
  PROVE  DevInv'
<1> DEFINE c == dev.context
           n == ContextCount(dev.plan)
           k == Len(passes)
           pass == Pass("PROPOSE", c, "PROPOSER", "PROPOSER", reply)
           fed == Feedback(dev.plan.contexts[c], passes[k].replies)
           candidate == [feedback |-> fed, reply |-> reply, valid |-> Valid(reply),
                         rule |-> AppliedRule(reply)]
<1>1. /\ dev.step = "FIT" /\ ~LedgerPoisoned /\ k = 2 * c - 1
      /\ passes' = Append(passes, pass)
      /\ candidates' = Append(candidates, candidate)
      /\ UNCHANGED <<freeze, opened, development>>
  BY DEF CallProposer, Running, Context
<1>2. /\ n \in Nat /\ n > 0
      /\ Width(dev.plan) = 4 \/ Width(dev.plan) = 3
      /\ Total(dev.plan) = 2 * n + n * Width(dev.plan) /\ Total(dev.plan) \in Nat
      /\ dev.plan \in DevPlans /\ Defined(dev.plan) = 2 * n
      /\ Len(candidates) \in Nat /\ DOMAIN candidates = 1 .. Len(candidates)
      /\ candidates \in Seq(Candidates)
  BY DevFacts
<1>3. c \in 1 .. n /\ Len(candidates) = c - 1
  BY <1>1 DEF DevInv, DevPosition, CandidatesKeepUp
<1>4. 2 * n <= Total(dev.plan) /\ (dev.plan.kind = "ONE" => n = 1)
  <2>1. CASE Width(dev.plan) = 4
    BY <1>2, <2>1, PlanFacts
  <2>2. CASE Width(dev.plan) = 3
    BY <1>2, <2>2, PlanFacts
  <2>3. QED
    BY <1>2, <2>1, <2>2
<1>5. /\ pass \in PassRecords /\ pass.stage = "PROPOSE" /\ pass.replies = reply
      /\ Key(pass) = At2("PROPOSE", c, "PROPOSER")
  BY <1>3, <1>2 DEF Pass, PassRecords, PassStages, PassRoles, PassRules, CandidateRules, Key, At2
<1> HIDE DEF pass
<1>6. Key(pass) = ExpectedOrder(dev.plan)[k + 1]
  <2>1. ExpectedOrder(dev.plan)[2 * c] = At2("PROPOSE", c, "PROPOSER")
    BY <1>3, <1>2, OrderOfPlan
  <2>2. k + 1 = 2 * c
    BY <1>1, <1>3, <1>2
  <2>3. QED
    BY <1>5, <2>1, <2>2
<1>7. /\ passes' \in Seq(PassRecords) /\ k \in Nat /\ Len(passes') = k + 1
      /\ DOMAIN passes = 1 .. k /\ DOMAIN passes' = 1 .. k + 1
      /\ \A p \in 1 .. k : passes'[p] = passes[p]
      /\ passes'[k + 1] = pass
      /\ \A p \in DOMAIN passes' :
           passes'[p].stage = "FIT" => passes'[p].replies \in [Scenarios -> Replies]
      /\ LedgerInOrder' /\ OverrunIsLast'
  BY <1>1, <1>5, <1>6, PassAppended
<1> HIDE DEF k
<1>7a. k = 2 * c - 1 /\ c \in 1 .. n /\ n \in Nat /\ k \in Nat
  BY <1>1, <1>2, <1>3, <1>7 DEF k
<1>8. passes[k].stage = "FIT" /\ passes[k].replies \in [Scenarios -> Replies]
  <2>1. k \in 1 .. k /\ k = 2 * c - 1
    BY <1>7a
  <2>2. Key(passes[k]) = At2("FIT", c, "PARENT")
    BY <1>2, <1>3, <1>7, <2>1, OrderOfPlan DEF DevInv, LedgerInOrder
  <2>3. passes[k].stage = "FIT"
    BY <2>2 DEF Key, At2
  <2>4. QED
    BY <1>7, <2>1, <2>3 DEF DevInv, DevTyped
<1>9. candidate \in Candidates
  <2>1. dev.plan.contexts[c].linkage \in {"SCORE", "LINKED", "SHUFFLED"}
    BY <1>2, <1>3, PlanFacts
  <2>2. fed \in [right : Nat, items : {Nothing} \cup [Scenarios -> Replies]]
    BY <1>8, <2>1, FeedbackTyped
  <2>3. Valid(reply) \in BOOLEAN /\ AppliedRule(reply) \in CandidateRules
    BY DEF Valid, AppliedRule, CandidateRules
  <2> HIDE DEF fed
  <2>4. QED
    BY <2>2, <2>3 DEF Candidates
<1> HIDE DEF candidate
<1>10. /\ candidates' \in Seq(Candidates) /\ Len(candidates') = c
       /\ DOMAIN candidates' = 1 .. c
       /\ \A i \in 1 .. c - 1 : candidates'[i] = candidates[i]
       /\ candidates'[c] = candidate
  <2>1. /\ candidates' \in Seq(Candidates) /\ Len(candidates') = Len(candidates) + 1
        /\ \A i \in 1 .. Len(candidates) : candidates'[i] = candidates[i]
        /\ candidates'[Len(candidates) + 1] = candidate
    BY <1>1, <1>2, <1>9, AppendProperties
  <2>2. Len(candidates) = c - 1 /\ Len(candidates) + 1 = c
    BY <1>2, <1>3
  <2>3. DOMAIN candidates' = 1 .. Len(candidates')
    BY <2>1, LenProperties
  <2>4. QED
    BY <2>1, <2>2, <2>3
<1>11. DevTyped'
  <2>1. opened \in BOOLEAN
    BY DEF DevInv, DevTyped
  <2>2. QED
    BY <1>1, <1>7, <1>10, <2>1 DEF DevTyped
<1>12. Len(passes') = 2 * c
  BY <1>7, <1>7a
<1>13. DevPosition' /\ CandidatesKeepUp'
  <2>1. CASE dev'.step = "FIT" /\ dev'.context = c + 1 /\ c < n
    <3>1. c + 1 \in 1 .. n /\ 2 * c = 2 * ((c + 1) - 1) /\ 2 * c <= Total(dev.plan)
      <4>1. c \in Nat /\ n \in Nat /\ Total(dev.plan) \in Nat /\ 2 * n <= Total(dev.plan)
        BY <1>7a, <1>2, <1>4
      <4>2. c < n
        BY <2>1
      <4> HIDE DEF c, n
      <4>3. QED
        BY <4>1, <4>2
    <3>2. DevPosition'
      BY <1>12, <2>1, <3>1 DEF DevPosition
    <3>3. c = (c + 1) - 1 /\ c <= n /\ 2 * c <= 2 * c
      BY <1>7a, <2>1
    <3>4. CandidatesKeepUp'
      BY <1>10, <1>12, <2>1, <3>3 DEF CandidatesKeepUp
    <3>5. QED
      BY <3>2, <3>4
  <2>2. CASE /\ dev'.step = "DEFINED" /\ dev'.context = 1 /\ dev'.role = 1
             /\ dev.plan.kind = "FOUR" /\ ~(c < n)
    <3>1. c = n
      BY <1>2, <1>3, <2>2
    <3>2. QED
      BY <1>2, <1>4, <1>10, <1>12, <2>2, <3>1 DEF DevPosition, CandidatesKeepUp
  <2>3. CASE /\ dev'.step = "ATTRIBUTE" /\ dev'.context = c /\ dev'.role = 1
             /\ dev.plan.kind = "ONE"
    <3>1. c = n /\ n = 1
      BY <1>2, <1>3, <1>4, <2>3
    <3>2. Defined(dev.plan) + (1 - 1) * Width(dev.plan) + 1 - 1 = 2 /\ 1 \in 1 .. Width(dev.plan)
      BY <1>2, <3>1
    <3>3. QED
      BY <1>2, <1>4, <1>10, <1>12, <2>3, <3>1, <3>2 DEF DevPosition, CandidatesKeepUp
  <2>4. QED
    BY <2>1, <2>2, <2>3
<1>14. CandidatesDerived'
  <2>1. \A i \in 1 .. c : i \in 1 .. c - 1 \/ i = c
    BY <1>2, <1>3
  <2>2. ASSUME NEW i \in 1 .. c
        PROVE  candidates'[i] =
                 [feedback |-> Feedback(dev.plan.contexts[i], passes'[2 * i - 1].replies),
                  reply |-> passes'[2 * i].replies, valid |-> Valid(passes'[2 * i].replies),
                  rule |-> AppliedRule(passes'[2 * i].replies)]
    <3>1. CASE i \in 1 .. c - 1
      <4>1. 2 * i \in 1 .. k /\ 2 * i - 1 \in 1 .. k
        BY <1>7a, <3>1
      <4>2. passes'[2 * i] = passes[2 * i] /\ passes'[2 * i - 1] = passes[2 * i - 1]
        BY <1>7, <4>1
      <4>3. QED
        BY <1>2, <1>3, <1>10, <3>1, <4>2 DEF DevInv, CandidatesDerived
    <3>2. CASE i = c
      <4>1. 2 * c = k + 1 /\ 2 * c - 1 = k /\ k \in 1 .. k
        BY <1>7a
      <4>2. passes'[2 * c].replies = reply /\ passes'[2 * c - 1] = passes[k]
        BY <1>5, <1>7, <4>1
      <4>3. QED
        BY <1>10, <3>2, <4>2 DEF candidate
    <3>3. QED
      BY <2>1, <3>1, <3>2
  <2>3. QED
    BY <1>10, <2>2 DEF CandidatesDerived
<1>15. RulesCompiled'
  <2>1. \A p \in 1 .. k + 1 : p \in 1 .. k \/ p = k + 1
    BY <1>7
  <2>2. Len(candidates) # n
    BY <1>2, <1>3
  <2>3. ASSUME NEW p \in DOMAIN passes'
        PROVE  /\ passes'[p].stage = "FIT" =>
                    passes'[p].rule = "CONSTANT_LEGACY" /\ passes'[p].role = "PARENT"
               /\ passes'[p].stage # "GATE"
    <3>1. CASE p \in 1 .. k
      BY <1>7, <2>2, <3>1 DEF DevInv, RulesCompiled
    <3>2. CASE p = k + 1
      BY <1>5, <1>7, <3>2
    <3>3. QED
      BY <1>7, <2>1, <3>1, <3>2
  <2>4. QED
    BY <2>3 DEF RulesCompiled
<1>16. FreezeStands' /\ ResultStands'
  <2>1. ~opened /\ development = Nothing
    BY <1>1 DEF DevInv, FreezeStands, ResultStands
  <2>2. QED
    BY <1>1, <2>1 DEF FreezeStands, ResultStands
<1>17. QED
  BY <1>7, <1>11, <1>13, <1>14, <1>15, <1>16 DEF DevInv

\* After the last proposal the four-context run freezes and the single one is compared.
LEMMA ProposerStep ==
  ASSUME DevInv, NEW reply \in ProposerReplies, ProposeFour(reply) \/ ProposeOne(reply)
  PROVE  DevInv'
<1>1. /\ dev \in [step : Steps, plan : DevPlans, context : Nat, role : Nat, lapses : Int]
      /\ CallProposer(reply)
  BY DevFacts DEF ProposeFour, ProposeOne
<1>2. CASE ProposeFour(reply) /\ dev.context < ContextCount(dev.plan)
  <2>1. dev' = [dev EXCEPT !.context = @ + 1] /\ dev.step = "FIT"
    BY <1>2 DEF ProposeFour, CallProposer, Running
  <2>2. /\ dev' \in [step : Steps, plan : DevPlans, context : Nat, role : Nat, lapses : Int]
        /\ dev'.plan = dev.plan /\ dev'.step = "FIT" /\ dev'.context = dev.context + 1
    BY <1>1, <2>1
  <2>3. QED
    BY <1>1, <1>2, <2>2, ProposerCalled
<1>3. CASE ProposeFour(reply) /\ ~(dev.context < ContextCount(dev.plan))
  <2>1. /\ dev' = [dev EXCEPT !.step = "DEFINED", !.context = 1, !.role = 1]
        /\ dev.plan.kind = "FOUR"
    BY <1>3 DEF ProposeFour
  <2>2. /\ dev' \in [step : Steps, plan : DevPlans, context : Nat, role : Nat, lapses : Int]
        /\ dev'.plan = dev.plan /\ dev'.step = "DEFINED" /\ dev'.context = 1 /\ dev'.role = 1
    BY <1>1, <2>1 DEF Steps
  <2>3. QED
    BY <1>1, <1>3, <2>1, <2>2, ProposerCalled
<1>4. CASE ProposeOne(reply)
  <2>1. dev' = [dev EXCEPT !.step = "ATTRIBUTE", !.role = 1] /\ dev.plan.kind = "ONE"
    BY <1>4 DEF ProposeOne
  <2>2. /\ dev' \in [step : Steps, plan : DevPlans, context : Nat, role : Nat, lapses : Int]
        /\ dev'.plan = dev.plan /\ dev'.step = "ATTRIBUTE" /\ dev'.context = dev.context
        /\ dev'.role = 1
    BY <1>1, <2>1 DEF Steps
  <2>3. QED
    BY <1>1, <2>1, <2>2, ProposerCalled
<1>5. QED
  BY <1>2, <1>3, <1>4

-----------------------------------------------------------------------------
(* Freeze, gate and closure                                                *)

\* A step that makes no call leaves what is known of the ledger.
LEMMA LedgerUnchanged ==
  ASSUME DevInv, UNCHANGED <<passes, candidates>>, opened' \in BOOLEAN, dev'.plan = dev.plan,
         dev' \in [step : Steps, plan : DevPlans, context : Nat, role : Nat, lapses : Int]
  PROVE  /\ DevTyped' /\ LedgerInOrder' /\ CandidatesDerived' /\ RulesCompiled' /\ OverrunIsLast'
<1>1. DevTyped'
  BY DEF DevInv, DevTyped
<1>2. LedgerInOrder'
  BY DEF DevInv, LedgerInOrder, Key, ExpectedOrder
<1>3. CandidatesDerived'
  BY DEF DevInv, CandidatesDerived
<1>4. RulesCompiled'
  BY DEF DevInv, RulesCompiled
<1>5. OverrunIsLast'
  BY DEF DevInv, OverrunIsLast, PassOverran
<1>6. QED
  BY <1>1, <1>2, <1>3, <1>4, <1>5

\* The freeze binds the candidates at the end of the definition calls.
LEMMA FreezeStep == DevInv /\ FreezeJointly => DevInv'
<1> SUFFICES ASSUME DevInv, FreezeJointly PROVE DevInv'
  OBVIOUS
<1>1. /\ dev.step = "DEFINED" /\ CallsMade = DefinitionCalls(dev.plan)
      /\ freeze' = [candidates |-> candidates, boundary |-> CallsMade]
      /\ dev' = [dev EXCEPT !.step = "FROZEN"]
      /\ UNCHANGED <<passes, candidates, opened, development>>
  BY DEF FreezeJointly, Running
<1>2. dev \in [step : Steps, plan : DevPlans, context : Nat, role : Nat, lapses : Int]
  BY DevFacts
<1>3. /\ dev'.step = "FROZEN" /\ dev'.plan = dev.plan
      /\ dev'.context = dev.context /\ dev'.role = dev.role
      /\ dev' \in [step : Steps, plan : DevPlans, context : Nat, role : Nat, lapses : Int]
  BY <1>1, <1>2 DEF Steps
<1>4. opened \in BOOLEAN /\ ~opened /\ development = Nothing
      /\ Len(candidates) = ContextCount(dev.plan)
  BY <1>1 DEF DevInv, DevTyped, FreezeStands, ResultStands, CandidatesKeepUp
<1>5. DevTyped' /\ LedgerInOrder' /\ CandidatesDerived' /\ RulesCompiled' /\ OverrunIsLast'
  BY <1>1, <1>3, <1>4, LedgerUnchanged
<1>6. DevPosition'
  BY <1>1, <1>3 DEF DevInv, DevPosition
<1>7. CandidatesKeepUp'
  BY <1>1, <1>3 DEF DevInv, CandidatesKeepUp
<1>8. FreezeStands'
  BY <1>1, <1>3, <1>4 DEF FreezeStands
<1>9. ResultStands'
  BY <1>1, <1>4 DEF ResultStands
<1>10. QED
  BY <1>5, <1>6, <1>7, <1>8, <1>9 DEF DevInv

\* The gate scenarios are opened by a run that froze.
LEMMA OpenStep == DevInv /\ OpenGate => DevInv'
<1> SUFFICES ASSUME DevInv, OpenGate PROVE DevInv'
  OBVIOUS
<1>1. /\ dev.step = "FROZEN" /\ opened' = TRUE
      /\ dev' = [dev EXCEPT !.step = "ATTRIBUTE"]
      /\ UNCHANGED <<passes, candidates, freeze, development>>
  BY DEF OpenGate, Running
<1>2. /\ dev \in [step : Steps, plan : DevPlans, context : Nat, role : Nat, lapses : Int]
      /\ ContextCount(dev.plan) \in Nat /\ ContextCount(dev.plan) > 0
      /\ Width(dev.plan) = 4 \/ Width(dev.plan) = 3
      /\ Defined(dev.plan) = 2 * ContextCount(dev.plan)
  BY DevFacts
<1>3. /\ dev'.step = "ATTRIBUTE" /\ dev'.plan = dev.plan
      /\ dev'.context = dev.context /\ dev'.role = dev.role
      /\ dev' \in [step : Steps, plan : DevPlans, context : Nat, role : Nat, lapses : Int]
  BY <1>1, <1>2 DEF Steps
<1>4. /\ dev.context = 1 /\ dev.role = 1 /\ Len(passes) = Defined(dev.plan)
      /\ Len(passes) <= Total(dev.plan)
  BY <1>1 DEF DevInv, DevPosition
<1>5. DevTyped' /\ LedgerInOrder' /\ CandidatesDerived' /\ RulesCompiled' /\ OverrunIsLast'
  BY <1>1, <1>3, LedgerUnchanged
<1>6. DevPosition'
  <2>1. /\ Defined(dev.plan) + (1 - 1) * Width(dev.plan) + 1 - 1 = Defined(dev.plan)
        /\ 1 \in 1 .. Width(dev.plan) /\ 1 \in 1 .. ContextCount(dev.plan)
    BY <1>2
  <2>2. QED
    BY <1>1, <1>3, <1>4, <2>1 DEF DevPosition
<1>7. CandidatesKeepUp'
  BY <1>1, <1>3 DEF DevInv, CandidatesKeepUp
<1>8. FreezeStands'
  BY <1>1, <1>3, <1>4 DEF DevInv, FreezeStands, DevPosition
<1>9. ResultStands'
  BY <1>1 DEF DevInv, ResultStands
<1>10. QED
  BY <1>5, <1>6, <1>7, <1>8, <1>9 DEF DevInv

\* An overrun ends the run where it stands.
LEMMA RaiseStep == DevInv /\ Raise => DevInv'
<1> SUFFICES ASSUME DevInv, Raise PROVE DevInv'
  OBVIOUS
<1>1. /\ dev.step \in {"FIT", "DEFINED", "ATTRIBUTE", "CLOSE"}
      /\ dev' = [dev EXCEPT !.step = "RAISED"]
      /\ UNCHANGED <<passes, candidates, freeze, opened, development>>
  BY DEF Raise
<1>2. dev \in [step : Steps, plan : DevPlans, context : Nat, role : Nat, lapses : Int]
  BY DevFacts
<1>3. /\ dev'.step = "RAISED" /\ dev'.plan = dev.plan
      /\ dev' \in [step : Steps, plan : DevPlans, context : Nat, role : Nat, lapses : Int]
  BY <1>1, <1>2 DEF Steps
<1>4. opened \in BOOLEAN
  BY DEF DevInv, DevTyped
<1>5. DevTyped' /\ LedgerInOrder' /\ CandidatesDerived' /\ RulesCompiled' /\ OverrunIsLast'
  BY <1>1, <1>3, <1>4, LedgerUnchanged
<1>6. DevPosition' /\ CandidatesKeepUp'
  BY <1>1, <1>3 DEF DevInv, DevPosition, CandidatesKeepUp
<1>7. FreezeStands' /\ ResultStands'
  BY <1>1, <1>3 DEF DevInv, FreezeStands, ResultStands
<1>8. QED
  BY <1>5, <1>6, <1>7 DEF DevInv

\* The result holds what the ledger and the freeze say when it closes.
LEMMA StoreStep ==
  ASSUME DevInv, NEW frozen, StoreResult(frozen),
         frozen = IF dev.plan.kind = "FOUR" THEN freeze ELSE Nothing
  PROVE  DevInv'
<1>1. /\ dev.step = "CLOSE" /\ ResourceClosed
      /\ development' = [plan |-> dev.plan, candidates |-> candidates, freeze |-> frozen,
                         observed |-> [i \in Contexts(dev.plan) |-> Observed(dev.plan, i)],
                         gates |-> Gates(dev.plan)]
      /\ dev' = [dev EXCEPT !.step = "DONE"]
      /\ UNCHANGED <<passes, candidates, freeze, opened>>
  BY DEF StoreResult
<1>2. dev \in [step : Steps, plan : DevPlans, context : Nat, role : Nat, lapses : Int]
  BY DevFacts
<1>3. /\ dev'.step = "DONE" /\ dev'.plan = dev.plan
      /\ dev' \in [step : Steps, plan : DevPlans, context : Nat, role : Nat, lapses : Int]
  BY <1>1, <1>2 DEF Steps
<1>4. opened \in BOOLEAN
  BY DEF DevInv, DevTyped
<1>5. DevTyped' /\ LedgerInOrder' /\ CandidatesDerived' /\ RulesCompiled' /\ OverrunIsLast'
  BY <1>1, <1>3, <1>4, LedgerUnchanged
<1>6. DevPosition' /\ CandidatesKeepUp'
  BY <1>1, <1>3 DEF DevInv, DevPosition, CandidatesKeepUp
<1>7. FreezeStands'
  BY <1>1, <1>3 DEF DevInv, FreezeStands
<1>8. ResultStands'
  <2>1. ResourceClosed'
    BY <1>1, <1>3 DEF ResourceClosed, CallsMade, CallsIn, LedgerPoisoned, PassOverran
  <2>2. [i \in Contexts(dev.plan) |-> Observed(dev.plan, i)]' =
        [i \in Contexts(dev.plan) |-> Observed(dev.plan, i)]
    BY <1>1, <1>3 DEF Observed, PassOf, ParentStage
  <2>3. Gates(dev.plan)' = Gates(dev.plan)
    BY <1>1, <1>3 DEF Gates, Observed, PassOf, ParentStage
  <2>4. QED
    BY <1>1, <1>3, <2>1, <2>2, <2>3 DEF ResultStands
<1>9. QED
  BY <1>5, <1>6, <1>7, <1>8 DEF DevInv

\* Where an attribution call leads: to the next role, the next context or the close.
LEMMA NextRolePlace ==
  ASSUME DevInv, dev.step = "ATTRIBUTE"
  PROVE  LET n == ContextCount(dev.plan)
             w == Width(dev.plan)
             length == Len(passes) + 1
         IN  /\ length <= Total(dev.plan)
             /\ dev.role < w =>
                  dev.role + 1 \in 1 .. w
                  /\ length = Defined(dev.plan) + (dev.context - 1) * w + (dev.role + 1) - 1
             /\ ~(dev.role < w) /\ dev.context < n =>
                  dev.context + 1 \in 1 .. n /\ 1 \in 1 .. w
                  /\ length = Defined(dev.plan) + ((dev.context + 1) - 1) * w + 1 - 1
             /\ ~(dev.role < w) /\ ~(dev.context < n) => length = Total(dev.plan)
<1> DEFINE n == ContextCount(dev.plan)
           w == Width(dev.plan)
           c == dev.context
           r == dev.role
           k == Len(passes)
<1>1. /\ n \in Nat /\ (w = 4 \/ w = 3) /\ Total(dev.plan) = 2 * n + n * w
      /\ Defined(dev.plan) = 2 * n /\ k \in Nat
  BY DevFacts
<1>2. c \in 1 .. n /\ r \in 1 .. w /\ k = 2 * n + (c - 1) * w + r - 1
  BY <1>1 DEF DevInv, DevPosition
<1> HIDE DEF n, w, c, r, k
<1>3. CASE w = 4
  <2>1. /\ 2 * n + (c - 1) * 4 + r - 1 + 1 <= 2 * n + n * 4
        /\ r < 4 => r + 1 \in 1 .. 4
                    /\ 2 * n + (c - 1) * 4 + r - 1 + 1 = 2 * n + (c - 1) * 4 + (r + 1) - 1
        /\ ~(r < 4) /\ c < n =>
             c + 1 \in 1 .. n /\ 1 \in 1 .. 4
             /\ 2 * n + (c - 1) * 4 + r - 1 + 1 = 2 * n + ((c + 1) - 1) * 4 + 1 - 1
        /\ ~(r < 4) /\ ~(c < n) => 2 * n + (c - 1) * 4 + r - 1 + 1 = 2 * n + n * 4
    BY <1>1, <1>2, <1>3
  <2>2. QED
    BY <1>1, <1>2, <1>3, <2>1 DEF n, w, c, r, k
<1>4. CASE w = 3
  <2>1. /\ 2 * n + (c - 1) * 3 + r - 1 + 1 <= 2 * n + n * 3
        /\ r < 3 => r + 1 \in 1 .. 3
                    /\ 2 * n + (c - 1) * 3 + r - 1 + 1 = 2 * n + (c - 1) * 3 + (r + 1) - 1
        /\ ~(r < 3) /\ c < n =>
             c + 1 \in 1 .. n /\ 1 \in 1 .. 3
             /\ 2 * n + (c - 1) * 3 + r - 1 + 1 = 2 * n + ((c + 1) - 1) * 3 + 1 - 1
        /\ ~(r < 3) /\ ~(c < n) => 2 * n + (c - 1) * 3 + r - 1 + 1 = 2 * n + n * 3
    BY <1>1, <1>2, <1>4
  <2>2. QED
    BY <1>1, <1>2, <1>4, <2>1 DEF n, w, c, r, k
<1>5. QED
  BY <1>1, <1>3, <1>4

\* A pass of one role of one context.
LEMMA AttributeStep == DevInv /\ Attribute => DevInv'
<1> SUFFICES ASSUME DevInv, Attribute PROVE DevInv'
  OBVIOUS
<1> DEFINE c == dev.context
           n == ContextCount(dev.plan)
           w == Width(dev.plan)
           k == Len(passes)
           role == RoleOrder(dev.plan)[dev.role]
           rule == CompiledRule(role, candidates[c].rule)
<1>1. PICK replies \in PassReplies(rule) :
        /\ passes' = Append(passes, Pass("GATE", c, role, rule, replies))
        /\ dev' = [AfterRole EXCEPT !.lapses = @ + LapsesIn(rule, replies)]
  BY DEF Attribute
<1>2. /\ dev.step = "ATTRIBUTE" /\ ~LedgerPoisoned
      /\ UNCHANGED <<candidates, freeze, opened, development>>
  BY DEF Attribute, Running
<1>3. /\ dev \in [step : Steps, plan : DevPlans, context : Nat, role : Nat, lapses : Int]
      /\ n \in Nat /\ n > 0 /\ (w = 4 \/ w = 3)
      /\ Defined(dev.plan) = 2 * n /\ Total(dev.plan) \in Nat
      /\ candidates \in Seq(Candidates) /\ Len(candidates) \in Nat
      /\ DOMAIN candidates = 1 .. Len(candidates)
  BY DevFacts
<1>4. /\ c \in 1 .. n /\ dev.role \in 1 .. w /\ Len(candidates) = n
      /\ k = Defined(dev.plan) + (c - 1) * w + dev.role - 1
      /\ 2 * n <= k
  <2>1. /\ c \in 1 .. n /\ dev.role \in 1 .. w /\ Len(candidates) = n
        /\ k = Defined(dev.plan) + (c - 1) * w + dev.role - 1
        /\ 2 * Len(candidates) <= k
    BY <1>2 DEF DevInv, DevPosition, CandidatesKeepUp
  <2>2. QED
    BY <2>1
<1>4a. 2 * n <= k /\ n \in Nat
  BY <1>3, <1>4
<1>5. candidates[c].rule \in CandidateRules
  <2>1. candidates[c] \in Candidates
    BY <1>3, <1>4, ElementOfSeq
  <2>2. QED
    BY <2>1 DEF Candidates
<1>6. role \in {"PARENT", "CANDIDATE", "REVERT", "PLACEBO"}
  BY <1>3, <1>4, PlanFacts
<1>7. rule \in PassRules
  BY <1>5, <1>6 DEF CompiledRule, PassRules, CandidateRules
<1> HIDE DEF rule, role
<1>8. replies \in [Scenarios -> Replies] /\ LapsesIn(rule, replies) \in Int
  BY RepliesTyped
<1> DEFINE pass == Pass("GATE", c, role, rule, replies)
<1>9. /\ pass \in PassRecords /\ pass.stage = "GATE"
      /\ pass.rule = rule /\ pass.role = role /\ pass.context = c
      /\ Key(pass) = At2("GATE", c, role)
  BY <1>3, <1>4, <1>6, <1>7, <1>8 DEF Pass, PassRecords, PassStages, PassRoles, Key, At2
<1> HIDE DEF pass
<1>10. Key(pass) = ExpectedOrder(dev.plan)[k + 1]
  <2>1. ExpectedOrder(dev.plan)[2 * n + (c - 1) * w + dev.role] = At2("GATE", c, role)
    BY <1>3, <1>4, OrderOfPlan DEF role
  <2>2. k + 1 = 2 * n + (c - 1) * w + dev.role
    <3>1. CASE w = 4
      BY <1>3, <1>4, <3>1
    <3>2. CASE w = 3
      BY <1>3, <1>4, <3>2
    <3>3. QED
      BY <1>3, <3>1, <3>2
  <2>3. QED
    BY <1>9, <2>1, <2>2
<1>11. LET after == AfterRole IN
       /\ after \in [step : Steps, plan : DevPlans, context : Nat, role : Nat, lapses : Int]
       /\ after.plan = dev.plan
       /\ IF dev.role < w
          THEN after.step = "ATTRIBUTE" /\ after.context = c /\ after.role = dev.role + 1
          ELSE IF c < n THEN after.step = "ATTRIBUTE" /\ after.context = c + 1 /\ after.role = 1
          ELSE after.step = "CLOSE"
  <2>1. CASE dev.role < w
    BY <1>2, <1>3, <1>4, <2>1 DEF AfterRole, Width, Steps
  <2>2. CASE ~(dev.role < w) /\ c < n
    <3>1. AfterRole = [dev EXCEPT !.context = c + 1, !.role = 1]
      BY <2>2 DEF AfterRole, Width
    <3>2. c + 1 \in Nat /\ 1 \in Nat /\ ~(dev.role < w) /\ c < n
      BY <1>3, <2>2
    <3>3. /\ AfterRole \in [step : Steps, plan : DevPlans, context : Nat, role : Nat, lapses : Int]
          /\ AfterRole.plan = dev.plan /\ AfterRole.step = "ATTRIBUTE"
          /\ AfterRole.context = c + 1 /\ AfterRole.role = 1
      BY <1>2, <1>3, <3>1, <3>2
    <3>4. QED
      BY <3>2, <3>3
  <2>3. CASE ~(dev.role < w) /\ ~(c < n)
    BY <1>2, <1>3, <1>4, <2>3 DEF AfterRole, Width, Steps
  <2>4. QED
    BY <2>1, <2>2, <2>3
<1>12. /\ dev' \in [step : Steps, plan : DevPlans, context : Nat, role : Nat, lapses : Int]
       /\ dev'.plan = dev.plan
       /\ dev'.step = AfterRole.step /\ dev'.context = AfterRole.context
       /\ dev'.role = AfterRole.role
  <2> DEFINE after == AfterRole
             lapses == after.lapses + LapsesIn(rule, replies)
  <2>1. /\ dev' = [after EXCEPT !.lapses = lapses]
        /\ after \in [step : Steps, plan : DevPlans, context : Nat, role : Nat, lapses : Int]
        /\ after.plan = dev.plan
    BY <1>1, <1>11
  <2> HIDE DEF after
  <2>2. lapses \in Int
    BY <1>8, <2>1
  <2> HIDE DEF lapses
  <2>3. /\ dev' \in [step : Steps, plan : DevPlans, context : Nat, role : Nat, lapses : Int]
        /\ dev'.plan = dev.plan
        /\ dev'.step = after.step /\ dev'.context = after.context /\ dev'.role = after.role
    BY <2>1, <2>2
  <2>4. QED
    BY <2>3 DEF after
<1>13. /\ passes' \in Seq(PassRecords) /\ k \in Nat /\ Len(passes') = k + 1
       /\ DOMAIN passes = 1 .. k /\ DOMAIN passes' = 1 .. k + 1
       /\ \A p \in 1 .. k : passes'[p] = passes[p]
       /\ passes'[k + 1] = pass
       /\ \A p \in DOMAIN passes' :
            passes'[p].stage = "FIT" => passes'[p].replies \in [Scenarios -> Replies]
       /\ LedgerInOrder' /\ OverrunIsLast'
  BY <1>1, <1>2, <1>9, <1>10, <1>12, PassAppended DEF pass
<1>14. DevTyped'
  BY <1>2, <1>12, <1>13 DEF DevInv, DevTyped
<1>15. DevPosition'
  <2>1. /\ k + 1 <= Total(dev.plan)
        /\ dev.role < w =>
             dev.role + 1 \in 1 .. w
             /\ k + 1 = Defined(dev.plan) + (c - 1) * w + (dev.role + 1) - 1
        /\ ~(dev.role < w) /\ c < n =>
             c + 1 \in 1 .. n /\ 1 \in 1 .. w
             /\ k + 1 = Defined(dev.plan) + ((c + 1) - 1) * w + 1 - 1
        /\ ~(dev.role < w) /\ ~(c < n) => k + 1 = Total(dev.plan)
    BY <1>2, NextRolePlace
  <2>2. CASE dev.role < w
    BY <1>4, <1>11, <1>12, <1>13, <2>1, <2>2 DEF DevPosition
  <2>3. CASE ~(dev.role < w) /\ c < n
    BY <1>4, <1>11, <1>12, <1>13, <2>1, <2>3 DEF DevPosition
  <2>4. CASE ~(dev.role < w) /\ ~(c < n)
    BY <1>4, <1>11, <1>12, <1>13, <2>1, <2>4 DEF DevPosition
  <2>5. QED
    BY <2>2, <2>3, <2>4
<1> HIDE DEF k
<1>16. dev'.step \in {"ATTRIBUTE", "CLOSE"}
  BY <1>11, <1>12
<1>17. CandidatesKeepUp'
  <2>1. 2 * n <= k + 1 /\ n <= n
    BY <1>4a, <1>13
  <2>2. QED
    BY <1>2, <1>4, <1>12, <1>13, <1>16, <2>1 DEF CandidatesKeepUp
<1>18. CandidatesDerived'
  <2>1. \A i \in DOMAIN candidates : 2 * i \in 1 .. k /\ 2 * i - 1 \in 1 .. k
    <3>1. DOMAIN candidates = 1 .. n
      BY <1>3, <1>4
    <3>2. k \in Nat
      BY <1>13
    <3>3. QED
      BY <1>4a, <3>1, <3>2
  <2>2. \A i \in DOMAIN candidates :
          passes'[2 * i] = passes[2 * i] /\ passes'[2 * i - 1] = passes[2 * i - 1]
    BY <1>13, <2>1
  <2>3. QED
    BY <1>2, <1>12, <2>2 DEF DevInv, CandidatesDerived
<1>19. RulesCompiled'
  <2>1. \A p \in 1 .. k + 1 : p \in 1 .. k \/ p = k + 1
    BY <1>13
  <2>2. ASSUME NEW p \in DOMAIN passes'
        PROVE  /\ passes'[p].stage = "FIT" =>
                    passes'[p].rule = "CONSTANT_LEGACY" /\ passes'[p].role = "PARENT"
               /\ passes'[p].stage = "GATE" =>
                    /\ passes'[p].context \in 1 .. n
                    /\ passes'[p].rule =
                         CompiledRule(passes'[p].role, candidates[passes'[p].context].rule)
    <3>1. CASE p \in 1 .. k
      BY <1>13, <3>1 DEF DevInv, RulesCompiled
    <3>2. CASE p = k + 1
      BY <1>4, <1>9, <1>13, <3>2 DEF rule
    <3>3. QED
      BY <1>13, <2>1, <3>1, <3>2
  <2>3. QED
    BY <1>2, <1>4, <1>12, <2>2 DEF RulesCompiled
<1>20. FreezeStands' /\ ResultStands'
  BY <1>2, <1>12, <1>16 DEF DevInv, FreezeStands, ResultStands
<1>21. QED
  BY <1>13, <1>14, <1>15, <1>17, <1>18, <1>19, <1>20 DEF DevInv

\* Every step of a development run keeps the invariant.
LEMMA DevSteps == DevInv /\ [DevNext]_devVars => DevInv'
<1> SUFFICES ASSUME DevInv, [DevNext]_devVars PROVE DevInv'
  OBVIOUS
<1>1. CASE StartFour \/ StartOne
  BY <1>1, BeginStep DEF StartFour, StartOne, DevPlans
<1>2. CASE ObserveParent
  BY <1>2, ObserveParentStep
<1>3. CASE \E reply \in ProposerReplies : ProposeFour(reply) \/ ProposeOne(reply)
  BY <1>3, ProposerStep
<1>4. CASE FreezeJointly
  BY <1>4, FreezeStep
<1>5. CASE OpenGate
  BY <1>5, OpenStep
<1>6. CASE Attribute
  BY <1>6, AttributeStep
<1>7. CASE PublishFour \/ PublishOne
  <2>1. dev.plan.kind \in {"FOUR", "ONE"}
    BY DevFacts, PlanFacts
  <2>2. QED
    BY <1>7, <2>1, StoreStep DEF PublishFour, PublishOne
<1>8. CASE Raise
  BY <1>8, RaiseStep
<1>9. CASE UNCHANGED devVars
  <2>1. UNCHANGED <<dev, passes, candidates, freeze, opened, development>>
    BY <1>9 DEF devVars
  <2>2. /\ dev \in [step : Steps, plan : DevPlans, context : Nat, role : Nat, lapses : Int]
        /\ opened \in BOOLEAN
    BY DEF DevInv, DevTyped
  <2>3. DevTyped' /\ LedgerInOrder' /\ CandidatesDerived' /\ RulesCompiled' /\ OverrunIsLast'
    BY <2>1, <2>2, LedgerUnchanged
  <2>4. DevPosition' /\ CandidatesKeepUp' /\ FreezeStands'
    BY <2>1 DEF DevInv, DevPosition, CandidatesKeepUp, FreezeStands
  <2>5. ResultStands'
    <3>1. ResourceClosed' = ResourceClosed
      BY <2>1 DEF ResourceClosed, CallsMade, CallsIn, LedgerPoisoned, PassOverran
    <3>2. [i \in Contexts(dev.plan) |-> Observed(dev.plan, i)]' =
          [i \in Contexts(dev.plan) |-> Observed(dev.plan, i)]
      BY <2>1 DEF Observed, PassOf, ParentStage
    <3>3. Gates(dev.plan)' = Gates(dev.plan)
      BY <2>1 DEF Gates, Observed, PassOf, ParentStage
    <3>4. QED
      BY <2>1, <3>1, <3>2, <3>3 DEF DevInv, ResultStands
  <2>6. QED
    BY <2>3, <2>4, <2>5 DEF DevInv
<1>10. QED
  BY <1>1, <1>2, <1>3, <1>4, <1>5, <1>6, <1>7, <1>8, <1>9 DEF DevNext

-----------------------------------------------------------------------------
(* What a stored result stands for                                         *)

\* A run that is done made every call of its plan, in the order of the plan.
LEMMA LedgerIsPlan ==
  ASSUME DevInv, dev.step = "DONE"
  PROVE  LedgerKeys = ExpectedOrder(dev.plan)
<1>1. /\ DOMAIN passes = 1 .. Total(dev.plan)
      /\ DOMAIN ExpectedOrder(dev.plan) = 1 .. Total(dev.plan)
  BY DevFacts, OrderOfPlan DEF DevInv, DevPosition
<1>2. LedgerKeys = [p \in 1 .. Total(dev.plan) |-> Key(passes[p])]
  BY <1>1 DEF LedgerKeys
<1>3. ExpectedOrder(dev.plan) =
        [p \in 1 .. Total(dev.plan) |-> ExpectedOrder(dev.plan)[p]]
  <2> DEFINE order == ExpectedOrder(dev.plan)
  <2>1. order = [p \in DOMAIN order |-> order[p]]
    BY DEF ExpectedOrder
  <2> HIDE DEF order
  <2>2. QED
    BY <1>1, <2>1 DEF order
<1>4. \A p \in 1 .. Total(dev.plan) : Key(passes[p]) = ExpectedOrder(dev.plan)[p]
  BY <1>1 DEF DevInv, LedgerInOrder
<1>5. QED
  BY <1>2, <1>3, <1>4

\* The two definition passes of a context are found by their stage.
LEMMA DefinitionPasses ==
  ASSUME DevInv, dev.step = "DONE", NEW i \in 1 .. ContextCount(dev.plan)
  PROVE  /\ PassOf("PROPOSE", i, "PROPOSER") = passes[2 * i].replies
         /\ PassOf("FIT", i, "PARENT") = passes[2 * i - 1].replies
<1> DEFINE order == ExpectedOrder(dev.plan)
           total == Total(dev.plan)
<1>1. /\ Len(passes) = total /\ total \in Nat /\ DOMAIN passes = 1 .. total
      /\ dev.plan \in DevPlans
      /\ 2 * ContextCount(dev.plan) <= total /\ ContextCount(dev.plan) \in Nat
  <2>1. /\ Len(candidates) = ContextCount(dev.plan) /\ 2 * Len(candidates) <= Len(passes)
        /\ Len(passes) = total
    BY DEF DevInv, DevPosition, CandidatesKeepUp
  <2>2. QED
    BY <2>1, DevFacts
<1>2. /\ \A p \in 1 .. total : Key(passes[p]) = order[p]
      /\ order[2 * i - 1] = At2("FIT", i, "PARENT")
      /\ order[2 * i] = At2("PROPOSE", i, "PROPOSER")
      /\ \A p \in 1 .. total : /\ order[p].stage = "FIT" => p = 2 * order[p].context - 1
                               /\ order[p].stage = "PROPOSE" => p = 2 * order[p].context
  BY <1>1, OrderOfPlan DEF DevInv, LedgerInOrder
<1> HIDE DEF order
<1>3. 2 * i \in 1 .. total /\ 2 * i - 1 \in 1 .. total
  BY <1>1
<1>4. \A p \in 1 .. total : /\ order[p].stage = passes[p].stage
                            /\ order[p].context = passes[p].context
                            /\ order[p].role = passes[p].role
  <2> SUFFICES ASSUME NEW p \in 1 .. total
               PROVE  /\ order[p].stage = passes[p].stage
                      /\ order[p].context = passes[p].context
                      /\ order[p].role = passes[p].role
    OBVIOUS
  <2>1. Key(passes[p]) = order[p]
    BY <1>2
  <2>2. QED
    BY <2>1 DEF Key
<1>5. PassOf("PROPOSE", i, "PROPOSER") = passes[2 * i].replies
  <2> DEFINE Fits(q) == /\ passes[q].stage = "PROPOSE" /\ passes[q].context = i
                        /\ passes[q].role = "PROPOSER"
             found == CHOOSE q \in 1 .. Len(passes) : Fits(q)
  <2>1. Fits(2 * i)
    BY <1>2, <1>3, <1>4 DEF At2
  <2>2. found \in 1 .. total /\ Fits(found)
    BY <1>1, <1>3, <2>1
  <2>3. \A q \in 1 .. total : Fits(q) => q = 2 * i
    BY <1>2, <1>4
  <2>4. found = 2 * i
    BY <2>2, <2>3
  <2>5. QED
    BY <2>4 DEF PassOf
<1>6. PassOf("FIT", i, "PARENT") = passes[2 * i - 1].replies
  <2> DEFINE Fits(q) == /\ passes[q].stage = "FIT" /\ passes[q].context = i
                        /\ passes[q].role = "PARENT"
             found == CHOOSE q \in 1 .. Len(passes) : Fits(q)
  <2>1. Fits(2 * i - 1)
    BY <1>2, <1>3, <1>4 DEF At2
  <2>2. found \in 1 .. total /\ Fits(found)
    BY <1>1, <1>3, <2>1
  <2>3. \A q \in 1 .. total : Fits(q) => q = 2 * i - 1
    BY <1>2, <1>4
  <2>4. found = 2 * i - 1
    BY <2>2, <2>3
  <2>5. QED
    BY <2>4 DEF PassOf
<1>7. QED
  BY <1>5, <1>6

\* The offline verification accepts what the runner stored.
LEMMA PublishedIsVerified == DevInv => PublishedVerifies
<1> SUFFICES ASSUME DevInv, development # Nothing PROVE DevelopmentVerifies(development)
  BY DEF PublishedVerifies
<1> DEFINE d == development
           plan == dev.plan
           n == ContextCount(plan)
<1>1. /\ dev.step = "DONE" /\ ResourceClosed
      /\ d = [plan |-> plan, candidates |-> candidates,
              freeze |-> IF plan.kind = "FOUR" THEN freeze ELSE Nothing,
              observed |-> [i \in Contexts(plan) |-> Observed(plan, i)],
              gates |-> Gates(plan)]
  BY DEF DevInv, ResultStands
<1>2. /\ d.plan = plan /\ d.candidates = candidates
      /\ d.freeze = IF plan.kind = "FOUR" THEN freeze ELSE Nothing
      /\ d.observed = [i \in Contexts(plan) |-> Observed(plan, i)]
      /\ d.gates = Gates(plan)
  BY <1>1
<1> HIDE DEF d
<1>3. /\ plan \in DevPlans /\ plan.kind \in {"FOUR", "ONE"} /\ Contexts(plan) = 1 .. n
      /\ passes \in Seq(PassRecords) /\ DOMAIN passes = 1 .. Len(passes) /\ Len(passes) \in Nat
      /\ DOMAIN candidates = 1 .. Len(candidates) /\ Len(candidates) = n
  BY <1>1, DevFacts, PlanFacts DEF DevInv, CandidatesKeepUp
<1>4. LedgerKeys = ExpectedOrder(plan)
  BY <1>1, LedgerIsPlan
<1>5. IF plan.kind = "FOUR" THEN FourVerifies(d) ELSE OneVerifies(d)
  <2>1. CASE plan.kind = "FOUR"
    <3>1. freeze = [candidates |-> candidates, boundary |-> DefinitionCalls(plan)]
      BY <1>1, <2>1 DEF DevInv, FreezeStands
    <3>2. QED
      BY <1>2, <1>4, <2>1, <3>1 DEF FourVerifies
  <2>2. CASE plan.kind # "FOUR"
    <3>1. DOMAIN LedgerKeys = DOMAIN passes /\ DOMAIN ExpectedOrder(plan) = DOMAIN passes
      BY <1>4 DEF LedgerKeys
    <3>2. {LedgerKeys[p] : p \in DOMAIN passes} =
          {ExpectedOrder(plan)[p] : p \in DOMAIN ExpectedOrder(plan)}
      BY <1>4, <3>1
    <3>3. OneVerifies(d)
      BY <1>2, <1>4, <3>2 DEF OneVerifies
    <3>4. QED
      BY <2>2, <3>3
  <2>3. QED
    BY <2>1, <2>2
<1>6. BudgetCloses(plan)
  <2>1. CallsMade = MaxModelCalls(plan) /\ ~LedgerPoisoned
    BY <1>1 DEF ResourceClosed
  <2>2. ASSUME NEW p \in DOMAIN passes, PassOverran(passes[p]) PROVE FALSE
    <3>1. p = Len(passes)
      BY <2>2 DEF DevInv, OverrunIsLast
    <3>2. passes # <<>>
      BY <1>3, EmptySeq
    <3>3. QED
      BY <2>1, <2>2, <3>1, <3>2 DEF LedgerPoisoned
  <2>3. QED
    BY <2>1, <2>2 DEF BudgetCloses
<1>7. ProvenanceHolds(candidates)
  <2> SUFFICES ASSUME NEW p \in DOMAIN passes, passes[p].stage # "PROPOSE"
               PROVE  passes[p].rule =
                        CompiledRule(passes[p].role, candidates[passes[p].context].rule)
    BY DEF ProvenanceHolds
  <2>1. passes[p].stage \in {"FIT", "GATE"}
    <3>1. passes[p] \in PassRecords
      BY <1>3, ElementOfSeq
    <3>2. QED
      BY <3>1 DEF PassRecords, PassStages
  <2>2. QED
    BY <2>1 DEF DevInv, RulesCompiled, CompiledRule
<1>8. ASSUME NEW i \in Contexts(plan) PROVE ContextReplays(d, i)
  <2>1. i \in 1 .. n /\ i \in DOMAIN candidates
    BY <1>3
  <2>2. CandidateReplays(plan, i, candidates[i])
    BY <1>1, <2>1, DefinitionPasses DEF DevInv, CandidatesDerived, CandidateReplays
  <2>3. d.observed[i] = Observed(plan, i)
    BY <1>2
  <2>4. d.gates[i] = MakeGate(plan.contexts[i].cell, candidates[i].valid, Observed(plan, i))
    BY <1>2 DEF Gates
  <2>5. QED
    BY <1>2, <2>2, <2>3, <2>4 DEF ContextReplays
<1>9. QED
  BY <1>2, <1>5, <1>6, <1>7, <1>8 DEF DevelopmentVerifies, d

\* Gate scenarios are answered behind the freeze, from what it froze.
LEMMA GateBehindFreeze == DevInv => GateFollowsFreeze
<1> SUFFICES ASSUME DevInv, opened PROVE
      /\ freeze # Nothing
      /\ Len(freeze.candidates) = ContextCount(dev.plan)
      /\ \A p \in DOMAIN passes :
           passes[p].stage = "GATE" =>
             passes[p].rule = CompiledRule(passes[p].role,
                                           freeze.candidates[passes[p].context].rule)
  BY DEF GateFollowsFreeze
<1>1. /\ freeze = [candidates |-> candidates, boundary |-> DefinitionCalls(dev.plan)]
      /\ Len(candidates) = ContextCount(dev.plan)
  BY DEF DevInv, FreezeStands
<1>2. DefinitionCalls(dev.plan) \in Nat
  <2>1. ContextCount(dev.plan) \in Nat /\ Cardinality(Scenarios) + 1 \in Nat
    BY DevFacts, ScenariosFinite
  <2>2. \A a, b \in Nat : a * b \in Nat
    OBVIOUS
  <2>3. QED
    BY <2>1, <2>2 DEF DefinitionCalls
<1>3. freeze \in Freezes
  BY <1>1, <1>2, DevFacts DEF Freezes
<1>4. freeze.candidates = candidates
  BY <1>1
<1>5. QED
  BY <1>1, <1>3, <1>4, NothingAssumption DEF DevInv, RulesCompiled

\* A rule that serves every repairable scenario and no null one is the repair.
LEMMA OnlyRepairServes ==
  ASSUME NEW rule \in CandidateRules,
         \A s \in WithRole("REPAIRABLE") : BranchForRule(rule, s) = "SAFE",
         \A s \in WithRole("NULL") : BranchForRule(rule, s) # "SAFE"
  PROVE  rule = "ROUTED_POLICY"
<1>1. \A family \in Families :
        /\ [family |-> family, role |-> "REPAIRABLE"] \in WithRole("REPAIRABLE")
        /\ [family |-> family, role |-> "NULL"] \in WithRole("NULL")
  BY DEF WithRole, Scenarios, ScenariosOf, ScenarioRoles
<1>2. \A family \in Families : rule # "CONSTANT_SAFE" /\ family \in PatchFamilies(rule)
  <2> SUFFICES ASSUME NEW family \in Families
               PROVE  rule # "CONSTANT_SAFE" /\ family \in PatchFamilies(rule)
    OBVIOUS
  <2>1. BranchForRule(rule, [family |-> family, role |-> "REPAIRABLE"]) = "SAFE"
    BY <1>1
  <2>2. BranchForRule(rule, [family |-> family, role |-> "NULL"]) # "SAFE"
    BY <1>1
  <2>3. QED
    BY <2>1, <2>2 DEF BranchForRule, ContextFor
<1>3. QED
  BY <1>2, PatchesAssumption

\* A mechanism gate promotes none but the repair.
LEMMA MechanismIsRepair == DevInv => MechanismPromotesRepairs
<1> SUFFICES ASSUME DevInv, development # Nothing, NEW i \in Contexts(development.plan),
                    Promotion(development.plan.contexts[i].cell) = "MECHANISM",
                    development.gates[i].promoted,
                    \A s \in Scenarios :
                      Parsed(development.observed[i]["CANDIDATE"][s]) =>
                        development.observed[i]["CANDIDATE"][s] =
                          BranchForRule(development.candidates[i].rule, s)
             PROVE  development.candidates[i].rule = "ROUTED_POLICY"
  BY DEF MechanismPromotesRepairs
<1> DEFINE rule == development.candidates[i].rule
           by == development.observed[i]
           cell == development.plan.contexts[i].cell
<1>1. DevelopmentVerifies(development)
  BY PublishedIsVerified DEF PublishedVerifies
<1>2. development.gates[i] = MakeGate(cell, development.candidates[i].valid, by)
  BY <1>1 DEF DevelopmentVerifies, ContextReplays
<1>3. rule \in CandidateRules
  <2>1. /\ dev.step = "DONE" /\ development.plan = dev.plan
        /\ development.candidates = candidates
    BY DEF DevInv, ResultStands
  <2>2. Len(candidates) = ContextCount(dev.plan)
    BY <2>1 DEF DevInv, CandidatesKeepUp
  <2>3. i \in 1 .. Len(candidates) /\ candidates \in Seq(Candidates)
    BY <2>1, <2>2, DevFacts, PlanFacts
  <2>4. candidates[i] \in Candidates
    BY <2>3, ElementOfSeq
  <2>5. QED
    BY <2>1, <2>4 DEF Candidates
<1>4. MechanismPassed(by)
  <2> DEFINE promoted ==
               /\ PerformancePassed(development.candidates[i].valid, by)
               /\ Promotion(cell) = "PERFORMANCE" \/ MechanismPassed(by)
  <2>1. MakeGate(cell, development.candidates[i].valid, by).promoted = promoted
    BY DEF MakeGate
  <2>2. promoted
    BY <1>2, <2>1
  <2>3. QED
    BY <2>2
<1>5. \A s \in Scenarios : by["CANDIDATE"][s] = BranchForRule(rule, s)
  BY <1>4 DEF MechanismPassed
<1> HIDE DEF rule, by
<1>6. \A s \in WithRole("REPAIRABLE") : BranchForRule(rule, s) = "SAFE"
  BY <1>4, <1>5 DEF MechanismPassed, Activated, WithRole
<1>7. \A s \in WithRole("NULL") : BranchForRule(rule, s) # "SAFE"
  BY <1>4, <1>5 DEF MechanismPassed, Activated, WithRole
<1>8. QED
  BY <1>3, <1>6, <1>7, OnlyRepairServes DEF rule

\* What a development run stores verifies, was gated after its freeze, and promotes
\* by mechanism none but the repair, for any families, contexts and lapses.
THEOREM DevelopmentRunStands == DevSpec => []DevelopmentStands
<1>1. DevInit => DevInv
  BY DevStarts
<1>2. DevInv /\ [DevNext]_devVars => DevInv'
  BY DevSteps
<1>3. DevInv => DevelopmentStands
  BY PublishedIsVerified, GateBehindFreeze, MechanismIsRepair DEF DevelopmentStands
<1>4. QED
  BY <1>1, <1>2, <1>3, PTL DEF DevSpec
=============================================================================
