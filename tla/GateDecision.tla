----------------------------- MODULE GateDecision -----------------------------
(***************************************************************************)
(* verification/statistics.py, gate.py, artifacts.py and mechanism.py with *)
(* experiments/decision.py: how a contender's trials become a terminal     *)
(* state.                                                                  *)
(*                                                                         *)
(* Trusted producers sign mechanism evidence and, one arm at a time, the   *)
(* trials of a GATE batch.  Anybody may then name an evaluation (two       *)
(* batches and one evidence), a stored decision and a terminal state; the  *)
(* terminal decision service joins them again, recomputes the decision and *)
(* authorizes the state.  Artifacts are immutable, so the store is a set   *)
(* and a reference is the artifact it names.                               *)
(*                                                                         *)
(* Scores are integers; a task's score over its seeds is a mean, kept as   *)
(* an integer by Scale.                                                    *)
(***************************************************************************)
EXTENDS Integers, FiniteSets
LOCAL INSTANCE FiniteSetsExt

CONSTANTS
  Contenders,   \* candidate manifests of frozen experiments
  Protocols,    \* the protocols one pair of producers serves
  ProtocolOf,   \* the protocol a contender's experiment froze
  Policies,     \* GateConfig of each protocol
  TrialSets,    \* for each arm, the trials a batch may hold
  CheckSets,    \* outcomes of mechanism checks an evidence may hold
  Unset,        \* a limit the policy leaves out
  Scale,        \* a common multiple of the numbers of seeds
  MaxBatches, MaxEvidence, MaxSlips  \* bounds: artifacts signed, wrong bindings

Arms == {"PARENT", "CANDIDATE"}

ASSUME GateDecisionAssumption ==
  /\ ProtocolOf \in [Contenders -> Protocols]
  /\ DOMAIN Policies = Protocols /\ DOMAIN TrialSets = Arms
  /\ \A protocol \in Protocols : Policies[protocol].minTasks \in Nat
  /\ \A arm \in Arms : \A trials \in TrialSets[arm] : IsFiniteSet(DOMAIN trials)
  /\ \A checks \in CheckSets : \A check \in DOMAIN checks :
       checks[check] \in {"PASSED", "FAILED", "UNOBSERVED"}
  /\ {MaxBatches, MaxEvidence, MaxSlips} \subseteq Nat

VARIABLES evidences,  \* attested mechanism evidence in the store
          batches,    \* GATE trial batches in the store
          verdicts,   \* terminal state of each contender and what it rests on
          slips       \* bindings a producer got wrong

decisionVars == <<evidences, batches, verdicts, slips>>

-----------------------------------------------------------------------------
(* compare_trials: a trial is keyed by its task and seed                   *)

OnRoster(policy, key) ==
  IF policy.seeds # {} THEN key \in policy.tasks \X policy.seeds
  ELSE policy.tasks # {} => key[1] \in policy.tasks

Unexpected(policy, p) == {key \in DOMAIN p : ~OnRoster(policy, key)}
Rostered(policy, p) == DOMAIN p \ Unexpected(policy, p)
Common(policy, p, q) == Rostered(policy, p) \cap Rostered(policy, q)

\* Execution fingerprint and slice tags must agree within a pair.
Mismatched(policy, p, q) == {key \in Common(policy, p, q) : p[key].print # q[key].print}
IncompletePairs(policy, p, q) ==
  {key \in Common(policy, p, q) \ Mismatched(policy, p, q) :
     p[key].status # "COMPLETED" \/ q[key].status # "COMPLETED"}
ValidPairs(policy, p, q) ==
  Common(policy, p, q) \ (Mismatched(policy, p, q) \cup IncompletePairs(policy, p, q))

MissingPairs(policy, p, q) ==
  (Rostered(policy, p) \cup Rostered(policy, q)) \ Common(policy, p, q)
TasksIn(keys) == {key[1] : key \in keys}

\* Mutant: a task nobody ran on either side is not missed.
ExpectedMissingUnlessAbsent(policy, p, q) ==
  IF policy.seeds # {}
  THEN ((policy.tasks \X policy.seeds) \cap (DOMAIN p \cup DOMAIN q)) \ Common(policy, p, q)
  ELSE policy.tasks \ (TasksIn(Rostered(policy, p)) \cap TasksIn(Rostered(policy, q)))

ExpectedMissing(policy, p, q) ==
  IF policy.seeds # {} THEN (policy.tasks \X policy.seeds) \ Common(policy, p, q)
  ELSE policy.tasks \ (TasksIn(Rostered(policy, p)) \cap TasksIn(Rostered(policy, q)))

\* Only task means over matched seeds enter the statistics.
MeanOver(keys, t, Of(_)) ==
  LET own == {key \in keys : key[1] = t}
  IN  (Scale \div Cardinality(own)) * MapThenSumSet(Of, own)

\* _build_metrics.  With at most three tasks the lower percentile of the
\* resampled means is the smallest delta: all draws take it in more than 1 / 27
\* of the resamples.
CompareTrials(policy, p, q) ==
  LET keys == ValidPairs(policy, p, q)
      Gain(key) == q[key].score - p[key].score
      ParentTokens(key) == p[key].tokens
      CandidateTokens(key) == q[key].tokens
      tasks == TasksIn(keys)
  IN  [deltas |-> [t \in tasks |-> MeanOver(keys, t, Gain)],
       parentTokens |-> [t \in tasks |-> MeanOver(keys, t, ParentTokens)],
       candidateTokens |-> [t \in tasks |-> MeanOver(keys, t, CandidateTokens)]]

Total(f, S) == MapThenSumSet(LAMBDA t : f[t], S)
LowerBound(deltas, S) == CHOOSE x \in {deltas[t] : t \in S} : \A t \in S : x <= deltas[t]

-----------------------------------------------------------------------------
(* PromotionGate                                                           *)

IntegrityCheck(policy, p, q) ==
  IF Unexpected(policy, p) \cup Unexpected(policy, q) \cup Mismatched(policy, p, q) # {}
  THEN "FAIL"
  ELSE IF policy.complete /\ (\/ MissingPairs(policy, p, q) # {}
                              \/ IncompletePairs(policy, p, q) # {}
                              \/ ExpectedMissing(policy, p, q) # {})
       THEN "INCONCLUSIVE" ELSE "PASS"

SampleSizeCheck(policy, m) ==
  IF Cardinality(DOMAIN m.deltas) < policy.minTasks THEN "INCONCLUSIVE" ELSE "PASS"

Violated(p) == {key \in DOMAIN p : p[key].status = "POLICY_VIOLATION" \/ p[key].violated}
PolicyCheck(p, q) == IF Violated(p) \cup Violated(q) # {} THEN "FAIL" ELSE "PASS"

\* A check that is not in the evidence was not observed.
Observed1(evidence, check) ==
  IF check \in DOMAIN evidence.checks THEN evidence.checks[check] ELSE "UNOBSERVED"
MechanismCheck(policy, evidence, harness) ==
  LET seen == {Observed1(evidence, check) : check \in policy.required}
  IN  IF (policy.required # {} /\ evidence.harness # harness) \/ "FAILED" \in seen THEN "FAIL"
      ELSE IF "UNOBSERVED" \in seen THEN "INCONCLUSIVE" ELSE "PASS"

PrimaryEffectCheck(policy, m) ==
  LET tasks == DOMAIN m.deltas
  IN  IF tasks = {} THEN "INCONCLUSIVE"
      ELSE IF Total(m.deltas, tasks) < Scale * policy.minEffect * Cardinality(tasks) THEN "FAIL"
      ELSE IF LowerBound(m.deltas, tasks) <= 0 THEN "INCONCLUSIVE" ELSE "PASS"

ProtectedSlicesCheck(policy, m) ==
  LET slice == policy.slice \cap DOMAIN m.deltas
      floor == Scale * policy.floor
  IN  IF policy.slice = {} THEN "PASS"
      ELSE IF slice = {} \/ Cardinality(slice) < policy.minSliceTasks THEN "INCONCLUSIVE"
      ELSE IF Total(m.deltas, slice) < floor * Cardinality(slice) THEN "FAIL"
      ELSE IF LowerBound(m.deltas, slice) <= floor THEN "INCONCLUSIVE" ELSE "PASS"

\* max_single_task_regression and max_regression_rate, in hundredths.
TaskRegressionCheck(policy, m) ==
  LET tasks == DOMAIN m.deltas
      lost == {t \in tasks : m.deltas[t] < -Scale * policy.tolerance}
  IN  IF policy.maxDrop = Unset /\ policy.maxRate = Unset THEN "PASS"
      ELSE IF tasks = {} THEN "INCONCLUSIVE"
      ELSE IF \/ policy.maxDrop # Unset
                   /\ LowerBound(m.deltas, tasks) < -Scale * policy.maxDrop
              \/ policy.maxRate # Unset
                   /\ 100 * Cardinality(lost) > policy.maxRate * Cardinality(tasks)
           THEN "FAIL" ELSE "PASS"

ResourceCheck(policy, m) ==
  LET tasks == DOMAIN m.deltas
  IN  IF policy.maxTokensRatio = Unset THEN "PASS"
      ELSE IF tasks = {} THEN "INCONCLUSIVE"
      ELSE IF Total(m.candidateTokens, tasks)
                > policy.maxTokensRatio * Total(m.parentTokens, tasks)
           THEN "FAIL" ELSE "PASS"

\* PromotionGate.evaluate: every failure outweighs every uncertainty.
EvaluateGate(policy, p, q, evidence, harness) ==
  LET m == CompareTrials(policy, p, q)
      outcomes == <<IntegrityCheck(policy, p, q), SampleSizeCheck(policy, m), PolicyCheck(p, q),
                    MechanismCheck(policy, evidence, harness), PrimaryEffectCheck(policy, m),
                    ProtectedSlicesCheck(policy, m), TaskRegressionCheck(policy, m),
                    ResourceCheck(policy, m)>>
      some == {outcomes[i] : i \in DOMAIN outcomes}
  IN  [decision |-> IF "FAIL" \in some THEN "REJECT"
                    ELSE IF "INCONCLUSIVE" \in some THEN "INCONCLUSIVE" ELSE "PROMOTE",
       checks |-> outcomes, comparison |-> m]

-----------------------------------------------------------------------------
(* What the producers sign                                                 *)

ParentHarness == "parent"
HarnessOf(c, arm) == IF arm = "PARENT" THEN ParentHarness ELSE c

\* TrustedMechanismEvidenceService.create
SignEvidence(c, protocol, checks) ==
  LET slip == IF protocol = ProtocolOf[c] THEN 0 ELSE 1
  IN  /\ Cardinality(evidences) < MaxEvidence
      /\ slips + slip <= MaxSlips /\ slips' = slips + slip
      /\ evidences' = evidences \cup
           {[protocol |-> protocol, contender |-> c, harness |-> c, checks |-> checks]}
      /\ UNCHANGED <<batches, verdicts>>

\* The binding a producer may get wrong: nothing rejoins it before the decision.
Bindings(c, arm, evidence) ==
  LET right == [protocol |-> ProtocolOf[c], contender |-> c, arm |-> arm,
                harness |-> HarnessOf(c, arm), evidence |-> evidence]
  IN  {right}
      \cup {[right EXCEPT !.protocol = protocol] : protocol \in Protocols}
      \cup {[right EXCEPT !.contender = other] : other \in Contenders}
      \cup {[right EXCEPT !.arm = other] : other \in Arms}
      \cup {[right EXCEPT !.evidence = other] : other \in evidences}

\* TrustedGateBatchService.create: the trials of one arm under one evidence.
SignBatch(c, arm, evidence, trials) ==
  /\ Cardinality(batches) < MaxBatches
  /\ evidence.contender = c
  /\ \E binding \in Bindings(c, arm, evidence) :
       LET slip == IF /\ binding.protocol = ProtocolOf[c] /\ binding.contender = c
                      /\ binding.arm = arm /\ binding.evidence = evidence
                   THEN 0 ELSE 1
       IN  /\ slips + slip <= MaxSlips /\ slips' = slips + slip
           /\ batches' = batches \cup {[binding |-> binding, trials |-> trials]}
  /\ UNCHANGED <<evidences, verdicts>>

-----------------------------------------------------------------------------
(* TerminalDecisionService.validate                                        *)

Running(c) == verdicts[c].state = "RUNNING"
PolicyOf(c) == Policies[ProtocolOf[c]]
TerminalStates == {"PROMOTED", "REJECTED", "INCONCLUSIVE"}
DecisionState(decision) ==
  CASE decision = "PROMOTE" -> "PROMOTED" [] decision = "REJECT" -> "REJECTED"
    [] OTHER -> "INCONCLUSIVE"

EvidenceStands(c, evidence) ==
  /\ evidence.protocol = ProtocolOf[c]
  /\ evidence.contender = c /\ evidence.harness = c

BatchStands(c, arm, evidence, b) ==
  b.binding = [protocol |-> ProtocolOf[c], contender |-> c, arm |-> arm,
               harness |-> HarnessOf(c, arm), evidence |-> evidence]

\* The gate decision of an evaluation, whoever computes it.
DecisionOf(c, evaluation) ==
  EvaluateGate(PolicyOf(c), evaluation.parent.trials, evaluation.candidate.trials,
               evaluation.evidence, c)

Evaluations == [parent : batches, candidate : batches, evidence : evidences]

Stands(c, evaluation) ==
  /\ BatchStands(c, "PARENT", evaluation.evidence, evaluation.parent)
  /\ BatchStands(c, "CANDIDATE", evaluation.evidence, evaluation.candidate)
  /\ EvidenceStands(c, evaluation.evidence)

\* The state a contender ends in, with the decision stored for any evaluation.
Conclude(c, state) ==
  /\ Running(c)
  /\ \E evaluation \in Evaluations :
       /\ Stands(c, evaluation)
       /\ \E decided \in Evaluations :
            LET decision == DecisionOf(c, decided)
            IN  /\ decision = DecisionOf(c, evaluation)
                /\ state = DecisionState(decision.decision)
       /\ verdicts' = [verdicts EXCEPT ![c] = [state |-> state, on |-> evaluation]]
  /\ UNCHANGED <<evidences, batches, slips>>

DecisionInit ==
  /\ evidences = {} /\ batches = {} /\ slips = 0
  /\ verdicts = [c \in Contenders |-> [state |-> "RUNNING", on |-> Unset]]

DecisionNext ==
  \E c \in Contenders :
    \/ \E protocol \in Protocols, checks \in CheckSets : SignEvidence(c, protocol, checks)
    \/ \E arm \in Arms, evidence \in evidences :
         \E trials \in TrialSets[arm] : SignBatch(c, arm, evidence, trials)
    \/ \E state \in TerminalStates : Conclude(c, state)

DecisionSpec == DecisionInit /\ [][DecisionNext]_decisionVars

-----------------------------------------------------------------------------
(* Properties                                                              *)

DecisionTypeOK ==
  /\ Cardinality(evidences) <= MaxEvidence /\ Cardinality(batches) <= MaxBatches
  /\ \A c \in Contenders : verdicts[c].state \in TerminalStates \cup {"RUNNING"}
  /\ slips \in 0 .. MaxSlips

\* What a promotion promises of its trials: the whole roster ran to a score on
\* each side, paired alike, and nothing broke a policy.
RosterRan(policy, p, q) ==
  /\ policy.complete => DOMAIN p = DOMAIN q
  /\ policy.complete /\ policy.seeds # {} => DOMAIN p = policy.tasks \X policy.seeds
  /\ policy.tasks \ TasksIn(DOMAIN p) = {} \/ ~policy.complete
  /\ \A key \in DOMAIN p \cup DOMAIN q : OnRoster(policy, key)
  /\ \A key \in DOMAIN p \cap DOMAIN q :
       /\ policy.complete => {p[key].status, q[key].status} = {"COMPLETED"}
       /\ "POLICY_VIOLATION" \notin {p[key].status, q[key].status}
       /\ p[key].print = q[key].print
  /\ Cardinality(TasksIn(DOMAIN p)) >= policy.minTasks

\* And of their scores: every task gained, a protected one more than its floor.
TasksGained(policy, p, q) ==
  \A t \in TasksIn(DOMAIN p) :
    LET Score(f) == MapThenSumSet(LAMBDA key : f[key].score, {key \in DOMAIN f : key[1] = t})
    IN  /\ Score(q) > Score(p)
        /\ t \in policy.slice =>
             Score(q) - Score(p) > policy.floor * Cardinality({k \in DOMAIN p : k[1] = t})

\* A contender is promoted only on trials run for it, against its parent, under
\* one mechanism evidence that shows every required check, whichever artifacts
\* the evaluation and the decision were put together from.
PromotedOnOwnTrials ==
  \A c \in Contenders :
    verdicts[c].state = "PROMOTED" =>
      LET on == verdicts[c].on
      IN  /\ on.parent.binding.contender = c /\ on.candidate.binding.contender = c
          /\ on.parent.binding.evidence = on.evidence
          /\ on.candidate.binding.evidence = on.evidence
          /\ on.evidence.harness = c
          /\ \A check \in PolicyOf(c).required : Observed1(on.evidence, check) = "PASSED"
          /\ RosterRan(PolicyOf(c), on.parent.trials, on.candidate.trials)

\* And where nothing may be missing, the trials deserve it.
PromotedDeservesIt ==
  /\ PromotedOnOwnTrials
  /\ \A c \in Contenders :
       verdicts[c].state = "PROMOTED" /\ PolicyOf(c).complete =>
         TasksGained(PolicyOf(c), verdicts[c].on.parent.trials, verdicts[c].on.candidate.trials)

\* The decisions' state in one invariant.
DecisionInv == DecisionTypeOK /\ PromotedDeservesIt
=============================================================================
