--------------------------- MODULE FaultDevelopment ---------------------------
(***************************************************************************)
(* experiments/harness_fault_four_context_runner.py and                    *)
(* harness_fault_development_runner.py with their verifications, over the  *)
(* scenarios of benchmark/_harness_fault_cases.py and the roles compiled   *)
(* by benchmark/harness_fault_compiler.py.                                 *)
(*                                                                         *)
(* A model is shown how a faulty parent harness behaves and proposes one   *)
(* repair rule; parent, candidate, revert and placebo then answer the same *)
(* scenarios and a frozen rule promotes the candidate or rolls back.  The  *)
(* four-context run does so once per context on one ledger, and opens the  *)
(* gate scenarios after it froze every candidate.  The calls of a pass are *)
(* sequential and one action here; the ledger is the sequence of passes.   *)
(***************************************************************************)
EXTENDS Integers, Sequences, FiniteSets

CONSTANTS Families,      \* positions in FaultFamily of the families in play
          ContextOrder,  \* FAULT_CONTEXT_ORDER
          Nothing,       \* no freeze, no result
          MaxLapses      \* bound: calls a model does not answer as instructed

AllFamilies == 0 .. 6
FactorialCells == {"SS", "MS", "SM", "MM"}
ASSUME DevelopmentAssumption ==
  /\ Families \subseteq AllFamilies /\ MaxLapses \in Nat
  /\ ContextOrder \in Seq(FactorialCells) /\ ContextOrder # <<>>

VARIABLES dev,          \* the invocation in progress
          passes,       \* the passes on its ledger, in order
          candidates,   \* prepared candidate of each context
          freeze,       \* the JointFaultContextCandidateFreeze in the store
          opened,       \* the gate scenarios were opened
          development   \* the result in the store

devVars == <<dev, passes, candidates, freeze, opened, development>>

-----------------------------------------------------------------------------
(* Scenarios, rules and what a rule answers                                *)

ScenarioRoles == <<"REPAIRABLE", "NULL", "UNREPAIRABLE", "SHIFT">>
ScenariosOf(families) == [family : families, role : {ScenarioRoles[i] : i \in 1 .. 4}]
Scenarios == ScenariosOf(Families)

Even(family) == family % 2 = 0

ContextFor(s) ==
  CASE s.role = "REPAIRABLE"   -> "C0"
    [] s.role = "NULL"         -> "C1"
    [] s.role = "UNREPAIRABLE" -> "CX"
    [] s.role = "SHIFT"        -> IF Even(s.family) THEN "C0" ELSE "C1"

CandidateRules == {"CONSTANT_LEGACY", "CONSTANT_SAFE", "ROUTED_POLICY",
                   "PROMPT_MEMORY_PATCH", "TOOL_PATCH", "RUNTIME_PATCH"}

PatchFamilies(rule) ==
  CASE rule = "PROMPT_MEMORY_PATCH" -> {0, 1}
    [] rule = "TOOL_PATCH"          -> {2, 3}
    [] rule = "RUNTIME_PATCH"       -> {4, 5, 6}
    [] rule = "ROUTED_POLICY"       -> AllFamilies
    [] OTHER                        -> {}

\* No patch covers the families in play, as none covers all seven.
ASSUME PatchesAssumption ==
  \A rule \in CandidateRules : Families \subseteq PatchFamilies(rule) => rule = "ROUTED_POLICY"

BranchForRule(rule, s) ==
  LET safe == CASE ContextFor(s) = "C0" -> s.family \in PatchFamilies(rule)
                [] ContextFor(s) = "C1" -> FALSE
                [] ContextFor(s) = "CX" -> rule = "ROUTED_POLICY" /\ Even(s.family)
  IN  IF rule = "CONSTANT_SAFE" \/ safe THEN "SAFE" ELSE "LEGACY"

\* The expected output: an unrepairable scenario expects neither branch.
Oracle(s) == IF s.role = "UNREPAIRABLE" THEN "DEFER" ELSE BranchForRule("ROUTED_POLICY", s)

\* anti_cheat_summary and its envelope, in counts of scenarios.
RightWith(all, branch(_)) == Cardinality({s \in all : branch(s) = Oracle(s)})
PartitionStands(families) ==
  LET all == ScenariosOf(families)
      oracle == RightWith(all, Oracle) - Cardinality({s \in all : s.role = "UNREPAIRABLE"})
      Patched(family, s) == IF s.family = family THEN BranchForRule("ROUTED_POLICY", s)
                            ELSE "LEGACY"
      margin == 30 * Cardinality(all)
  IN  /\ \A branch \in {"SAFE", "LEGACY"} :
           LET Same(s) == branch IN 100 * (oracle - RightWith(all, Same)) >= margin
      /\ \A family \in families :
           LET One(s) == Patched(family, s) IN 100 * (oracle - RightWith(all, One)) >= margin
      /\ 100 <= 5 * Cardinality(all)     \* outputs are unique, a constant one is right once

-----------------------------------------------------------------------------
(* Plans                                                                   *)

Linkage(cell) == IF cell \in {"SS", "SM"} THEN "SCORE" ELSE "LINKED"
Promotion(cell) == IF cell \in {"SS", "MS"} THEN "PERFORMANCE" ELSE "MECHANISM"
DevelopmentContext(cell, linkage) == [cell |-> cell, linkage |-> linkage]

FourPlan == [kind |-> "FOUR",
             contexts |-> [i \in DOMAIN ContextOrder |->
                             DevelopmentContext(ContextOrder[i], Linkage(ContextOrder[i]))]]
OnePlan(cell, linkage) == [kind |-> "ONE", contexts |-> <<DevelopmentContext(cell, linkage)>>]
OnePlans == {OnePlan(cell, Linkage(cell)) : cell \in FactorialCells}
            \cup {OnePlan(cell, "SHUFFLED") : cell \in {"MS", "MM"}}

Contexts(plan) == DOMAIN plan.contexts
ContextCount(plan) == Len(plan.contexts)

\* The attribution roles of a run; the single-context run reuses its parent pass.
FourRoles == <<"PARENT", "CANDIDATE", "REVERT", "PLACEBO">>
OneRoles == <<"CANDIDATE", "REVERT", "PLACEBO">>
RoleOrder(plan) == IF plan.kind = "FOUR" THEN FourRoles ELSE OneRoles

\* compile_fault_repair: the rule each role is built from.
CompiledRule(role, selected) ==
  CASE role = "CANDIDATE" -> selected
    [] role = "PLACEBO"   -> "CONTROL_NEUTRAL"
    [] OTHER              -> "CONSTANT_LEGACY"

CallsIn(pass) == IF pass.stage = "PROPOSE" THEN 1 ELSE Cardinality(Scenarios)
CallsMade == LET sum[i \in 0 .. Len(passes)] ==
                   IF i = 0 THEN 0 ELSE sum[i - 1] + CallsIn(passes[i])
             IN  sum[Len(passes)]
DefinitionCalls(plan) == ContextCount(plan) * (Cardinality(Scenarios) + 1)
MaxModelCalls(plan) ==
  DefinitionCalls(plan) + ContextCount(plan) * Len(RoleOrder(plan)) * Cardinality(Scenarios)

-----------------------------------------------------------------------------
(* Calls                                                                   *)

\* A completed call is one branch, the deferral or unparsable; a burned one
\* has no output; an overrun poisons the ledger.
Replies == {"SAFE", "LEGACY", "DEFER", "UNPARSED", "BURNED", "OVERRUN"}
Parsed(reply) == reply \in {"SAFE", "LEGACY", "DEFER"}
Followed(rule) == [s \in Scenarios |-> BranchForRule(rule, s)]

\* The model does what the rule says, but for one call while lapses remain.
PassReplies(rule) ==
  {Followed(rule)}
  \cup (IF dev.lapses = MaxLapses THEN {}
        ELSE {[Followed(rule) EXCEPT ![s] = reply] : s \in Scenarios, reply \in Replies})
LapsesIn(rule, replies) == IF replies = Followed(rule) THEN 0 ELSE 1

PassOverran(pass) ==
  IF pass.stage = "PROPOSE" THEN pass.replies = "OVERRUN"
  ELSE \E s \in Scenarios : pass.replies[s] = "OVERRUN"
LedgerPoisoned == passes # <<>> /\ PassOverran(passes[Len(passes)])

Pass(stage, context, role, rule, replies) ==
  [stage |-> stage, context |-> context, role |-> role, rule |-> rule, replies |-> replies]

RunPass(stage, role, rule) ==
  \E replies \in PassReplies(rule) :
    /\ passes' = Append(passes, Pass(stage, dev.context, role, rule, replies))
    /\ dev' = [dev EXCEPT !.lapses = @ + LapsesIn(rule, replies)]

-----------------------------------------------------------------------------
(* Grading, feedback and the gate                                          *)

RightIn(replies, among) == Cardinality({s \in among : replies[s] = Oracle(s)})
WithRole(role) == {s \in Scenarios : s.role = role}
Protected == Scenarios \ WithRole("REPAIRABLE")

\* _shuffled_items: within a family every item shows the next one's behaviour.
NextRole(role) == LET i == CHOOSE j \in 1 .. 4 : ScenarioRoles[j] = role
                  IN  ScenarioRoles[(i % 4) + 1]

Feedback(context, replies) ==
  [right |-> RightIn(replies, Scenarios),
   items |-> CASE context.linkage = "SCORE"    -> Nothing
               [] context.linkage = "LINKED"   -> replies
               [] context.linkage = "SHUFFLED" ->
                    [s \in Scenarios |-> replies[[s EXCEPT !.role = NextRole(@)]]]]

\* parse_fault_repair_action, or the fallback to the parent's own rule.
Valid(reply) == reply \in CandidateRules
AppliedRule(reply) == IF Valid(reply) THEN reply ELSE "CONSTANT_LEGACY"

Activated(replies, role) == {s \in WithRole(role) : replies[s] = "SAFE"}

PerformancePassed(valid, by) ==
  /\ valid
  /\ RightIn(by["CANDIDATE"], Scenarios) > RightIn(by["PARENT"], Scenarios)
  /\ RightIn(by["CANDIDATE"], Protected) >= RightIn(by["PARENT"], Protected)

MechanismPassed(by) ==
  LET c == by["CANDIDATE"]
  IN  /\ Activated(c, "REPAIRABLE") = WithRole("REPAIRABLE")
      /\ Activated(c, "NULL") = {}
      /\ RightIn(c, WithRole("SHIFT")) = Cardinality(WithRole("SHIFT"))
      /\ RightIn(c, WithRole("UNREPAIRABLE")) = 0
      /\ \A s \in Scenarios : Parsed(c[s])
      /\ RightIn(c, Scenarios) > RightIn(by["REVERT"], Scenarios)
      /\ RightIn(c, Scenarios) > RightIn(by["PLACEBO"], Scenarios)

\* make_gate_from_coordinates, on the replies of each role.
MakeGate(cell, valid, by) ==
  LET performance == PerformancePassed(valid, by)
      mechanism == MechanismPassed(by)
  IN  [performance |-> performance, mechanism |-> mechanism,
       promoted |-> performance /\ (Promotion(cell) = "PERFORMANCE" \/ mechanism)]

-----------------------------------------------------------------------------
(* The runs                                                                *)

\* What a freeze holds, and that Nothing is none.
ProposerReplies == CandidateRules \cup {"UNPARSED", "BURNED", "OVERRUN"}
Candidates ==
  [feedback : [right : Nat, items : {Nothing} \cup [Scenarios -> Replies]],
   reply : ProposerReplies, valid : BOOLEAN, rule : CandidateRules]
Freezes == [candidates : Seq(Candidates), boundary : Nat]
ASSUME NothingAssumption == Nothing \notin Freezes

Begin(plan) ==
  /\ dev.step = "NONE"
  /\ dev' = [step |-> "FIT", plan |-> plan, context |-> 1, role |-> 0, lapses |-> 0]
  /\ UNCHANGED <<passes, candidates, freeze, opened, development>>

StartFour == Begin(FourPlan)
StartOne == \E plan \in OnePlans : Begin(plan)

Running(step) == dev.step = step /\ ~LedgerPoisoned
Context == dev.plan.contexts[dev.context]

\* The parent answers the fit scenarios and the proposer sees the projection.
ObserveParent ==
  /\ Running("FIT") /\ Len(passes) = 2 * (dev.context - 1)
  /\ RunPass("FIT", "PARENT", "CONSTANT_LEGACY")
  /\ UNCHANGED <<candidates, freeze, opened, development>>

\* One proposer call; what it says is compiled, or the fallback is.
CallProposer(reply) ==
  /\ Running("FIT") /\ Len(passes) = 2 * dev.context - 1
  /\ passes' = Append(passes, Pass("PROPOSE", dev.context, "PROPOSER", "PROPOSER", reply))
  /\ candidates' = Append(candidates,
       [feedback |-> Feedback(Context, passes[Len(passes)].replies),
        reply |-> reply, valid |-> Valid(reply), rule |-> AppliedRule(reply)])
  /\ UNCHANGED <<freeze, opened, development>>

ProposeFour(reply) ==
  /\ dev.plan.kind = "FOUR" /\ CallProposer(reply)
  /\ dev' = IF dev.context < ContextCount(dev.plan) THEN [dev EXCEPT !.context = @ + 1]
            ELSE [dev EXCEPT !.step = "DEFINED", !.context = 1, !.role = 1]

ProposeOne(reply) ==
  /\ dev.plan.kind = "ONE" /\ CallProposer(reply)
  /\ dev' = [dev EXCEPT !.step = "ATTRIBUTE", !.role = 1]

\* The prefix of the ledger is complete: the candidates are frozen together.
FreezeJointly ==
  /\ Running("DEFINED") /\ CallsMade = DefinitionCalls(dev.plan)
  /\ freeze' = [candidates |-> candidates, boundary |-> CallsMade]
  /\ dev' = [dev EXCEPT !.step = "FROZEN"]
  /\ UNCHANGED <<passes, candidates, opened, development>>

\* _open_paired_gate_block_after_freeze
OpenGate ==
  /\ Running("FROZEN")
  /\ opened' = TRUE /\ dev' = [dev EXCEPT !.step = "ATTRIBUTE"]
  /\ UNCHANGED <<passes, candidates, freeze, development>>

\* Mutant: every context answers in one role before the next role.
AfterRoleByRole ==
  IF dev.context < ContextCount(dev.plan) THEN [dev EXCEPT !.context = @ + 1]
  ELSE IF dev.role < Len(RoleOrder(dev.plan))
       THEN [dev EXCEPT !.context = 1, !.role = @ + 1]
       ELSE [dev EXCEPT !.step = "CLOSE"]

AfterRole ==
  IF dev.role < Len(RoleOrder(dev.plan)) THEN [dev EXCEPT !.role = @ + 1]
  ELSE IF dev.context < ContextCount(dev.plan)
       THEN [dev EXCEPT !.context = @ + 1, !.role = 1]
       ELSE [dev EXCEPT !.step = "CLOSE"]

Attribute ==
  LET role == RoleOrder(dev.plan)[dev.role]
      rule == CompiledRule(role, candidates[dev.context].rule)
  IN  /\ Running("ATTRIBUTE")
      /\ \E replies \in PassReplies(rule) :
           /\ passes' = Append(passes, Pass("GATE", dev.context, role, rule, replies))
           /\ dev' = [AfterRole EXCEPT !.lapses = @ + LapsesIn(rule, replies)]
      /\ UNCHANGED <<candidates, freeze, opened, development>>

\* The replies of a context by role, as the ledger holds them.
PassOf(stage, i, role) ==
  LET p == CHOOSE q \in 1 .. Len(passes) :
             passes[q].stage = stage /\ passes[q].context = i /\ passes[q].role = role
  IN  passes[p].replies
ParentStage(plan) == IF plan.kind = "FOUR" THEN "GATE" ELSE "FIT"
Observed(plan, i) ==
  [role \in {"PARENT", "CANDIDATE", "REVERT", "PLACEBO"} |->
     PassOf(IF role = "PARENT" THEN ParentStage(plan) ELSE "GATE", i, role)]

\* The ledger closed: every context is gated in one batch, the result stored.
ResourceClosed == CallsMade = MaxModelCalls(dev.plan) /\ ~LedgerPoisoned

Gates(plan) ==
  [i \in Contexts(plan) |->
     MakeGate(plan.contexts[i].cell, candidates[i].valid, Observed(plan, i))]

StoreResult(frozen) ==
  /\ dev.step = "CLOSE" /\ ResourceClosed
  /\ development' = [plan |-> dev.plan, candidates |-> candidates, freeze |-> frozen,
                     observed |-> [i \in Contexts(dev.plan) |-> Observed(dev.plan, i)],
                     gates |-> Gates(dev.plan)]
  /\ dev' = [dev EXCEPT !.step = "DONE"]
  /\ UNCHANGED <<passes, candidates, freeze, opened>>

PublishFour == dev.plan.kind = "FOUR" /\ StoreResult(freeze)
PublishOne == dev.plan.kind = "ONE" /\ StoreResult(Nothing)

\* An overrun: the next call, or the next check of the ledger, raises.
Raise ==
  /\ dev.step \in {"FIT", "DEFINED", "ATTRIBUTE", "CLOSE"} /\ LedgerPoisoned
  /\ dev' = [dev EXCEPT !.step = "RAISED"]
  /\ UNCHANGED <<passes, candidates, freeze, opened, development>>

DevInit ==
  /\ dev = [step |-> "NONE", plan |-> FourPlan, context |-> 1, role |-> 0, lapses |-> 0]
  /\ passes = <<>> /\ candidates = <<>>
  /\ freeze = Nothing /\ opened = FALSE /\ development = Nothing

DevNext ==
  \/ StartFour \/ StartOne
  \/ ObserveParent
  \/ \E reply \in ProposerReplies : ProposeFour(reply) \/ ProposeOne(reply)
  \/ FreezeJointly \/ OpenGate \/ Attribute
  \/ PublishFour \/ PublishOne \/ Raise

DevSpec == DevInit /\ [][DevNext]_devVars

-----------------------------------------------------------------------------
(* The offline verifications                                               *)

Key(pass) == [stage |-> pass.stage, context |-> pass.context, role |-> pass.role]
At2(stage, i, role) == [stage |-> stage, context |-> i, role |-> role]

\* Definition calls by context, then attribution calls by context and role.
ExpectedOrder(plan) ==
  LET n == ContextCount(plan)
      roles == RoleOrder(plan)
  IN  [k \in 1 .. 2 * n + n * Len(roles) |->
         IF k <= 2 * n
         THEN LET i == ((k - 1) \div 2) + 1
              IN  IF k % 2 = 1 THEN At2("FIT", i, "PARENT") ELSE At2("PROPOSE", i, "PROPOSER")
         ELSE LET j == k - 2 * n - 1
              IN  At2("GATE", (j \div Len(roles)) + 1, roles[(j % Len(roles)) + 1])]

LedgerKeys == [p \in DOMAIN passes |-> Key(passes[p])]

\* Every observation and proposal is derived again from its raw replies.
CandidateReplays(plan, i, candidate) ==
  LET reply == PassOf("PROPOSE", i, "PROPOSER")
  IN  candidate = [feedback |-> Feedback(plan.contexts[i], PassOf("FIT", i, "PARENT")),
                   reply |-> reply, valid |-> Valid(reply), rule |-> AppliedRule(reply)]

ProvenanceHolds(selected) ==
  \A p \in DOMAIN passes :
    passes[p].stage # "PROPOSE" =>
      passes[p].rule = CompiledRule(passes[p].role, selected[passes[p].context].rule)

ContextReplays(d, i) ==
  /\ CandidateReplays(d.plan, i, d.candidates[i])
  /\ d.observed[i] = Observed(d.plan, i)
  /\ d.gates[i] = MakeGate(d.plan.contexts[i].cell, d.candidates[i].valid, d.observed[i])

BudgetCloses(plan) ==
  CallsMade = MaxModelCalls(plan) /\ \A p \in DOMAIN passes : ~PassOverran(passes[p])

\* The freeze binds the candidates, and the ledger is held to its order.
FourVerifies(d) ==
  /\ LedgerKeys = ExpectedOrder(d.plan)
  /\ freeze = d.freeze
  /\ d.freeze = [candidates |-> d.candidates, boundary |-> DefinitionCalls(d.plan)]

\* One context is held to its calls only.
OneVerifies(d) ==
  LET expected == ExpectedOrder(d.plan)
  IN  /\ Len(LedgerKeys) = Len(expected)
      /\ {LedgerKeys[p] : p \in DOMAIN passes} = {expected[p] : p \in DOMAIN expected}

DevelopmentVerifies(d) ==
  /\ IF d.plan.kind = "FOUR" THEN FourVerifies(d) ELSE OneVerifies(d)
  /\ BudgetCloses(d.plan) /\ ProvenanceHolds(d.candidates)
  /\ \A i \in Contexts(d.plan) : ContextReplays(d, i)

-----------------------------------------------------------------------------
(* Properties                                                              *)

DevTypeOK ==
  /\ dev.step \in {"NONE", "FIT", "DEFINED", "FROZEN", "ATTRIBUTE", "CLOSE", "DONE", "RAISED"}
  /\ dev.plan \in {FourPlan} \cup OnePlans /\ dev.context \in Contexts(dev.plan)
  /\ dev.lapses \in 0 .. MaxLapses /\ opened \in BOOLEAN
  /\ \A p \in DOMAIN passes : passes[p].context \in Contexts(dev.plan)
  /\ Len(candidates) <= ContextCount(dev.plan)
  /\ \A i \in DOMAIN candidates : candidates[i].rule \in CandidateRules

\* A result the runner stores is one the offline verification accepts: burned,
\* unparsed and invalid answers included, in the order the ledger holds them.
PublishedVerifies == development # Nothing => DevelopmentVerifies(development)

\* No gate scenario is open before all candidates are frozen together, and
\* what answers it afterwards is compiled from the frozen rules.
GateFollowsFreeze ==
  opened =>
    /\ freeze # Nothing
    /\ Len(freeze.candidates) = ContextCount(dev.plan)
    /\ \A p \in DOMAIN passes :
         passes[p].stage = "GATE" =>
           passes[p].rule = CompiledRule(passes[p].role,
                                         freeze.candidates[passes[p].context].rule)

\* A mechanism gate promotes only the rule that repairs every family and
\* nothing else, whatever calls of whichever role were lost, as long as the
\* candidate's own completed calls did what its rule says.
MechanismPromotesRepairs ==
  development # Nothing =>
    \A i \in Contexts(development.plan) :
      LET rule == development.candidates[i].rule
          replies == development.observed[i]["CANDIDATE"]
      IN  /\ Promotion(development.plan.contexts[i].cell) = "MECHANISM"
          /\ development.gates[i].promoted
          /\ \A s \in Scenarios : Parsed(replies[s]) => replies[s] = BranchForRule(rule, s)
          => rule = "ROUTED_POLICY"

\* What a development run stores verifies, was gated after its freeze, and
\* promotes by mechanism none but the repair.
DevelopmentStands == PublishedVerifies /\ GateFollowsFreeze /\ MechanismPromotesRepairs
=============================================================================
