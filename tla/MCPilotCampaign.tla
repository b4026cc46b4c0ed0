--------------------------- MODULE MCPilotCampaign ---------------------------
(* One task of each split, every GATE variant, two bare samples, two         *)
(* replicates, answers that differ from the default in at most two ways.     *)
(* Beside it, of the second campaign, three starts of the semantic review    *)
(* and the grading of a FIT and a HOLDOUT node by two threads.               *)
EXTENDS PilotCampaign, SemanticCampaign, TrustedGrading, TLC

CONSTANTS t1, t2

MCFitTasks == <<"fit">>
MCGateTasks == <<"gate">>
MCHoldoutTasks == <<"holdout">>
MCGateVariants == <<"parent", "candidate", "revert", "placebo">>
MCSamples == <<2>>
\* The shortest campaign: one GATE variant, one sample.
MCShortVariants == <<"candidate">>
MCShortSamples == <<1>>
MCHarnesses == {"parent", "bare", "static", "prompt", "score-candidate", "full-candidate"}
MCCeiling == 2
MCUsages == {1, MCCeiling, MCCeiling + 1}

MCCatalogs == {RequiredModels, RequiredModels \cup {"another"}, {"PRIMARY_ONE"}}

MCSplitOf == [fit |-> "FIT", holdout |-> "HOLDOUT"]
MCCorrect == {<<"fit", "o1">>, <<"holdout", "o2">>, <<"cell", "o1">>}
MCAuthorities ==
  {[release |-> "new", verified |-> TRUE], [release |-> "old", verified |-> FALSE]}
MCThreads == {t1, t2}
MCSymmetry == Permutations(MCThreads)

VARIABLE leg   \* which of them is explored, the others stand still
mcVars == <<vars, semanticVars, gradingVars, leg>>

MCInit ==
  /\ Init /\ SemanticInit /\ GradingInit
  /\ leg \in {"PILOT", "REVIEW", "GRADING"}

MCNext ==
  /\ UNCHANGED leg
  /\ \/ leg = "PILOT" /\ Next /\ UNCHANGED <<semanticVars, gradingVars>>
     \/ leg = "REVIEW" /\ SemanticNext /\ UNCHANGED <<vars, gradingVars>>
     \/ leg = "GRADING" /\ GradingNext /\ UNCHANGED <<vars, semanticVars>>

MCSpec == MCInit /\ [][MCNext]_mcVars
=============================================================================
