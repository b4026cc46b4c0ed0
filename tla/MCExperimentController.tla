------------------------ MODULE MCExperimentController ------------------------
(* Two prompt candidates and one skill candidate of a controller; beside it,  *)
(* the gate decisions of two contenders whose experiments froze different     *)
(* policies: one with a roster of tasks and seeds, one of tasks and limits.   *)
EXTENDS ExperimentController, GateDecision

CONSTANTS p1, p2, s1

MCCandidates == {p1, p2, s1}
MCSkillCandidates == {s1}
MCGateTokens == {3}
MCArmCharges == {0, 2, 3}

MCContenders == {"x", "y"}
MCProtocolOf == [c \in MCContenders |-> IF c = "x" THEN "seeded" ELSE "limited"]
MCProtocols == {"seeded", "limited"}
Seeded ==
  [tasks |-> {"a", "b"}, seeds |-> {1, 2}, complete |-> TRUE, minTasks |-> 2, minEffect |-> 0,
   required |-> {"probe"}, slice |-> {}, floor |-> 0, minSliceTasks |-> 1,
   maxDrop |-> Unset, maxRate |-> Unset, tolerance |-> 0, maxTokensRatio |-> Unset]
MCPolicies ==
  [protocol \in MCProtocols |->
     IF protocol = "seeded" THEN Seeded
     ELSE [Seeded EXCEPT !.seeds = {}, !.minEffect = 1, !.slice = {"b"}, !.floor = 1,
                         !.maxDrop = 1, !.maxRate = 50, !.maxTokensRatio = 2]]

\* All trials as planned, or one of them, a task the roster or the evidence out of line.
Ran(score) ==
  [key \in {"a", "b"} \X {1, 2} |->
     [status |-> "COMPLETED", score |-> score, print |-> "same", tokens |-> 1, violated |-> FALSE]]
Without(ran, keys) == [key \in DOMAIN ran \ keys |-> ran[key]]
Extra(ran) == [key \in DOMAIN ran \cup {<<"c", 1>>} |-> ran[<<"a", 1>>]]
MissedTask(ran) == Without(ran, {<<"b", 1>>, <<"b", 2>>})
MCTrialSets ==
  LET key == <<"b", 2>> before == Ran(1) after == Ran(3)
  IN  [PARENT |-> {before, MissedTask(before), Without(before, {key}), Extra(before),
                   [before EXCEPT ![key].status = "TIMEOUT"]},
       CANDIDATE |-> {after, Ran(0), MissedTask(after), Without(after, {key}),
                      [after EXCEPT ![key].status = "TIMEOUT"],
                      [after EXCEPT ![key].violated = TRUE],
                      [after EXCEPT ![key].print = "other"],
                      [after EXCEPT ![key].score = 1], [after EXCEPT ![key].tokens = 9]}]
MCCheckSets == {[check \in {"probe"} |-> "PASSED"], [check \in {"probe"} |-> "FAILED"],
                [check \in {} |-> "PASSED"]}

VARIABLE leg   \* which of them is explored
mcVars == <<vars, decisionVars, leg>>

MCInit == Init /\ DecisionInit /\ leg \in {"CONTROLLER", "DECISION"}
MCNext ==
  /\ \/ leg = "CONTROLLER" /\ Next /\ UNCHANGED decisionVars
     \/ leg = "DECISION" /\ DecisionNext /\ UNCHANGED vars
  /\ UNCHANGED leg
MCSpec == MCInit /\ [][MCNext]_mcVars /\ WF_vars(leg = "CONTROLLER" /\ WorkerStep)
=============================================================================
