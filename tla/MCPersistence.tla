------------------------------ MODULE MCPersistence ------------------------------
(* One adaptive arm with one candidate, one cell of every stage, and two   *)
(* evaluation calls; the shadow calls of the gate, which repeat the        *)
(* parent's, are left out.  Beside it the proposals of two cells, two      *)
(* tasks and two pipelines; and the artifact store with two writers, two   *)
(* contents that share a shard and one that does not.                      *)
EXTENDS CampaignExecutor, MetaRuntime, ArtifactStore, TLC

\* Two of a kind: executors or writers, mutations or contents.
CONSTANTS x1, x2, m1, m2, answer, apart

Node(kind, arm, candidate, variant) ==
  [kind |-> kind, arm |-> arm, cell |-> 0, candidate |-> candidate, variant |-> variant]

MCNodes ==
  <<Node("PARENT_FIT", "full", Absent, Absent),
    Node("PROPOSAL", "full", 0, Absent),
    Node("CANDIDATE_FIT", "full", 0, Absent),
    Node("NOMINATION", "full", Absent, Absent),
    Node("GATE", "full", Absent, "parent"),
    Node("GATE", "full", Absent, "nominated-candidate"),
    Node("GATE_DECISION", "full", Absent, Absent),
    Node("HOLDOUT", "full", Absent, Absent),
    Node("PURE_AT_B_SAMPLE", "pure-at-b", Absent, Absent)>>

MCExecutors == {x1, x2}
MCResponses == {answer}

MCCells == <<"score", "full">>
MCMutations == {m1, m2}
MCComponentOf == [m \in MCMutations |-> m]

\* Clean replies, a reply outside the catalogue and a reply without a call.
Shape(calls, text, tool, said) ==
  [calls |-> calls, text |-> text, tool |-> tool, said |-> said]
MCShapes ==
  {Shape(1, FALSE, "DIAGNOSIS", "text"), Shape(0, TRUE, Missing, Missing),
   Shape(1, FALSE, "PROPOSAL", "unknown")}
  \cup {Shape(1, FALSE, "PROPOSAL", m) : m \in MCMutations}
MCFitOutcomes ==
  {[grade |-> TRUE, response |-> "answer"], [grade |-> FALSE, response |-> Missing]}

MCDigests == {m1, m2, apart}
MCShards == {"A", "B"}
MCShardOf == m1 :> "A" @@ m2 :> "A" @@ apart :> "B"

MCSymmetry == Permutations({x1, x2}) \cup Permutations({m1, m2})

VARIABLE leg   \* which of them is explored, the others stand still
mcVars == <<vars, metaVars, storeVars, leg>>

\* The first task of every cell was answered right, the second was not answered.
MCInit ==
  /\ Init /\ MetaInit /\ StoreInit
  /\ \A n \in FitNodes : fits[n].grade = (n.index = 1)
  /\ leg \in {"CAMPAIGN", "PROPOSALS", "STORE"}

\* Executors and proposals may come to an end, the store may not.
MCNext ==
  /\ UNCHANGED leg
  /\ \/ leg = "CAMPAIGN" /\ Next /\ UNCHANGED <<metaVars, storeVars>>
     \/ leg = "PROPOSALS" /\ MetaNext /\ UNCHANGED <<vars, storeVars>>
     \/ leg = "STORE" /\ StoreNext /\ UNCHANGED <<vars, metaVars>>
     \/ leg # "STORE" /\ UNCHANGED <<vars, metaVars, storeVars>>

MCSpec == MCInit /\ [][MCNext]_mcVars
=============================================================================
