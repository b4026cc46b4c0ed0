------------------------------- MODULE SearchRun -------------------------------
(***************************************************************************)
(* What one automatic search promises to the study that will use it: the   *)
(* search only ever selects a harness that the paired experiment made its  *)
(* champion, a closed selection no longer moves, and one result at most is *)
(* issued for the experiment, over a search and an experiment that both    *)
(* closed on the same champion.                                            *)
(***************************************************************************)
CONSTANTS Harnesses,    \* harnesses that may be champion
          Seed,         \* the harness both start from
          Absent        \* no result yet

VARIABLES selection,    \* OPEN, CLOSED or VOID: the search journal
          chosen,       \* its champion
          phase,        \* OPEN, SELECTED or VOID: the paired experiment
          leader,       \* its champion
          past,         \* champions it replaced
          result        \* champion of the issued result

vars == <<selection, chosen, phase, leader, past, result>>

Init ==
  /\ selection = "OPEN" /\ phase = "OPEN"
  /\ chosen = Seed /\ leader = Seed
  /\ past = {}
  /\ result = Absent

Promote ==
  /\ phase = "OPEN"
  /\ leader' \in Harnesses \ (past \cup {leader})
  /\ past' = past \cup {leader}
  /\ UNCHANGED <<selection, chosen, phase, result>>

Follow ==
  /\ selection = "OPEN"
  /\ chosen' \in past \cup {leader}
  /\ UNCHANGED <<selection, phase, leader, past, result>>

CloseSearch ==
  /\ selection = "OPEN" /\ selection' = "CLOSED"
  /\ UNCHANGED <<chosen, phase, leader, past, result>>

VoidSearch ==
  /\ selection # "VOID" /\ selection' = "VOID"
  /\ UNCHANGED <<chosen, phase, leader, past, result>>

\* A search that led nowhere may be run again from the seed.
SearchAgain ==
  /\ selection' = "OPEN" /\ chosen' = Seed
  /\ UNCHANGED <<phase, leader, past, result>>

CloseExperiment ==
  /\ phase = "OPEN" /\ phase' = "SELECTED"
  /\ UNCHANGED <<selection, chosen, leader, past, result>>

VoidExperiment ==
  /\ phase # "VOID" /\ phase' = "VOID"
  /\ UNCHANGED <<selection, chosen, leader, past, result>>

Issue ==
  /\ result = Absent
  /\ selection = "CLOSED" /\ phase = "SELECTED"
  /\ chosen = leader
  /\ result' = chosen
  /\ UNCHANGED <<selection, chosen, phase, leader, past>>

Next == Promote \/ Follow \/ CloseSearch \/ VoidSearch \/ SearchAgain
        \/ CloseExperiment \/ VoidExperiment \/ Issue

Spec == Init /\ [][Next]_vars
=============================================================================
