--------------------------- MODULE ChampionSelection ---------------------------
(***************************************************************************)
(* What one frozen experiment promises about its champion and its spending,*)
(* whatever candidates, probes and workers it runs: the champion moves     *)
(* forward only, only while selection is open, an experiment opens with    *)
(* nothing spent, spending is never given back to a live controller, and   *)
(* nothing moves once selection is frozen.                                 *)
(***************************************************************************)
EXTENDS Naturals

CONSTANTS Harnesses,   \* harnesses that may be champion
          Seed         \* the seed harness of the experiment

VARIABLES phase,       \* PREPARING, OPEN, SELECTED, FINAL or VOID
          champion,    \* the current champion
          past,        \* champions that were replaced
          spent        \* tokens charged so far

vars == <<phase, champion, past, spent>>

Init ==
  /\ phase = "PREPARING"
  /\ champion = Seed
  /\ past = {}
  /\ spent = 0

Open ==
  /\ phase = "PREPARING"
  /\ spent = 0
  /\ phase' = "OPEN"
  /\ UNCHANGED <<champion, past, spent>>

Advance ==
  /\ phase = "OPEN"
  /\ champion' \in Harnesses \ (past \cup {champion})
  /\ past' = past \cup {champion}
  /\ UNCHANGED <<phase, spent>>

\* Work in flight when an experiment is voided may still be charged.
Spend ==
  /\ phase \in {"OPEN", "VOID"}
  /\ spent' \in Nat /\ spent' > spent
  /\ UNCHANGED <<phase, champion, past>>

Select ==
  /\ phase = "OPEN"
  /\ phase' = "SELECTED"
  /\ UNCHANGED <<champion, past, spent>>

Finish ==
  /\ phase = "SELECTED"
  /\ phase' = "FINAL"
  /\ UNCHANGED <<champion, past, spent>>

Void ==
  /\ phase \in {"PREPARING", "OPEN", "SELECTED"}
  /\ phase' = "VOID"
  /\ UNCHANGED <<champion, past, spent>>

\* A new controller object knows the spending its caller kept, no champion.
Restart ==
  /\ phase' = "PREPARING"
  /\ champion' = Seed
  /\ past' = {}
  /\ spent' \in Nat /\ spent' <= spent

Next == Open \/ Advance \/ Spend \/ Select \/ Finish \/ Void \/ Restart

Spec == Init /\ [][Next]_vars
=============================================================================
