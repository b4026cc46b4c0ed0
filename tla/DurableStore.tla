----------------------------- MODULE DurableStore -----------------------------
(***************************************************************************)
(* What a content-addressed store promises: an object appears whole, stays *)
(* as it is unless something outside the store damages it, and is never    *)
(* lost once a writer has been told that it is stored.                     *)
(***************************************************************************)
CONSTANT Digests

VARIABLES visible,        \* digests a reader finds
          damaged,        \* those whose bytes no longer match
          acknowledged    \* digests a writer was told are stored

vars == <<visible, damaged, acknowledged>>

Init == visible = {} /\ damaged = {} /\ acknowledged = {}

Publish(d) ==
  /\ d \notin visible
  /\ visible' = visible \cup {d}
  /\ UNCHANGED <<damaged, acknowledged>>

Acknowledge(d) ==
  /\ d \in visible
  /\ acknowledged' = acknowledged \cup {d}
  /\ UNCHANGED <<visible, damaged>>

Damage(d) ==
  /\ d \in visible
  /\ damaged' = damaged \cup {d}
  /\ UNCHANGED <<visible, acknowledged>>

\* A power loss takes only objects nobody was told about.
Lose ==
  /\ visible' \subseteq visible
  /\ acknowledged \subseteq visible'
  /\ damaged' = damaged \cap visible'
  /\ UNCHANGED acknowledged

Next ==
  \/ \E d \in Digests : Publish(d) \/ Acknowledge(d) \/ Damage(d)
  \/ Lose

Spec == Init /\ [][Next]_vars
=============================================================================
