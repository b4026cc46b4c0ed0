--------------------------- MODULE MCAttemptRunner ---------------------------
(* Two runners of different kinds on one ledger, small budgets.            *)
EXTENDS AttemptRunner

CONSTANTS r1, r2, s1

MCRunners == {r1, r2}
MCSlots == {s1}
MCReported == {0, 1, 3}
MCAssignments == {[r \in MCRunners |-> IF r = r1 THEN k ELSE "NATIVE"] : k \in {"FIXED", "PURE"}}
=============================================================================
