---------------------------- MODULE TokenAccount ----------------------------
(***************************************************************************)
(* What an attempt ledger promises to whoever pays for model calls, with   *)
(* no chain, writer or checkpoint: an account of Capacity tokens in which  *)
(* at most one hold is open, a hold never exceeds what is left, consuming  *)
(* a hold never returns what was already charged, and the first charge     *)
(* above its hold closes the account for good.                             *)
(***************************************************************************)
EXTENDS Integers

CONSTANT Capacity

VARIABLES spent,     \* tokens charged by consumed holds
          held,      \* tokens of the open hold, 0 when there is none
          overrun    \* a charge exceeded its hold

account == <<spent, held, overrun>>

Init == spent = 0 /\ held = 0 /\ overrun = FALSE

\* Set aside n tokens before a call is allowed.
Hold(n) ==
  /\ ~overrun
  /\ held = 0
  /\ n \in 1 .. (Capacity - spent)
  /\ held' = n
  /\ UNCHANGED <<spent, overrun>>

\* Consume the hold within its amount.
Charge(n) ==
  /\ held > 0
  /\ n \in 0 .. held
  /\ spent' = spent + n
  /\ held' = 0
  /\ UNCHANGED overrun

\* Consume the hold by more than its amount.
Overrun ==
  /\ held > 0
  /\ spent' > spent + held
  /\ held' = 0
  /\ overrun' = TRUE

Next == \/ \E n \in 1 .. Capacity : Hold(n)
        \/ \E n \in 0 .. held : Charge(n)
        \/ Overrun

Spec == Init /\ [][Next]_account
=============================================================================
