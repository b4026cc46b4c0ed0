------------------------- MODULE AttemptRunnerProofs -------------------------
(***************************************************************************)
(* Theorems about the attempt ledger and the runners over it, for every    *)
(* budget, every set of reported usages and any number of reopenings and   *)
(* runners.                                                                *)
(*                                                                         *)
(* The ledger: its inductive invariant is LedgerInv with the two facts     *)
(* about the running total of charges that make the checkpoint equal to    *)
(* the replay.                                                             *)
(*                                                                         *)
(* The runners: interleaved with faulty writes, damage and restarts, they  *)
(* only ever take steps of the ledger, so its theorems hold of them; a     *)
(* backend call is made only on a reservation nobody else can consume; and *)
(* a record that is returned has its outcome.  Each of the three kinds of  *)
(* runner takes only such steps, and a native one calls its backend once   *)
(* for a slot.                                                             *)
(***************************************************************************)
EXTENDS AttemptRunner, TLAPS

-----------------------------------------------------------------------------
(* The ledger                                                              *)

USE BudgetAssumption, BoundAssumption DEF BudgetAssumption, BoundAssumption, Ceilings

IsRunningTotal(f) ==
  f = [i \in 0 .. Len(outcomes) |-> IF i = 0 THEN 0 ELSE f[i - 1] + outcomes[i].charged]

TotalDefined == \E f : IsRunningTotal(f)
TotalUnique == \A f : IsRunningTotal(f) => f[Len(outcomes)] = checkpoint.charged

(* ChargedAlong satisfies its own recursion once some function does.       *)
LEMMA ChargedAlongIsTotal ==
  ASSUME TotalDefined PROVE IsRunningTotal(ChargedAlong)
BY DEF TotalDefined, IsRunningTotal, ChargedAlong

(* One more outcome extends the running total, and only one total exists;  *)
(* the ledger carries both facts from state to state instead of an induction *)
(* over the length of the chain.                                             *)
LEMMA TotalExtends ==
  ASSUME NEW o, NEW c \in Nat, outcomes \in Seq(Outcome), o \in Outcome, checkpoint.charged = c,
         outcomes' = Append(outcomes, o), checkpoint'.charged = c + o.charged,
         TotalDefined, TotalUnique
  PROVE  TotalDefined' /\ TotalUnique'
<1> DEFINE n == Len(outcomes)
<1>1. n \in Nat /\ Len(outcomes') = n + 1
  OBVIOUS
<1>2. \A i \in 1 .. n : outcomes'[i] = outcomes[i]
  OBVIOUS
<1>3. outcomes'[n + 1] = o
  OBVIOUS
<1>4. TotalDefined'
  <2>1. PICK f : IsRunningTotal(f)
    BY DEF TotalDefined
  <2>2. f[n] = c
    BY <2>1 DEF TotalUnique
  <2> DEFINE g == [i \in 0 .. n + 1 |-> IF i = n + 1 THEN c + o.charged ELSE f[i]]
  <2>3. g = [i \in 0 .. n + 1 |-> IF i = 0 THEN 0 ELSE g[i - 1] + outcomes'[i].charged]
    <3>1. ASSUME NEW i \in 0 .. n + 1
          PROVE g[i] = IF i = 0 THEN 0 ELSE g[i - 1] + outcomes'[i].charged
      <4>1. CASE i = n + 1
        <5>1. g[i] = c + o.charged /\ g[i - 1] = c
          BY <4>1, <2>2, <1>1
        <5> QED BY <5>1, <4>1, <1>1, <1>3
      <4>2. CASE i # n + 1
        <5>1. i \in 0 .. n /\ g[i] = f[i]
          BY <4>2, <1>1
        <5>2. f[i] = IF i = 0 THEN 0 ELSE f[i - 1] + outcomes[i].charged
          BY <2>1, <5>1 DEF IsRunningTotal
        <5>3. i # 0 => g[i - 1] = f[i - 1] /\ outcomes'[i] = outcomes[i]
          BY <5>1, <1>1, <1>2
        <5> QED BY <5>1, <5>2, <5>3
      <4> QED BY <4>1, <4>2
    <3> QED BY <3>1
  <2> QED BY <2>3, <1>1 DEF TotalDefined, IsRunningTotal
<1>5. TotalUnique'
  <2> SUFFICES ASSUME NEW g, g = [i \in 0 .. n + 1 |-> IF i = 0 THEN 0 ELSE g[i - 1] + outcomes'[i].charged]
               PROVE  g[n + 1] = c + o.charged
    BY <1>1 DEF TotalUnique, IsRunningTotal
  <2> DEFINE f == [i \in 0 .. n |-> g[i]]
  <2>1. f = [i \in 0 .. n |-> IF i = 0 THEN 0 ELSE f[i - 1] + outcomes[i].charged]
    <3>1. ASSUME NEW i \in 0 .. n
          PROVE  g[i] = IF i = 0 THEN 0 ELSE f[i - 1] + outcomes[i].charged
      <4>1. i \in 0 .. n + 1
        BY <1>1
      <4>2. g[i] = IF i = 0 THEN 0 ELSE g[i - 1] + outcomes'[i].charged
        BY <4>1
      <4>3. i # 0 => f[i - 1] = g[i - 1] /\ outcomes'[i] = outcomes[i]
        BY <1>1, <1>2
      <4> QED BY <4>2, <4>3
    <3> QED BY <3>1
  <2>2. f[n] = c
    BY <2>1, <1>1 DEF TotalUnique, IsRunningTotal
  <2> QED BY <2>2, <1>1, <1>3
<1> QED BY <1>4, <1>5

Inv == LedgerInv /\ TotalDefined /\ TotalUnique

-----------------------------------------------------------------------------
(* Consequences of the invariant in one state                              *)

(* The incremental checkpoint is the replay of the chain.                   *)
LEMMA InvImpliesReplay == ASSUME Inv PROVE CheckpointIsReplay
<1> USE DEF Inv, LedgerInv
<1>1. IsRunningTotal(ChargedAlong)
  BY ChargedAlongIsTotal
<1>2. ChargedAlong[Len(outcomes)] = checkpoint.charged
  BY <1>1 DEF TotalUnique
<1>3. Len(reservations) \in Nat /\ Len(outcomes) \in Nat
  BY DEF LedgerTypeOK
<1>4. (Len(reservations) > Len(outcomes)) <=> Len(reservations) # Len(outcomes)
  BY <1>3 DEF CountsAgree
<1>5. checkpoint.poisoned <=> \E i \in DOMAIN outcomes : outcomes[i].disposition = "POISONED"
  BY <1>3 DEF PoisonIsLast, CountsAgree, LedgerTypeOK
<1>6. checkpoint.encumbered = checkpoint.charged
        + (IF Len(reservations) > Len(outcomes)
           THEN reservations[Len(reservations)].tokens ELSE 0)
  BY <1>3, <1>4 DEF TokensAgree, CountsAgree, PendingReservation
<1>7. checkpoint = [tail |-> checkpoint.tail, pending |-> checkpoint.pending,
         poisoned |-> checkpoint.poisoned, attempts |-> checkpoint.attempts,
         completed |-> checkpoint.completed, charged |-> checkpoint.charged,
         encumbered |-> checkpoint.encumbered]
  BY DEF LedgerTypeOK, LedgerState
<1>8. /\ Replay.tail = checkpoint.tail /\ Replay.pending = checkpoint.pending
      /\ Replay.attempts = checkpoint.attempts /\ Replay.completed = checkpoint.completed
  BY <1>4 DEF Replay, CountsAgree
<1>9. Replay.charged = checkpoint.charged /\ Replay.encumbered = checkpoint.encumbered
  BY <1>2, <1>6 DEF Replay
<1>10. Replay.poisoned = checkpoint.poisoned
  <2>1. Replay.poisoned = (\E i \in DOMAIN outcomes : outcomes[i].disposition = "POISONED")
    BY DEF Replay
  <2>2. checkpoint.poisoned \in BOOLEAN
    BY DEF LedgerTypeOK, LedgerState
  <2> QED BY <1>5, <2>1, <2>2, Zenon
<1>11. Replay = [tail |-> Replay.tail, pending |-> Replay.pending,
         poisoned |-> Replay.poisoned, attempts |-> Replay.attempts,
         completed |-> Replay.completed, charged |-> Replay.charged,
         encumbered |-> Replay.encumbered]
  BY Zenon DEF Replay
<1> QED
  BY <1>7, <1>8, <1>9, <1>10, <1>11, Zenon DEF CheckpointIsReplay

(* An undamaged chain passes its replay.                                    *)
LEMMA InvImpliesReplaySucceeds ==
  ASSUME Inv, damaged = {} PROVE ReplaySucceeds
<1>1. CheckpointIsReplay
  BY InvImpliesReplay
<1> QED
  BY <1>1 DEF Inv, LedgerInv, CheckpointIsReplay, ReplaySucceeds, CountsAgree,
    TokensAgree, PoisonIsLast, OneEpoch

(* A closed tip of an undamaged chain verifies.                             *)
LEMMA InvImpliesTipVerifies ==
  ASSUME Inv, damaged = {}, checkpoint.pending = 0 PROVE TipVerifies
<1> SUFFICES ASSUME checkpoint.tail # 0 PROVE TipVerifies
  BY DEF TipVerifies
<1>1. Len(reservations) \in Nat /\ Len(outcomes) \in Nat
  BY DEF Inv, LedgerInv, LedgerTypeOK
<1>2. Len(outcomes) = Len(reservations) /\ Len(outcomes) > 0
  BY <1>1 DEF Inv, LedgerInv, CountsAgree
<1>3. Len(outcomes) \in DOMAIN outcomes
  BY <1>1, <1>2 DEF Inv, LedgerInv, LedgerTypeOK
<1>5. PairVerifies(Len(outcomes))
  BY <1>3 DEF Inv, LedgerInv, TokensAgree
<1>6. checkpoint.poisoned = (outcomes[Len(outcomes)].disposition = "POISONED")
  <2>1. checkpoint.poisoned \in BOOLEAN
    BY DEF Inv, LedgerInv, LedgerTypeOK, LedgerState
  <2>2. checkpoint.poisoned <=> outcomes[Len(outcomes)].disposition = "POISONED"
    BY <1>2 DEF Inv, LedgerInv, PoisonIsLast
  <2> QED BY <2>1, <2>2
<1>4. checkpoint.encumbered = checkpoint.charged
  BY DEF Inv, LedgerInv, TokensAgree, LedgerTypeOK, LedgerState
<1> QED
  BY <1>2, <1>4, <1>5, <1>6 DEF Inv, LedgerInv, TipVerifies, CountsAgree

-----------------------------------------------------------------------------
(* Inductive steps                                                         *)

(* A fresh ledger (attempts.py 45-71) satisfies the invariant.              *)
LEMMA InitEstablishesInv == LedgerInit => Inv
<1> SUFFICES ASSUME LedgerInit PROVE Inv
  OBVIOUS
<1> USE DEF LedgerInit, EmptyState
<1>1. LedgerTypeOK
  <2>1. checkpoint \in LedgerState
    BY DEF LedgerState
  <2>2. reservations \in Seq(Reservation) /\ outcomes \in Seq(Outcome)
    OBVIOUS
  <2>3. 1 \in 1 .. MaxEpoch
    OBVIOUS
  <2>4. latched \in BOOLEAN /\ damaged \in SUBSET Nat
    OBVIOUS
  <2> QED BY <2>1, <2>2, <2>3, <2>4 DEF LedgerTypeOK
<1>2. CountsAgree /\ TokensAgree /\ PoisonIsLast /\ OneEpoch /\ LatchHasCause
  BY DEF CountsAgree, TokensAgree, PoisonIsLast, OneEpoch, LatchHasCause
<1>3. TotalDefined
  <2> DEFINE f == [i \in 0 .. 0 |-> 0]
  <2>1. f = [i \in 0 .. 0 |-> IF i = 0 THEN 0 ELSE f[i - 1] + outcomes[i].charged]
    OBVIOUS
  <2> QED BY <2>1 DEF TotalDefined, IsRunningTotal
<1>4. TotalUnique
  BY DEF TotalUnique, IsRunningTotal
<1> QED BY <1>1, <1>2, <1>3, <1>4 DEF Inv, LedgerInv

(* A granted reservation (attempts.py 98-161) preserves the invariant.      *)
LEMMA ReserveKeepsInv ==
  ASSUME Inv, NEW ceiling \in Ceilings, Reserve(ceiling) PROVE Inv'
<1> DEFINE n == Len(reservations)
           new == [epoch |-> writerEpoch, tokens |-> ceiling]
<1> USE DEF Inv, LedgerInv
<1>0. n \in Nat /\ Len(outcomes) \in Nat /\ new \in Reservation /\ ceiling \in Nat
  BY DEF LedgerTypeOK, Reservation
<1>1. /\ reservations' = Append(reservations, new)
      /\ checkpoint' = WithReservation(checkpoint, ceiling)
      /\ outcomes' = outcomes /\ writerEpoch' = writerEpoch
      /\ latched' = latched /\ damaged' = damaged
  BY DEF Reserve
<1>2. /\ Len(reservations') = n + 1
      /\ reservations'[n + 1] = new
      /\ \A i \in 1 .. n : reservations'[i] = reservations[i]
  BY <1>1, <1>0 DEF LedgerTypeOK
<1>3. n = Len(outcomes) /\ checkpoint.pending = 0 /\ ~checkpoint.poisoned /\ n < MaxAttempts
  BY <1>0 DEF Reserve, CanReserve, CountsAgree
<1>4. LedgerTypeOK'
  <2>1. checkpoint' \in LedgerState
    <3>1. /\ checkpoint.tail + 1 \in Nat /\ checkpoint.attempts + 1 \in Nat
          /\ checkpoint.completed \in Nat /\ checkpoint.charged \in Nat
          /\ checkpoint.charged + ceiling \in Nat
      BY <1>0 DEF LedgerTypeOK, LedgerState
    <3> HIDE DEF Inv
    <3> QED BY <3>1, <1>1 DEF LedgerState, WithReservation
  <2>2. reservations' \in Seq(Reservation)
    BY <1>0, <1>1 DEF LedgerTypeOK
  <2> QED BY <2>1, <2>2, <1>1 DEF LedgerTypeOK
<1>5. CountsAgree'
  <2>1. /\ checkpoint'.attempts = checkpoint.attempts + 1
        /\ checkpoint'.completed = checkpoint.completed
        /\ checkpoint'.tail = checkpoint.tail + 1
        /\ checkpoint'.pending = checkpoint.tail + 1
    BY <1>1 DEF WithReservation
  <2>2. checkpoint.tail = n + n /\ checkpoint.attempts = n /\ checkpoint.completed = n
    BY <1>0, <1>3 DEF CountsAgree
  <2>3. Len(reservations') = n + 1 /\ Len(outcomes') = n
    BY <1>1, <1>2, <1>3
  <2> HIDE DEF n
  <2>4. n + 1 <= MaxAttempts
    BY <1>0, <1>3
  <2> QED BY <2>1, <2>2, <2>3, <2>4, <1>0 DEF CountsAgree
<1>6. TokensAgree'
  <2>1. /\ checkpoint'.pending = checkpoint.tail + 1
        /\ checkpoint'.attempts = n + 1
        /\ checkpoint'.charged = checkpoint.charged
        /\ checkpoint'.encumbered = checkpoint.charged + ceiling
    BY <1>1 DEF WithReservation, LedgerTypeOK, LedgerState, CountsAgree
  <2>2. PendingReservation' = new
    BY <2>1, <1>2 DEF PendingReservation
  <2>3. checkpoint'.pending # 0
    BY <2>1 DEF LedgerTypeOK, LedgerState
  <2>4. \A i \in DOMAIN outcomes : PairVerifies(i)'
    BY <1>0, <1>1, <1>2, <1>3 DEF TokensAgree, PairVerifies, LedgerTypeOK
  <2>5. checkpoint'.encumbered <= MaxTotalTokens
    BY <2>1 DEF Reserve, CanReserve
  <2> QED BY <2>1, <2>2, <2>3, <2>4, <2>5, <1>1 DEF TokensAgree
<1>7. PoisonIsLast'
  <2>1. \A i \in DOMAIN outcomes : outcomes[i].disposition # "POISONED"
    BY <1>0, <1>3 DEF PoisonIsLast, LedgerTypeOK
  <2>2. ~checkpoint'.poisoned
    BY <1>1, <1>3 DEF WithReservation, LedgerTypeOK, LedgerState
  <2> QED BY <2>1, <2>2, <1>0, <1>1 DEF PoisonIsLast, LedgerTypeOK
<1>8. OneEpoch'
  <2>1. n > 0 => reservations[n].epoch = writerEpoch
    BY <1>0, <1>3 DEF Reserve, CanReserve, TipIsMine, CountsAgree
  <2>2. n > 0 => reservations[1].epoch = writerEpoch
    BY <2>1, <1>0 DEF OneEpoch, LedgerTypeOK
  <2> QED BY <2>2, <1>0, <1>1, <1>2 DEF OneEpoch, LedgerTypeOK
<1>9. LatchHasCause' /\ TotalDefined' /\ TotalUnique'
  <2>1. checkpoint'.charged = checkpoint.charged
    BY <1>1 DEF WithReservation, LedgerTypeOK, LedgerState
  <2> QED BY <2>1, <1>1 DEF LatchHasCause, TotalDefined, TotalUnique, IsRunningTotal
<1> QED BY <1>4, <1>5, <1>6, <1>7, <1>8, <1>9

(* Settle and Burn, which publish one of the two kinds of outcome.          *)
LEMMA ConsumeKeepsInv ==
  ASSUME Inv, NEW ref, NEW used \in Reported, NEW disposition \in {"SETTLED", "BURNED"},
         CanConsume(ref), PublishOutcome(OutcomeOf(disposition, used))
  PROVE  Inv'
<1> DEFINE n == Len(outcomes)
           reserved == PendingReservation.tokens
           new == OutcomeOf(disposition, used)
<1> USE DEF Inv, LedgerInv
<1>0. n \in Nat /\ Len(reservations) \in Nat /\ used \in Nat
  BY DEF LedgerTypeOK
<1>1. /\ outcomes' = Append(outcomes, new)
      /\ checkpoint' = WithOutcome(checkpoint, new)
      /\ reservations' = reservations /\ writerEpoch' = writerEpoch
      /\ latched' = latched /\ damaged' = damaged
  BY DEF PublishOutcome
<1>2. Len(reservations) = n + 1 /\ checkpoint.pending # 0 /\ ~checkpoint.poisoned
  BY <1>0 DEF CanConsume, CountsAgree, PoisonIsLast
<1>3. PendingReservation = reservations[n + 1] /\ reserved \in Nat
  <2>1. PendingReservation = reservations[n + 1]
    BY <1>2 DEF PendingReservation, CountsAgree
  <2>2. reservations[n + 1] \in Reservation
    BY <1>0, <1>2 DEF LedgerTypeOK
  <2> QED BY <2>1, <2>2 DEF Reservation
<1>4. /\ new.disposition = (IF used > reserved THEN "POISONED" ELSE disposition)
      /\ new.reported = used
      /\ new.charged = (IF used > reserved \/ disposition = "SETTLED" THEN used ELSE reserved)
      /\ new \in Outcome
  BY <1>0, <1>3 DEF OutcomeOf, Outcome, Dispositions
<1>5. /\ Len(outcomes') = n + 1
      /\ outcomes'[n + 1] = new
      /\ \A i \in 1 .. n : outcomes'[i] = outcomes[i]
  BY <1>0, <1>1, <1>4 DEF LedgerTypeOK
<1>6. /\ checkpoint'.tail = checkpoint.tail + 1
      /\ checkpoint'.pending = 0
      /\ checkpoint'.attempts = checkpoint.attempts
      /\ checkpoint'.completed = checkpoint.completed + 1
      /\ checkpoint'.poisoned = (new.disposition = "POISONED")
      /\ checkpoint'.charged = checkpoint.charged + new.charged
      /\ checkpoint'.encumbered = checkpoint.charged + new.charged
      /\ checkpoint' \in LedgerState
  <2>1. checkpoint \in LedgerState /\ new.charged \in Nat
    BY <1>4 DEF LedgerTypeOK, Outcome
  <2> QED BY <2>1, <1>1 DEF WithOutcome, LedgerState
<1>7. LedgerTypeOK'
  BY <1>1, <1>4, <1>6 DEF LedgerTypeOK
<1>8. CountsAgree'
  BY <1>0, <1>1, <1>2, <1>5, <1>6 DEF CountsAgree
<1>9. checkpoint.charged + reserved <= MaxTotalTokens /\ checkpoint.charged \in Nat
  BY <1>2, <1>3 DEF TokensAgree, LedgerTypeOK, LedgerState
<1>10. TokensAgree'
  <2>1. \A i \in DOMAIN outcomes' : PairVerifies(i)'
    <3> SUFFICES ASSUME NEW i \in 1 .. n + 1 PROVE PairVerifies(i)'
      BY <1>5, <1>7 DEF LedgerTypeOK
    <3>1. CASE i = n + 1
      BY <3>1, <1>0, <1>1, <1>3, <1>4, <1>5 DEF PairVerifies
    <3>2. CASE i # n + 1
      <4>1. i \in DOMAIN outcomes /\ outcomes'[i] = outcomes[i]
        BY <3>2, <1>0, <1>5 DEF LedgerTypeOK
      <4> QED BY <4>1, <1>1 DEF PairVerifies, TokensAgree
    <3> QED BY <3>1, <3>2
  <2>2. ~checkpoint'.poisoned => checkpoint'.encumbered <= MaxTotalTokens
    <3>1. ~checkpoint'.poisoned => new.charged <= reserved
      <4>1. CASE used > reserved
        BY <4>1, <1>4, <1>6
      <4>2. CASE ~(used > reserved)
        BY <4>2, <1>0, <1>3, <1>4
      <4> QED BY <4>1, <4>2
    <3> QED BY <3>1, <1>3, <1>4, <1>6, <1>9 DEF Outcome
  <2>3. checkpoint'.encumbered = checkpoint'.charged + 0
    BY <1>4, <1>6, <1>9 DEF Outcome
  <2> QED BY <2>1, <2>2, <2>3, <1>6 DEF TokensAgree
<1>11. PoisonIsLast'
  <2>1. \A i \in 1 .. n : outcomes[i].disposition # "POISONED"
    BY <1>0, <1>2 DEF PoisonIsLast, LedgerTypeOK
  <2>2. \A i \in 1 .. n + 1 : outcomes'[i].disposition = "POISONED" => i = n + 1
    BY <2>1, <1>0, <1>5
  <2>3. DOMAIN outcomes' = 1 .. n + 1
    BY <1>5, <1>7 DEF LedgerTypeOK
  <2>4. checkpoint'.charged - new.charged = checkpoint.charged
    BY <1>4, <1>6, <1>9 DEF Outcome
  <2>5. checkpoint'.poisoned <=> new.disposition = "POISONED"
    BY <1>6
  <2>6. checkpoint'.charged - new.charged + reservations[n + 1].tokens <= MaxTotalTokens
    BY <2>4, <1>3, <1>9
  <2>7. \A i \in DOMAIN outcomes' :
          outcomes'[i].disposition = "POISONED" => i = Len(reservations')
    BY <2>2, <2>3, <1>1, <1>2
  <2>8. Len(outcomes') = n + 1 /\ Len(reservations') = n + 1 /\ n + 1 > 0
    BY <1>0, <1>1, <1>2, <1>5
  <2>9. outcomes'[Len(outcomes')] = new /\ reservations'[Len(reservations')] = reservations[n + 1]
    BY <2>8, <1>1, <1>5
  <2> HIDE DEF new, n
  <2> QED BY <2>5, <2>6, <2>7, <2>8, <2>9 DEF PoisonIsLast
<1>12. OneEpoch' /\ LatchHasCause'
  BY <1>1 DEF OneEpoch, LatchHasCause
<1>13. TotalDefined' /\ TotalUnique'
  BY <1>1, <1>4, <1>6, <1>9, TotalExtends DEF LedgerTypeOK
<1> QED BY <1>7, <1>8, <1>10, <1>11, <1>12, <1>13

(* RejectTip, RejectPending and FailedAudit: only damage makes them latch.  *)
LEMMA LatchKeepsInv ==
  ASSUME Inv, Latch, damaged # {} PROVE Inv'
<1>1. LedgerTypeOK'
  BY DEF Inv, LedgerInv, LedgerTypeOK, Latch
<1>2. CountsAgree' /\ OneEpoch' /\ LatchHasCause'
  BY DEF Inv, LedgerInv, CountsAgree, OneEpoch, LatchHasCause, Latch
<1>3. TokensAgree' /\ PoisonIsLast'
  BY DEF Inv, LedgerInv, TokensAgree, PairVerifies, PendingReservation, PoisonIsLast, Latch
<1>4. TotalDefined' /\ TotalUnique'
  BY DEF Inv, TotalDefined, TotalUnique, IsRunningTotal, Latch
<1> QED BY <1>1, <1>2, <1>3, <1>4 DEF Inv, LedgerInv

(* Damage, and Reopen, which finds the checkpoint it installs in place.     *)
LEMMA EnvironmentKeepsInv ==
  ASSUME Inv,
         \/ \E ref \in 1 .. checkpoint.tail : Damage(ref)
         \/ Reopen
  PROVE  Inv'
<1>1. /\ UNCHANGED <<reservations, outcomes, checkpoint>>
      /\ writerEpoch' \in 1 .. MaxEpoch
      /\ damaged' \in SUBSET Nat
      /\ latched' \in BOOLEAN
      /\ damaged' = {} => ~latched'
  <2>1. CASE \E ref \in 1 .. checkpoint.tail : Damage(ref)
    BY <2>1 DEF Damage, Inv, LedgerInv, LedgerTypeOK, LatchHasCause
  <2>2. CASE Reopen
    <3>1. checkpoint = Replay
      BY InvImpliesReplay DEF CheckpointIsReplay
    <3>2. writerEpoch' = writerEpoch + 1 /\ writerEpoch < MaxEpoch
      BY <2>2 DEF Reopen
    <3>3. writerEpoch \in 1 .. MaxEpoch
      BY DEF Inv, LedgerInv, LedgerTypeOK
    <3>4. writerEpoch' \in 1 .. MaxEpoch
      BY <3>2, <3>3
    <3> QED BY <2>2, <3>1, <3>4 DEF Reopen, Inv, LedgerInv, LedgerTypeOK
  <2> QED BY <2>1, <2>2
<1>2. LedgerTypeOK'
  BY <1>1 DEF Inv, LedgerInv, LedgerTypeOK
<1>3. CountsAgree' /\ OneEpoch' /\ LatchHasCause'
  BY <1>1 DEF Inv, LedgerInv, CountsAgree, OneEpoch, LatchHasCause
<1>4. TokensAgree' /\ PoisonIsLast'
  BY <1>1 DEF Inv, LedgerInv, TokensAgree, PairVerifies, PendingReservation, PoisonIsLast
<1>5. TotalDefined' /\ TotalUnique'
  BY <1>1 DEF Inv, TotalDefined, TotalUnique, IsRunningTotal
<1> QED BY <1>2, <1>3, <1>4, <1>5 DEF Inv, LedgerInv

(* Every step of the ledger, or of its environment, preserves it.           *)
LEMMA NextKeepsInv == ASSUME Inv, [LedgerNext]_ledgerVars PROVE Inv'
<1>1. ASSUME NEW ceiling \in Ceilings, Reserve(ceiling) PROVE Inv'
  BY <1>1, ReserveKeepsInv
<1>2. ASSUME NEW used \in Reported, Settle(checkpoint.pending, used) PROVE Inv'
  BY <1>2, ConsumeKeepsInv DEF Settle
<1>3. ASSUME NEW used \in Reported, Burn(checkpoint.pending, used) PROVE Inv'
  BY <1>3, ConsumeKeepsInv DEF Burn
<1>4. CASE RejectTip
  BY <1>4, InvImpliesTipVerifies, LatchKeepsInv DEF RejectTip
<1>5. CASE RejectPending(checkpoint.pending)
  BY <1>5, LatchKeepsInv DEF RejectPending
<1>6. CASE FailedAudit
  BY <1>6, InvImpliesReplay, InvImpliesReplaySucceeds, LatchKeepsInv
    DEF FailedAudit, CheckpointIsReplay
<1>7. CASE \E ref \in 1 .. checkpoint.tail : Damage(ref)
  BY <1>7, EnvironmentKeepsInv
<1>8. CASE Reopen
  BY <1>8, EnvironmentKeepsInv
<1>9. CASE UNCHANGED ledgerVars
  <2> USE <1>9 DEF ledgerVars
  <2>1. LedgerTypeOK' /\ CountsAgree' /\ OneEpoch' /\ LatchHasCause'
    BY DEF Inv, LedgerInv, LedgerTypeOK, CountsAgree, OneEpoch, LatchHasCause
  <2>2. TokensAgree' /\ PoisonIsLast'
    BY DEF Inv, LedgerInv, TokensAgree, PairVerifies, PendingReservation, PoisonIsLast
  <2>3. TotalDefined' /\ TotalUnique'
    BY DEF Inv, TotalDefined, TotalUnique, IsRunningTotal
  <2> QED BY <2>1, <2>2, <2>3 DEF Inv, LedgerInv
<1> QED
  BY <1>1, <1>2, <1>3, <1>4, <1>5, <1>6, <1>7, <1>8, <1>9 DEF LedgerNext

-----------------------------------------------------------------------------
(* Theorems about the ledger alone                                         *)

(* The inductive invariant: what the checkpoint says of the chain, token by *)
(* token, holds in every state of every ledger (attempts.py 31-320).        *)
THEOREM LedgerInvariant == LedgerSpec => []Inv
<1>1. LedgerInit => Inv
  BY InitEstablishesInv
<1>2. Inv /\ [LedgerNext]_ledgerVars => Inv'
  BY NextKeepsInv
<1> QED BY <1>1, <1>2, PTL DEF LedgerSpec

(* Every variable of the ledger keeps its type (attempts.py 31-320).        *)
THEOREM LedgerTypes == LedgerSpec => []LedgerTypeOK
<1>1. Inv => LedgerTypeOK
  BY DEF Inv, LedgerInv
<1> QED BY <1>1, LedgerInvariant, PTL

(* The live checkpoint never diverges from the chain (attempt_checkpoint.py *)
(* 151-225 against 253-381).                                                *)
THEOREM LedgerCheckpoint == LedgerSpec => []CheckpointIsReplay
<1>1. Inv => CheckpointIsReplay
  BY InvImpliesReplay
<1> QED BY <1>1, LedgerInvariant, PTL

(* The attempt and token ceilings hold (attempts.py 117-134).               *)
THEOREM LedgerBudget == LedgerSpec => []BudgetHolds
<1>1. ASSUME Inv PROVE BudgetHolds
  <2>1. ~checkpoint.poisoned => checkpoint.encumbered <= MaxTotalTokens
    BY <1>1 DEF Inv, LedgerInv, TokensAgree
  <2>2. Len(reservations) <= MaxAttempts
    BY <1>1 DEF Inv, LedgerInv, CountsAgree
  <2>3. checkpoint.poisoned =>
          /\ checkpoint.completed = Len(reservations)
          /\ checkpoint.charged - outcomes[Len(outcomes)].charged
               + reservations[Len(reservations)].tokens <= MaxTotalTokens
    BY <1>1 DEF Inv, LedgerInv, CountsAgree, PoisonIsLast
  <2> QED BY <2>1, <2>2, <2>3 DEF BudgetHolds
<1> QED BY <1>1, LedgerInvariant, PTL

(* A sound writer never locks itself and can always be reopened             *)
(* (attempt_checkpoint.py 60-72 and 227-241).                               *)
THEOREM LedgerReplays == LedgerSpec => []ChainReplays
<1>1. ASSUME Inv PROVE ChainReplays
  BY <1>1, InvImpliesReplaySucceeds DEF ChainReplays, Inv, LedgerInv, LatchHasCause
<1> QED BY <1>1, LedgerInvariant, PTL

(* The incremental checkpoint, the published chain and the full replay of  *)
(* it agree in every state of the ledger.                                  *)
THEOREM LedgerReplaysAgree == LedgerSpec => []ReplaysAgree
<1>1. CheckpointIsReplay /\ ChainReplays => ReplaysAgree
  BY DEF ReplaysAgree
<1> QED BY <1>1, LedgerCheckpoint, LedgerReplays, PTL

-----------------------------------------------------------------------------
(* The ledger implements the token account                                 *)

(* A fresh ledger is a fresh account.                                       *)
LEMMA InitRefines == ASSUME LedgerInit PROVE TA!Init
BY DEF LedgerInit, EmptyState, TA!Init

(* A reservation opens a hold.                                              *)
LEMMA ReserveRefines ==
  ASSUME Inv, NEW ceiling \in Ceilings, Reserve(ceiling) PROVE TA!Next
<1>1. /\ checkpoint.charged \in Nat /\ checkpoint.encumbered \in Nat /\ ceiling \in Nat
  BY DEF Inv, LedgerInv, LedgerTypeOK, LedgerState
<1>2. /\ ~checkpoint.poisoned
      /\ checkpoint.encumbered = checkpoint.charged
      /\ ceiling >= 1 /\ checkpoint.charged + ceiling <= MaxTotalTokens
  BY <1>1 DEF Inv, LedgerInv, TokensAgree, Reserve, CanReserve
<1>3. /\ checkpoint'.charged = checkpoint.charged
      /\ checkpoint'.encumbered = checkpoint.charged + ceiling
      /\ checkpoint'.poisoned = FALSE
  BY DEF Reserve, WithReservation
<1>4. checkpoint'.poisoned = checkpoint.poisoned
  BY <1>2, <1>3 DEF Inv, LedgerInv, LedgerTypeOK, LedgerState
<1>5. TA!Hold(ceiling)
  BY <1>1, <1>2, <1>3, <1>4 DEF TA!Hold
<1>6. ceiling \in 1 .. MaxTotalTokens
  BY <1>1, <1>2
<1> QED BY <1>5, <1>6 DEF TA!Next

(* A published outcome is a charge within the hold, or the overrun.         *)
LEMMA ConsumeRefines ==
  ASSUME Inv, NEW ref, NEW used \in Reported, NEW disposition \in {"SETTLED", "BURNED"},
         CanConsume(ref), PublishOutcome(OutcomeOf(disposition, used))
  PROVE  TA!Next
<1> DEFINE reserved == PendingReservation.tokens
           new == OutcomeOf(disposition, used)
           held == checkpoint.encumbered - checkpoint.charged
<1>1. checkpoint.charged \in Nat /\ used \in Nat
  BY DEF Inv, LedgerInv, LedgerTypeOK, LedgerState
<1>2. ~checkpoint.poisoned /\ checkpoint.poisoned \in BOOLEAN
  BY DEF Inv, LedgerInv, LedgerTypeOK, LedgerState, CountsAgree, PoisonIsLast, CanConsume
<1>3. reserved \in Nat /\ reserved > 0
  <2>1. checkpoint.attempts \in DOMAIN reservations
    <3>1. Len(reservations) \in Nat /\ Len(outcomes) \in Nat
      BY DEF Inv, LedgerInv, LedgerTypeOK
    <3>2. Len(reservations) = Len(outcomes) + 1
      BY <3>1 DEF Inv, LedgerInv, CountsAgree, CanConsume
    <3> QED BY <3>1, <3>2 DEF Inv, LedgerInv, LedgerTypeOK, CountsAgree
  <2>2. PendingReservation \in Reservation
    BY <2>1 DEF PendingReservation, Inv, LedgerInv, LedgerTypeOK
  <2> QED BY <2>2 DEF Reservation
<1>4. held = reserved
  BY <1>1, <1>3 DEF Inv, LedgerInv, TokensAgree, CanConsume
<1>5. /\ new.disposition = (IF used > reserved THEN "POISONED" ELSE disposition)
      /\ new.charged = (IF used > reserved \/ disposition = "SETTLED" THEN used ELSE reserved)
  BY DEF OutcomeOf
<1>6. /\ checkpoint'.charged = checkpoint.charged + new.charged
      /\ checkpoint'.encumbered = checkpoint'.charged
      /\ checkpoint'.poisoned = (new.disposition = "POISONED")
  BY DEF PublishOutcome, WithOutcome
<1> HIDE DEF new
<1>7. CASE used > reserved
  <2>1. checkpoint'.charged = checkpoint.charged + used /\ checkpoint'.poisoned = TRUE
    BY <1>5, <1>6, <1>7
  <2>2. checkpoint'.encumbered - checkpoint'.charged = 0
    BY <2>1, <1>1, <1>6
  <2>3. TA!Overrun
    BY <2>1, <2>2, <1>1, <1>3, <1>4, <1>7 DEF TA!Overrun
  <2> QED BY <2>3 DEF TA!Next
<1>8. CASE ~(used > reserved)
  <2>1. new.charged \in 0 .. held
    BY <1>1, <1>3, <1>4, <1>5, <1>8
  <2>2. checkpoint'.poisoned = checkpoint.poisoned
    BY <1>2, <1>5, <1>6, <1>8
  <2>3. checkpoint'.encumbered - checkpoint'.charged = 0
    BY <2>1, <1>1, <1>3, <1>4, <1>6
  <2>4. TA!Charge(new.charged)
    BY <2>1, <2>2, <2>3, <1>3, <1>4, <1>6 DEF TA!Charge
  <2> QED BY <2>1, <2>4 DEF TA!Next
<1> QED BY <1>7, <1>8

(* One hold at a time, covered by what is left, consumed once, closed by    *)
(* the first overrun, for every ledger (attempts.py 98-320).                *)
THEOREM LedgerKeepsAccount == LedgerSpec => AccountKept
<1>1. LedgerInit => TA!Init
  BY InitRefines
<1>2. ASSUME Inv, [LedgerNext]_ledgerVars PROVE [TA!Next]_TA!account
  <2>1. ASSUME NEW ceiling \in Ceilings, Reserve(ceiling) PROVE TA!Next
    BY <1>2, <2>1, ReserveRefines
  <2>2. ASSUME NEW used \in Reported, Settle(checkpoint.pending, used) PROVE TA!Next
    BY <1>2, <2>2, ConsumeRefines DEF Settle
  <2>3. ASSUME NEW used \in Reported, Burn(checkpoint.pending, used) PROVE TA!Next
    BY <1>2, <2>3, ConsumeRefines DEF Burn
  <2>4. ASSUME checkpoint' = checkpoint PROVE UNCHANGED TA!account
    BY <2>4 DEF TA!account
  <2>5. CASE Reopen
    BY <1>2, <2>4, <2>5, InvImpliesReplay DEF Reopen, CheckpointIsReplay
  <2>6. CASE \/ RejectTip \/ RejectPending(checkpoint.pending) \/ FailedAudit
             \/ \E ref \in 1 .. checkpoint.tail : Damage(ref)
    BY <2>4, <2>6 DEF RejectTip, RejectPending, FailedAudit, Latch, Damage
  <2>7. CASE UNCHANGED ledgerVars
    BY <2>4, <2>7 DEF ledgerVars
  <2> QED BY <1>2, <2>1, <2>2, <2>3, <2>5, <2>6, <2>7 DEF LedgerNext
<1> QED BY <1>1, <1>2, LedgerInvariant, PTL DEF LedgerSpec, AccountKept, TA!Spec

-----------------------------------------------------------------------------
(* The runners                                                             *)

USE FaultAssumption DEF FaultAssumption

RunnerRecord == [step : Steps, expected : Nat, ticket : Nat,
                 ceiling : 0 .. MaxTokensPerAttempt, used : Reported]

RunnerInv == RunnerTypeOK /\ CallHoldsReservation

\* Nothing the ticket of a runner depends on changes.
TicketsStand ==
  /\ UNCHANGED <<reservations, checkpoint, writerEpoch>>
  /\ \A s \in Runners : HoldsTicket(s)' =>
       /\ HoldsTicket(s)
       /\ runner'[s].ticket = runner[s].ticket
       /\ runner'[s].ceiling = runner[s].ceiling

(* A step that leaves tickets and reservations alone keeps the holder unique. *)
LEMMA TicketsStandKeeps ==
  ASSUME CallHoldsReservation, TicketsStand PROVE CallHoldsReservation'
BY DEF CallHoldsReservation, TicketsStand, PendingReservation

(* No holder is left after a restart or a consumption.                     *)
LEMMA NobodyHolds ==
  ASSUME \A s \in Runners : ~HoldsTicket(s)' PROVE CallHoldsReservation'
BY DEF CallHoldsReservation

-----------------------------------------------------------------------------
(* Types                                                                   *)

(* The runners' part of the type invariant, by its record type.            *)
LEMMA RunnerTyped ==
  ASSUME RunnerTypeOK PROVE runner \in [Runners -> RunnerRecord]
BY DEF RunnerTypeOK, RunnerRecord

(* The idle runner is a runner record.                                     *)
LEMMA IdleTyped == Idle \in RunnerRecord
<1>1. 0 \in 0 .. MaxTokensPerAttempt /\ "idle" \in Steps
  BY DEF Steps
<1> QED BY <1>1 DEF Idle, RunnerRecord

(* Moving one runner to another step keeps all the rest.                   *)
LEMMA GotoTyped ==
  ASSUME runner \in [Runners -> RunnerRecord], NEW r \in Runners, NEW step \in Steps,
         Goto(r, step)
  PROVE  /\ runner' \in [Runners -> RunnerRecord]
         /\ runner'[r].step = step
         /\ runner'[r].ticket = runner[r].ticket
         /\ runner'[r].ceiling = runner[r].ceiling
         /\ \A s \in Runners \ {r} : runner'[s] = runner[s]
BY DEF Goto, RunnerRecord

(* A runner that gives up holds no ticket, and the others are untouched.   *)
LEMMA GiveUpTyped ==
  ASSUME runner \in [Runners -> RunnerRecord], NEW r \in Runners, GiveUp(r)
  PROVE  /\ runner' \in [Runners -> RunnerRecord]
         /\ ~HoldsTicket(r)'
         /\ \A s \in Runners \ {r} : runner'[s] = runner[s]
<1>1. runner' = [runner EXCEPT ![r] = Idle]
  BY DEF GiveUp
<1>2. runner'[r] = Idle /\ \A s \in Runners \ {r} : runner'[s] = runner[s]
  BY <1>1
<1>3. runner' \in [Runners -> RunnerRecord]
  BY <1>1, IdleTyped
<1>4. Idle.step = "idle"
  BY DEF Idle
<1> QED BY <1>2, <1>3, <1>4 DEF HoldsTicket

(* A returned record has the type of returned records.                     *)
LEMMA ReturnedTyped ==
  ASSUME RunnerTypeOK, NEW r \in Runners, NEW status \in {"completed", "failed"},
         Return(r, status)
  PROVE  returned' \subseteq [ticket : Nat, status : {"completed", "failed"}, used : Reported]
BY DEF Return, RunnerTypeOK

-----------------------------------------------------------------------------
(* One step of one runner                                                  *)

(* Schedule leaves the ledger alone (model.py 294).                        *)
LEMMA ScheduleStep ==
  ASSUME Inv, RunnerInv, NEW r \in Runners, Schedule(r)
  PROVE  UNCHANGED ledgerVars /\ RunnerInv'
<1> DEFINE new == [Idle EXCEPT !.step = "scheduled", !.expected = checkpoint.tail]
<1>1. checkpoint.tail \in Nat
  BY DEF Inv, LedgerInv, LedgerTypeOK, LedgerState
<1>2. new \in RunnerRecord /\ new.step = "scheduled"
  BY <1>1, IdleTyped DEF Idle, RunnerRecord, Steps
<1>3. runner' = [runner EXCEPT ![r] = new]
  BY DEF Schedule
<1> HIDE DEF new
<1>4. runner' \in [Runners -> RunnerRecord] /\ runner'[r].step = "scheduled"
      /\ \A s \in Runners \ {r} : runner'[s] = runner[s]
  BY <1>2, <1>3, RunnerTyped DEF RunnerInv
<1>5. TicketsStand
  BY <1>4 DEF TicketsStand, HoldsTicket, Schedule, ledgerVars
<1> QED BY <1>4, <1>5, TicketsStandKeeps DEF RunnerInv, RunnerTypeOK, RunnerRecord, Schedule

(* A runner that reserves takes a Reserve step and becomes the only holder. *)
LEMMA StartStep ==
  ASSUME Inv, RunnerInv, NEW r \in Runners, NEW ceiling \in Ceilings, StartCall(r, ceiling)
  PROVE  RunnerInv'
<1>1. /\ checkpoint.pending = 0
      /\ checkpoint.tail \in Nat
      /\ checkpoint.attempts = Len(reservations)
      /\ Len(reservations) \in Nat
      /\ reservations \in Seq(Reservation)
  BY DEF StartCall, Reserve, CanReserve, Inv, LedgerInv, LedgerTypeOK, LedgerState, CountsAgree
<1>2. \A s \in Runners : ~HoldsTicket(s)
  BY <1>1 DEF RunnerInv, CallHoldsReservation
<1>3. ceiling \in 0 .. MaxTokensPerAttempt /\ checkpoint.tail + 1 \in Nat /\ "calling" \in Steps
  BY <1>1 DEF Steps
<1>4. runner' = [runner EXCEPT ![r].step = "calling", ![r].ceiling = ceiling,
                               ![r].ticket = checkpoint.tail + 1]
  BY DEF StartCall
<1>5. /\ runner' \in [Runners -> RunnerRecord]
      /\ runner'[r].ceiling = ceiling
      /\ runner'[r].ticket = checkpoint.tail + 1
      /\ \A s \in Runners \ {r} : runner'[s] = runner[s]
  BY <1>3, <1>4, RunnerTyped DEF RunnerInv, RunnerRecord
<1>6. /\ checkpoint'.pending = checkpoint.tail + 1
      /\ checkpoint'.attempts = Len(reservations) + 1
      /\ reservations' = Append(reservations, [epoch |-> writerEpoch, tokens |-> ceiling])
      /\ writerEpoch' = writerEpoch
  BY <1>1 DEF StartCall, Reserve, WithReservation
<1>7. PendingReservation' = [epoch |-> writerEpoch', tokens |-> ceiling]
  BY <1>1, <1>6 DEF PendingReservation
<1>8. \A s \in Runners : HoldsTicket(s)' => s = r
  BY <1>2, <1>5 DEF HoldsTicket
<1>9. CallHoldsReservation'
  BY <1>1, <1>5, <1>6, <1>7, <1>8 DEF CallHoldsReservation
<1> QED BY <1>5, <1>9 DEF RunnerInv, RunnerTypeOK, RunnerRecord, StartCall

(* The backend's answer touches only the runner that called it.            *)
LEMMA RespondStep ==
  ASSUME RunnerInv, NEW r \in Runners, NEW used \in Reported,
         RespondWell(r, used) \/ RespondBadly(r, used) \/ ResponseNotStored(r, used)
  PROVE  UNCHANGED ledgerVars /\ RunnerInv'
<1>1. PICK step \in {"succeeded", "failed", "compensating"} :
        runner' = [runner EXCEPT ![r].step = step, ![r].used = used]
  BY DEF RespondWell, RespondBadly, ResponseNotStored
<1>2. step \in Steps
  BY DEF Steps
<1>3. /\ runner' \in [Runners -> RunnerRecord]
      /\ runner'[r].ticket = runner[r].ticket
      /\ runner'[r].ceiling = runner[r].ceiling
      /\ \A s \in Runners \ {r} : runner'[s] = runner[s]
  BY <1>1, <1>2, RunnerTyped DEF RunnerInv, RunnerRecord
<1>4. /\ HoldsTicket(r)
      /\ UNCHANGED <<ledgerVars, returned>>
      /\ faults' \in 0 .. MaxFaults
  BY DEF RespondWell, RespondBadly, ResponseNotStored, WriteFails, At, HoldsTicket,
         RunnerInv, RunnerTypeOK
<1>5. TicketsStand
  BY <1>3, <1>4 DEF TicketsStand, HoldsTicket, ledgerVars
<1> QED
  BY <1>3, <1>4, <1>5, TicketsStandKeeps DEF RunnerInv, RunnerTypeOK, RunnerRecord

\* Everything else a runner does without consuming its reservation.
LEMMA MoveStep ==
  ASSUME RunnerInv, NEW r \in Runners,
         UNCHANGED <<reservations, checkpoint, writerEpoch>>,
         faults' \in 0 .. MaxFaults, UNCHANGED returned,
         \/ GiveUp(r)
         \/ HoldsTicket(r) /\ \E step \in Steps : Goto(r, step)
  PROVE  RunnerInv'
<1>1. CASE GiveUp(r)
  <2>1. /\ runner' \in [Runners -> RunnerRecord]
        /\ ~HoldsTicket(r)'
        /\ \A s \in Runners \ {r} : runner'[s] = runner[s]
    BY <1>1, GiveUpTyped, RunnerTyped DEF RunnerInv
  <2>2. TicketsStand
    BY <2>1 DEF TicketsStand, HoldsTicket
  <2> QED BY <2>1, <2>2, TicketsStandKeeps DEF RunnerInv, RunnerTypeOK, RunnerRecord
<1>2. CASE HoldsTicket(r) /\ \E step \in Steps : Goto(r, step)
  <2>1. PICK step \in Steps : Goto(r, step)
    BY <1>2
  <2>2. /\ runner' \in [Runners -> RunnerRecord]
        /\ runner'[r].ticket = runner[r].ticket
        /\ runner'[r].ceiling = runner[r].ceiling
        /\ \A s \in Runners \ {r} : runner'[s] = runner[s]
    BY <2>1, GotoTyped, RunnerTyped DEF RunnerInv
  <2>3. TicketsStand
    BY <1>2, <2>2 DEF TicketsStand, HoldsTicket
  <2> QED BY <2>2, <2>3, TicketsStandKeeps DEF RunnerInv, RunnerTypeOK, RunnerRecord
<1> QED BY <1>1, <1>2

\* A consumed reservation leaves no runner holding a ticket.
LEMMA ConsumedStep ==
  ASSUME RunnerInv, NEW r \in Runners, HoldsTicket(r), GiveUp(r), UNCHANGED faults,
         returned' \subseteq [ticket : Nat, status : {"completed", "failed"}, used : Reported]
  PROVE  RunnerInv'
<1>1. /\ runner' \in [Runners -> RunnerRecord]
      /\ ~HoldsTicket(r)'
      /\ \A s \in Runners \ {r} : runner'[s] = runner[s]
  BY GiveUpTyped, RunnerTyped DEF RunnerInv
<1>2. \A s \in Runners : ~HoldsTicket(s)'
  BY <1>1 DEF RunnerInv, CallHoldsReservation, HoldsTicket
<1>3. faults' \in 0 .. MaxFaults
  BY DEF RunnerInv, RunnerTypeOK
<1> QED BY <1>1, <1>2, <1>3, NobodyHolds DEF RunnerInv, RunnerTypeOK, RunnerRecord

(* A refused reservation is a stutter of the ledger or a latch.            *)
LEMMA ReservationRefusedStep ==
  ASSUME RunnerInv, NEW r \in Runners, ReservationRefused(r) \/ ReservationNotStored(r)
  PROVE  [LedgerNext]_ledgerVars /\ RunnerInv'
<1>1. UNCHANGED ledgerVars \/ RejectTip
  BY DEF ReservationRefused, ReservationNotStored
<1>2. UNCHANGED <<reservations, checkpoint, writerEpoch>>
  BY <1>1 DEF ledgerVars, RejectTip, Latch
<1>3. faults' \in 0 .. MaxFaults /\ UNCHANGED returned /\ GiveUp(r)
  BY DEF ReservationRefused, ReservationNotStored, WriteFails, RunnerInv, RunnerTypeOK
<1> QED BY <1>1, <1>2, <1>3, MoveStep DEF LedgerNext

(* Storing an execution does not touch the ledger.                         *)
LEMMA PersistStep ==
  ASSUME RunnerInv, NEW r \in Runners, Persist(r) \/ PersistFails(r)
  PROVE  UNCHANGED ledgerVars /\ RunnerInv'
<1>1. UNCHANGED ledgerVars /\ UNCHANGED returned /\ HoldsTicket(r)
  BY DEF Persist, PersistFails, At, HoldsTicket
<1>2. faults' \in 0 .. MaxFaults
  BY DEF Persist, PersistFails, WriteFails, RunnerInv, RunnerTypeOK
<1>3. GiveUp(r) \/ \E step \in Steps : Goto(r, step)
  BY DEF Persist, PersistFails, Steps
<1>4. UNCHANGED <<reservations, checkpoint, writerEpoch>>
  BY <1>1 DEF ledgerVars
<1> QED BY <1>1, <1>2, <1>3, <1>4, MoveStep

(* The usage a runner carries is one a backend reported.                   *)
LEMMA UsedReported ==
  ASSUME RunnerInv, NEW r \in Runners PROVE runner[r].used \in Reported
BY DEF RunnerInv, RunnerTypeOK

(* Consuming is a Settle or a Burn of the pending reservation.             *)
LEMMA ConsumeStep ==
  ASSUME RunnerInv, NEW r \in Runners, Consume(r)
  PROVE  LedgerNext /\ RunnerInv'
<1>1. HoldsTicket(r) /\ runner[r].ticket = checkpoint.pending
  BY DEF Consume, At, HoldsTicket, RunnerInv, CallHoldsReservation
<1>2. \/ Settle(checkpoint.pending, runner[r].used)
      \/ Burn(checkpoint.pending, runner[r].used)
  BY <1>1 DEF Consume
<1>3. LedgerNext
  BY <1>2, UsedReported DEF LedgerNext
<1>4. UNCHANGED faults /\ (Return(r, "completed") \/ Return(r, "failed"))
  BY DEF Consume
<1>5. returned' \subseteq [ticket : Nat, status : {"completed", "failed"}, used : Reported]
  BY <1>4, ReturnedTyped DEF RunnerInv
<1>6. GiveUp(r)
  BY <1>4 DEF Return
<1> QED BY <1>1, <1>3, <1>4, <1>5, <1>6, ConsumedStep

(* A failed consumption leaves the reservation with its holder, or latches. *)
LEMMA ConsumeFailsStep ==
  ASSUME RunnerInv, NEW r \in Runners, ConsumeFails(r)
  PROVE  [LedgerNext]_ledgerVars /\ RunnerInv'
<1>1. HoldsTicket(r) /\ runner[r].ticket = checkpoint.pending
  BY DEF ConsumeFails, AfterFailedConsume, At, HoldsTicket, RunnerInv, CallHoldsReservation
<1>2. UNCHANGED ledgerVars \/ RejectPending(checkpoint.pending)
  BY <1>1 DEF ConsumeFails
<1>3. UNCHANGED <<reservations, checkpoint, writerEpoch>>
  BY <1>2 DEF ledgerVars, RejectPending, Latch
<1>4. faults' \in 0 .. MaxFaults /\ UNCHANGED returned
  BY DEF ConsumeFails, WriteFails, RunnerInv, RunnerTypeOK
<1>5. GiveUp(r) \/ \E step \in Steps : Goto(r, step)
  BY DEF ConsumeFails, AfterFailedConsume, Steps
<1> QED BY <1>1, <1>2, <1>3, <1>4, <1>5, MoveStep DEF LedgerNext

(* The compensating burn is a Burn, a latch or nothing.                    *)
LEMMA CompensateStep ==
  ASSUME RunnerInv, NEW r \in Runners, Compensate(r)
  PROVE  [LedgerNext]_ledgerVars /\ RunnerInv'
<1>1. HoldsTicket(r) /\ runner[r].ticket = checkpoint.pending
  BY DEF Compensate, At, HoldsTicket, RunnerInv, CallHoldsReservation
<1>2. GiveUp(r) /\ UNCHANGED returned
  BY DEF Compensate
<1>3. CASE Burn(runner[r].ticket, runner[r].used) /\ UNCHANGED faults
  <2>1. LedgerNext
    BY <1>1, <1>3, UsedReported DEF LedgerNext
  <2>2. returned' \subseteq [ticket : Nat, status : {"completed", "failed"}, used : Reported]
    BY <1>2 DEF RunnerInv, RunnerTypeOK
  <2> QED BY <2>1, <2>2, <1>1, <1>2, <1>3, ConsumedStep
<1>4. CASE ~(Burn(runner[r].ticket, runner[r].used) /\ UNCHANGED faults)
  <2>1. UNCHANGED ledgerVars \/ RejectPending(checkpoint.pending)
    BY <1>1, <1>4 DEF Compensate
  <2>2. UNCHANGED <<reservations, checkpoint, writerEpoch>>
    BY <2>1 DEF ledgerVars, RejectPending, Latch
  <2>3. faults' \in 0 .. MaxFaults
    BY <1>4 DEF Compensate, WriteFails, RunnerInv, RunnerTypeOK
  <2> QED BY <2>1, <2>2, <2>3, <1>2, MoveStep DEF LedgerNext
<1> QED BY <1>3, <1>4

(* Audits and damage are steps of the ledger that no runner notices.       *)
LEMMA EnvironmentStep ==
  ASSUME RunnerInv, Audit \/ Corrupt PROVE LedgerNext /\ RunnerInv'
<1>1. LedgerNext
  BY DEF Audit, Corrupt, LedgerNext
<1>2. UNCHANGED <<reservations, checkpoint, writerEpoch, runner, faults, returned>>
  BY DEF Audit, Corrupt, FailedAudit, RejectTip, Latch, Damage
<1>3. TicketsStand
  BY <1>2 DEF TicketsStand, HoldsTicket
<1> QED BY <1>1, <1>2, <1>3, TicketsStandKeeps DEF RunnerInv, RunnerTypeOK

(* A restart is a Reopen after which nobody holds a ticket.                *)
LEMMA RestartStep ==
  ASSUME RunnerInv, Restart PROVE LedgerNext /\ RunnerInv'
<1>1. runner' = [r \in Runners |-> Idle]
  BY DEF Restart
<1>2. runner' \in [Runners -> RunnerRecord]
  BY <1>1, IdleTyped
<1>3. \A s \in Runners : ~HoldsTicket(s)'
  BY <1>1 DEF HoldsTicket, Idle
<1> QED
  BY <1>2, <1>3, NobodyHolds DEF Restart, LedgerNext, RunnerInv, RunnerTypeOK, RunnerRecord

(* The initial runners are idle and their ledger is fresh.                 *)
LEMMA RunnerInit == Init => LedgerInit /\ RunnerInv
<1> SUFFICES ASSUME Init PROVE LedgerInit /\ RunnerInv
  OBVIOUS
<1>1. runner = [r \in Runners |-> Idle] /\ faults = 0 /\ returned = {}
  BY DEF Init
<1>2. runner \in [Runners -> RunnerRecord]
  BY <1>1, IdleTyped
<1>3. \A s \in Runners : ~HoldsTicket(s)
  BY <1>1 DEF HoldsTicket, Idle
<1>4. CallHoldsReservation
  BY <1>3 DEF CallHoldsReservation
<1> QED BY <1>1, <1>2, <1>4 DEF Init, RunnerInv, RunnerTypeOK, RunnerRecord

\* Every step of the runners is a step of the ledger or leaves it alone.
LEMMA RunnerStep ==
  ASSUME Inv, RunnerInv, [Next]_vars PROVE [LedgerNext]_ledgerVars /\ RunnerInv'
<1>1. ASSUME NEW r \in Runners, Begin(r) PROVE [LedgerNext]_ledgerVars /\ RunnerInv'
  <2>1. CASE Schedule(r)
    BY <2>1, ScheduleStep
  <2>2. ASSUME NEW ceiling \in Ceilings, ReserveUnscheduled(r, ceiling)
        PROVE  [LedgerNext]_ledgerVars /\ RunnerInv'
    BY <2>2, StartStep DEF ReserveUnscheduled, StartCall, LedgerNext
  <2> QED BY <1>1, <2>1, <2>2 DEF Begin
<1>2. ASSUME NEW r \in Runners, Advance(r) PROVE [LedgerNext]_ledgerVars /\ RunnerInv'
  <2>1. ASSUME NEW ceiling \in Ceilings, ReserveAtTail(r, ceiling)
        PROVE  [LedgerNext]_ledgerVars /\ RunnerInv'
    BY <2>1, StartStep DEF ReserveAtTail, StartCall, LedgerNext
  <2>2. CASE ReservationRefused(r) \/ ReservationNotStored(r)
    BY <2>2, ReservationRefusedStep
  <2>3. ASSUME NEW used \in Reported,
               RespondWell(r, used) \/ RespondBadly(r, used) \/ ResponseNotStored(r, used)
        PROVE  [LedgerNext]_ledgerVars /\ RunnerInv'
    BY <2>3, RespondStep
  <2>4. CASE Persist(r) \/ PersistFails(r)
    BY <2>4, PersistStep
  <2>5. CASE Consume(r)
    BY <2>5, ConsumeStep
  <2>6. CASE ConsumeFails(r)
    BY <2>6, ConsumeFailsStep
  <2>7. CASE Compensate(r)
    BY <2>7, CompensateStep
  <2> QED BY <1>2, <2>1, <2>2, <2>3, <2>4, <2>5, <2>6, <2>7
       DEF Advance, PlaceScheduled, Answer, Account
<1>3. CASE Audit \/ Corrupt
  BY <1>3, EnvironmentStep
<1>4. CASE Restart
  BY <1>4, RestartStep
<1>5. CASE UNCHANGED vars
  <2>1. UNCHANGED ledgerVars /\ UNCHANGED <<runner, faults, returned>>
    BY <1>5 DEF vars
  <2>2. TicketsStand
    BY <2>1 DEF TicketsStand, HoldsTicket, ledgerVars
  <2> QED BY <2>1, <2>2, TicketsStandKeeps DEF RunnerInv, RunnerTypeOK
<1> QED BY <1>1, <1>2, <1>3, <1>4, <1>5 DEF Next

-----------------------------------------------------------------------------
(* The runners, faults, damage and restarts of AttemptRunner implement the  *)
(* ledger: whatever the ledger guarantees holds of every interleaving.      *)
THEOREM RunnersUseLedger == Spec => LedgerSpec /\ []Inv /\ []RunnerInv
<1>1. Init => LedgerInit /\ Inv /\ RunnerInv
  BY RunnerInit, InitEstablishesInv
<1>2. Inv /\ RunnerInv /\ [Next]_vars => [LedgerNext]_ledgerVars /\ Inv' /\ RunnerInv'
  BY RunnerStep, NextKeepsInv
<1> QED BY <1>1, <1>2, PTL DEF Spec, LedgerSpec

(* Every variable of the ledger and of the runners keeps its type.          *)
THEOREM RunnerTypes == Spec => []TypeOK
<1>1. Inv /\ RunnerInv => TypeOK
  BY DEF Inv, LedgerInv, RunnerInv, TypeOK
<1> QED BY <1>1, RunnersUseLedger, PTL

(* No backend call runs on a reservation that another runner may consume    *)
(* (model.py 335-503).                                                      *)
THEOREM CallsHoldReservations == Spec => []CallHoldsReservation
<1>1. RunnerInv => CallHoldsReservation
  BY DEF RunnerInv
<1> QED BY <1>1, RunnersUseLedger, PTL

(* The ledger's guarantees, for any number of interleaved runners.          *)
THEOREM RunnersKeepLedger ==
  Spec => []CheckpointIsReplay /\ []BudgetHolds /\ []ChainReplays /\ AccountKept
BY RunnersUseLedger, LedgerCheckpoint, LedgerBudget, LedgerReplays, LedgerKeepsAccount, PTL

-----------------------------------------------------------------------------
(* What callers are handed                                                 *)

\* The records handed out are accounted for, and an answer that counts as a
\* success fits the ceiling it was obtained under: its settlement cannot poison.
WithinCeiling ==
  \A r \in Runners : runner[r].step \in {"succeeded", "settling"}
                       => runner[r].used <= runner[r].ceiling

ResultInv == WithinCeiling /\ ReturnedIsAccounted

Fits(record, outcome) ==
  /\ record.used = outcome.reported
  /\ outcome.disposition \in
       IF record.status = "completed" THEN {"SETTLED"} ELSE {"BURNED", "POISONED"}

(* An outcome is only ever put behind the others, so a record that was      *)
(* accounted for stays so.                                                  *)
LEMMA ReturnedStand ==
  ASSUME Inv, ReturnedIsAccounted, UNCHANGED returned,
         outcomes' = outcomes \/ \E o : outcomes' = Append(outcomes, o)
  PROVE  ReturnedIsAccounted'
<1>1. outcomes \in Seq(Outcome)
  BY DEF Inv, LedgerInv, LedgerTypeOK
<1>2. \A k \in DOMAIN outcomes : k \in DOMAIN outcomes' /\ outcomes'[k] = outcomes[k]
  BY <1>1
<1> QED BY <1>2 DEF ReturnedIsAccounted

(* What an outcome becomes when the reservation of a runner is consumed.    *)
LEMMA ConsumedOutcome ==
  ASSUME Inv, RunnerInv, ResultInv, NEW r \in Runners, Consume(r)
  PROVE  LET o == outcomes'[Len(outcomes) + 1]
         IN  /\ \E p : outcomes' = Append(outcomes, p)
             /\ runner[r].ticket = 2 * (Len(outcomes) + 1) - 1
             /\ o.reported = runner[r].used
             /\ \/ Return(r, "completed") /\ o.disposition = "SETTLED"
                \/ Return(r, "failed") /\ o.disposition \in {"BURNED", "POISONED"}
<1>1. outcomes \in Seq(Outcome) /\ Len(outcomes) \in Nat /\ Len(reservations) \in Nat
  BY DEF Inv, LedgerInv, LedgerTypeOK
<1>2. HoldsTicket(r) /\ runner[r].ticket = checkpoint.pending /\ checkpoint.pending # 0
      /\ PendingReservation.tokens = runner[r].ceiling
  BY DEF Consume, At, HoldsTicket, RunnerInv, CallHoldsReservation
<1>3. runner[r].ticket = 2 * (Len(outcomes) + 1) - 1
  BY <1>1, <1>2 DEF Inv, LedgerInv, CountsAgree
<1>4. runner[r].used \in Nat /\ runner[r].ceiling \in Nat
  <2>1. runner[r].used \in Reported /\ runner[r].ceiling \in 0 .. MaxTokensPerAttempt
    BY RunnerTyped DEF RunnerInv, RunnerRecord
  <2>2. \A n \in 0 .. MaxTokensPerAttempt : n \in Nat
    OBVIOUS
  <2>3. runner[r].ceiling \in Nat
    BY <2>1, <2>2
  <2>4. runner[r].used \in Nat
    BY <2>1
  <2> QED BY <2>3, <2>4
<1>5. CASE /\ At(r, "settling") /\ Settle(runner[r].ticket, runner[r].used)
           /\ Return(r, "completed")
  <2>1. runner[r].used <= PendingReservation.tokens
    BY <1>2, <1>5 DEF ResultInv, WithinCeiling, At
  <2>2. OutcomeOf("SETTLED", runner[r].used).disposition = "SETTLED"
        /\ OutcomeOf("SETTLED", runner[r].used).reported = runner[r].used
    BY <2>1, <1>2, <1>4 DEF OutcomeOf
  <2>3. outcomes' = Append(outcomes, OutcomeOf("SETTLED", runner[r].used))
    BY <1>5 DEF Settle, PublishOutcome
  <2> HIDE DEF OutcomeOf
  <2> QED BY <2>2, <2>3, <1>1, <1>3, <1>5
<1>6. CASE /\ At(r, "burning") /\ Burn(runner[r].ticket, runner[r].used)
           /\ Return(r, "failed")
  <2>1. OutcomeOf("BURNED", runner[r].used).disposition \in {"BURNED", "POISONED"}
        /\ OutcomeOf("BURNED", runner[r].used).reported = runner[r].used
    BY DEF OutcomeOf
  <2>2. outcomes' = Append(outcomes, OutcomeOf("BURNED", runner[r].used))
    BY <1>6 DEF Burn, PublishOutcome
  <2> HIDE DEF OutcomeOf
  <2> QED BY <2>1, <2>2, <1>1, <1>3, <1>6
<1> QED BY <1>5, <1>6 DEF Consume

(* The record handed out names the outcome just published; every earlier    *)
(* record names an earlier one.                                             *)
LEMMA ConsumeKeepsReturned ==
  ASSUME Inv, RunnerInv, ResultInv, NEW r \in Runners, Consume(r)
  PROVE  ReturnedIsAccounted'
<1> DEFINE n == Len(outcomes)
<1>1. outcomes \in Seq(Outcome) /\ n \in Nat
  BY DEF Inv, LedgerInv, LedgerTypeOK
<1>2. PICK p : outcomes' = Append(outcomes, p)
  BY ConsumedOutcome
<1>3. PICK record : /\ returned' = returned \cup {record}
                    /\ record.ticket = 2 * (n + 1) - 1
                    /\ Fits(record, outcomes'[n + 1])
  <2>1. PICK status \in {"completed", "failed"} :
          /\ Return(r, status)
          /\ outcomes'[n + 1].disposition \in
               IF status = "completed" THEN {"SETTLED"} ELSE {"BURNED", "POISONED"}
    BY ConsumedOutcome
  <2> DEFINE record == [ticket |-> runner[r].ticket, status |-> status,
                        used |-> runner[r].used]
  <2>2. returned' = returned \cup {record}
    BY <2>1 DEF Return
  <2>3. /\ record.ticket = 2 * (n + 1) - 1
        /\ record.used = outcomes'[n + 1].reported
        /\ record.status = status
    BY ConsumedOutcome
  <2> QED BY <2>1, <2>2, <2>3 DEF Fits
<1>4. \A k \in DOMAIN outcomes : k \in DOMAIN outcomes' /\ outcomes'[k] = outcomes[k]
                                 /\ k \in 1 .. n
  BY <1>1, <1>2
<1>5. n + 1 \in DOMAIN outcomes'
  BY <1>1, <1>2
<1>6. \A old \in returned : \E k \in 1 .. n : /\ old.ticket = 2 * k - 1
                                              /\ Fits(old, outcomes'[k])
  BY <1>1, <1>4 DEF ResultInv, ReturnedIsAccounted, Fits
<1>7. \A old \in returned : old.ticket # record.ticket
  BY <1>1, <1>3, <1>6
<1>8. \A k \in 1 .. n : k \in DOMAIN outcomes'
  BY <1>1, <1>2
<1> QED BY <1>3, <1>5, <1>6, <1>7, <1>8 DEF ResultInv, ReturnedIsAccounted, Fits

(* A move that leaves each runner where it was, or takes it to a step that   *)
(* promises nothing of its usage, keeps the successes within their ceilings. *)
LEMMA CeilingStands ==
  ASSUME WithinCeiling,
         \A s \in Runners :
           \/ runner'[s] = runner[s]
           \/ runner'[s].step \notin {"succeeded", "settling"}
           \/ /\ runner[s].step \in {"succeeded", "settling"}
              /\ runner'[s].used = runner[s].used
              /\ runner'[s].ceiling = runner[s].ceiling
  PROVE  WithinCeiling'
BY DEF WithinCeiling

(* No step of a runner lets a success exceed its ceiling.                    *)
LEMMA CeilingStep ==
  ASSUME RunnerInv, ResultInv, NEW r \in Runners, Begin(r) \/ Advance(r)
  PROVE  WithinCeiling'
<1> USE DEF ResultInv, At
<1>1. runner \in [Runners -> RunnerRecord]
  BY RunnerTyped DEF RunnerInv
<1>2. ASSUME NEW step \in Steps \ {"succeeded", "settling"}, NEW new,
             runner' = [runner EXCEPT ![r] = new], new.step = step
      PROVE  WithinCeiling'
  BY <1>1, <1>2, CeilingStands
<1>3. CASE GiveUp(r)
  BY <1>2, <1>3 DEF GiveUp, Idle, Steps
<1>4. ASSUME NEW step \in Steps, Goto(r, step),
             step \in {"succeeded", "settling"}
               => runner[r].step \in {"succeeded", "settling"}
      PROVE  WithinCeiling'
  BY <1>1, <1>4, GotoTyped, CeilingStands DEF Goto, RunnerRecord
<1>5. CASE Schedule(r)
  BY <1>2, <1>5 DEF Schedule, Idle, Steps
<1>6. ASSUME NEW ceiling \in Ceilings, StartCall(r, ceiling) PROVE WithinCeiling'
  BY <1>1, <1>6, CeilingStands DEF StartCall, RunnerRecord
<1>7. ASSUME NEW used \in Reported,
             RespondWell(r, used) \/ RespondBadly(r, used) \/ ResponseNotStored(r, used)
      PROVE  WithinCeiling'
  BY <1>1, <1>7 DEF RespondWell, RespondBadly, ResponseNotStored, WithinCeiling, RunnerRecord
<1>8. CASE Persist(r) \/ PersistFails(r)
  BY <1>3, <1>4, <1>8 DEF Persist, PersistFails, Steps
<1>9. CASE Consume(r) \/ Compensate(r)
  BY <1>3, <1>9 DEF Consume, Compensate, Return
<1>10. CASE ConsumeFails(r)
  BY <1>3, <1>4, <1>10 DEF ConsumeFails, AfterFailedConsume, Steps
<1>11. CASE ReservationRefused(r) \/ ReservationNotStored(r)
  BY <1>3, <1>11 DEF ReservationRefused, ReservationNotStored
<1> QED BY <1>5, <1>6, <1>7, <1>8, <1>9, <1>10, <1>11
       DEF Begin, Advance, PlaceScheduled, Answer, Account, ReserveUnscheduled, ReserveAtTail

(* No step but a consumption hands out a record.                             *)
LEMMA OthersReturnNothing ==
  ASSUME [Next]_vars, \A r \in Runners : ~Consume(r)
  PROVE  UNCHANGED returned /\ (outcomes' = outcomes \/ \E o : outcomes' = Append(outcomes, o))
BY DEF Next, vars, ledgerVars, Begin, Advance, PlaceScheduled, Answer, Account, Schedule,
       ReserveUnscheduled, ReserveAtTail, StartCall, Reserve, ReservationRefused, RejectTip,
       Latch, ReservationNotStored, RespondWell, RespondBadly, ResponseNotStored, Persist,
       PersistFails, ConsumeFails, RejectPending, Compensate, Burn, PublishOutcome, Audit,
       FailedAudit, Corrupt, Damage, Restart, Reopen

(* Every step keeps the records accounted for and the successes in bounds.   *)
LEMMA ResultStep ==
  ASSUME Inv, RunnerInv, ResultInv, [Next]_vars PROVE ResultInv'
<1>1. ReturnedIsAccounted'
  BY ConsumeKeepsReturned, OthersReturnNothing, ReturnedStand DEF ResultInv
<1>2. WithinCeiling'
  <2>1. CASE \E r \in Runners : Begin(r) \/ Advance(r)
    BY <2>1, CeilingStep
  <2>2. CASE Restart
    BY <2>2 DEF Restart, Idle, WithinCeiling
  <2>3. CASE Audit \/ Corrupt \/ UNCHANGED vars
    BY <2>3, CeilingStands DEF Audit, Corrupt, vars, ResultInv
  <2> QED BY <2>1, <2>2, <2>3 DEF Next
<1> QED BY <1>1, <1>2 DEF ResultInv

(* No result escapes without terminal accounting, for any number of runners,  *)
(* faults and restarts: what a caller is handed names a consumed reservation, *)
(* a completed record a settled one (model.py 487).                           *)
THEOREM ReturnsAreAccounted == Spec => []ReturnedIsAccounted
<1>1. Init => ResultInv
  BY DEF Init, Idle, ResultInv, WithinCeiling, ReturnedIsAccounted
<1>2. Inv /\ RunnerInv /\ ResultInv /\ [Next]_vars => ResultInv'
  BY ResultStep
<1>3. ResultInv => ReturnedIsAccounted
  BY DEF ResultInv
<1> QED BY <1>1, <1>2, <1>3, RunnersUseLedger, PTL DEF Spec

(* A scheduled attempt reserves directly behind the tail its schedule named,  *)
(* whatever the other runners did in between (reserve_at_tail).               *)
THEOREM SchedulesKeepTheirPlace == Spec => ScheduledPlaceKept
<1> DEFINE Kept == \A r \in Runners : At(r, "scheduled") /\ runner'[r].step = "calling"
                     => runner'[r].ticket = runner[r].expected + 1
<1>1. ASSUME RunnerInv, [Next]_vars PROVE Kept
  <2>1. runner \in [Runners -> RunnerRecord]
    BY <1>1, RunnerTyped DEF RunnerInv
  <2>2. SUFFICES ASSUME NEW q \in Runners, At(q, "scheduled"), runner'[q].step = "calling"
                 PROVE  runner'[q].ticket = runner[q].expected + 1
    OBVIOUS
  <2>3. ASSUME NEW r \in Runners, NEW ceiling \in Ceilings, ReserveAtTail(r, ceiling)
        PROVE  runner'[q].ticket = runner[q].expected + 1
    BY <2>1, <2>2, <2>3 DEF ReserveAtTail, StartCall, At, RunnerRecord
  <2>4. ASSUME NEW r \in Runners, NEW ceiling \in Ceilings, ReserveUnscheduled(r, ceiling)
        PROVE  FALSE
    BY <2>1, <2>2, <2>4 DEF ReserveUnscheduled, StartCall, At, RunnerRecord
  <2>5. ASSUME NEW r \in Runners, ~\E ceiling \in Ceilings : ReserveAtTail(r, ceiling),
               ~\E ceiling \in Ceilings : ReserveUnscheduled(r, ceiling),
               Begin(r) \/ Advance(r)
        PROVE  FALSE
    BY <2>1, <2>2, <2>5
       DEF Begin, Advance, PlaceScheduled, Answer, Account, Schedule, ReservationRefused,
           ReservationNotStored, RespondWell, RespondBadly, ResponseNotStored, Persist,
           PersistFails, Consume, ConsumeFails, AfterFailedConsume, Compensate, Return,
           GiveUp, Goto, Idle, At, RunnerRecord
  <2>6. CASE Audit \/ Corrupt \/ Restart \/ UNCHANGED vars
    BY <2>2, <2>6 DEF Audit, Corrupt, Restart, Idle, vars, At
  <2> QED BY <1>1, <2>3, <2>4, <2>5, <2>6 DEF Next
<1> QED BY <1>1, RunnersUseLedger, PTL DEF Spec, ScheduledPlaceKept
-----------------------------------------------------------------------------
(* The kinds of runner                                                     *)

USE AssignmentAssumption DEF AssignmentAssumption

\* The slots of the granted calls are exactly those the runner refuses.
SlotsRemembered == \A a \in attempted : a.slot \in consumed[a.runner]

SlotInv == SlotTypeOK /\ SlotsRemembered /\ SlotsCallOnce

(* A step that grants no call to a slot keeps the slots as they are.       *)
LEMMA SlotsStand ==
  ASSUME SlotInv, UNCHANGED slotVars PROVE SlotInv'
BY DEF SlotInv, SlotTypeOK, SlotsRemembered, SlotsCallOnce, slotVars

(* Consuming a free slot with its reservation (native_function_execution.py *)
(* 182-217) keeps the slots of the granted calls apart.                     *)
LEMMA ConsumeSlotStep ==
  ASSUME Inv, SlotInv, NEW r \in Runners, UNCHANGED kind,
         NEW slot \in Free(r), ConsumeSlot(r, slot)
  PROVE  SlotInv'
<1> DEFINE new == [runner |-> r, slot |-> slot, ticket |-> checkpoint.tail + 1]
<1>1. checkpoint.tail + 1 \in Nat
  BY DEF Inv, LedgerInv, LedgerTypeOK, LedgerState
<1>2. slot \in Slots /\ slot \notin consumed[r]
  BY DEF Free
<1>3. attempted' = attempted \cup {new}
  BY DEF ConsumeSlot
<1>4. consumed' = [consumed EXCEPT ![r] = @ \cup {slot}]
  BY DEF ConsumeSlot
<1>5. SlotTypeOK'
  BY <1>1, <1>2, <1>3, <1>4 DEF SlotInv, SlotTypeOK
<1>6. \A a \in attempted : a.runner = r => a.slot # slot
  BY <1>2 DEF SlotInv, SlotsRemembered
<1>7. SlotsCallOnce'
  BY <1>3, <1>6 DEF SlotInv, SlotsCallOnce
<1>8. \A a \in attempted : a.runner \in Runners /\ a.slot \in consumed[a.runner]
  BY DEF SlotInv, SlotTypeOK, SlotsRemembered
<1>9. SlotsRemembered'
  BY <1>3, <1>4, <1>8 DEF SlotInv, SlotTypeOK, SlotsRemembered
<1> QED BY <1>5, <1>7, <1>9 DEF SlotInv

(* Every kind of runner begins a call by a step of AttemptRunner.          *)
LEMMA BeginRefines ==
  ASSUME NEW r \in Runners, BeginCall(r)
  PROVE  Begin(r)
BY DEF BeginCall, Stateless, Is, PureReserve, NativeSchedule, NativeReserve, Begin

(* Every kind of runner goes on by a step of AttemptRunner.                *)
LEMMA ContinueRefines ==
  ASSUME NEW r \in Runners, ContinueCall(r)
  PROVE  Advance(r)
BY DEF ContinueCall, Stateless, Is, PureAnswer, PureAccount, NativeReserveAtTail,
       NativeRefused, NativeAnswer, NativeAccount, Advance, PlaceScheduled

(* A step of any kind of runner is a step of AttemptRunner.                *)
LEMMA FunctionStepRefines ==
  ASSUME [FunctionNext]_allVars PROVE [Next]_vars
<1>1. ASSUME NEW r \in Runners, BeginCall(r) \/ ContinueCall(r) PROVE Next
  BY <1>1, BeginRefines, ContinueRefines DEF Next
<1>2. CASE Unattended \/ RestartRunners
  BY <1>2 DEF Unattended, RestartRunners, Next
<1>3. CASE UNCHANGED allVars
  BY <1>3 DEF allVars
<1> QED BY <1>1, <1>2, <1>3 DEF FunctionNext

(* The slots stay right in every step.                                     *)
LEMMA SlotStep ==
  ASSUME Inv, SlotInv, [FunctionNext]_allVars PROVE SlotInv'
<1>1. CASE UNCHANGED slotVars
  BY <1>1, SlotsStand
<1>2. ASSUME NEW r \in Runners, NativeReserve(r) \/ NativeReserveAtTail(r) PROVE SlotInv'
  BY <1>2, ConsumeSlotStep DEF NativeReserve, NativeReserveAtTail, Is
<1>3. CASE RestartRunners
  BY <1>3 DEF RestartRunners, SlotInv, SlotTypeOK, SlotsRemembered, SlotsCallOnce
<1>4. ASSUME NEW r \in Runners, BeginCall(r) \/ ContinueCall(r),
             ~NativeReserve(r), ~NativeReserveAtTail(r)
      PROVE  UNCHANGED slotVars
  BY <1>4 DEF BeginCall, ContinueCall, Stateless, Is, PureReserve, PureAnswer, PureAccount,
              NativeSchedule, NativeRefused, NativeAnswer, NativeAccount, slotVars
<1>5. CASE Unattended \/ UNCHANGED allVars
  BY <1>1, <1>5 DEF Unattended, allVars
<1> QED BY <1>1, <1>2, <1>3, <1>4, <1>5 DEF FunctionNext

-----------------------------------------------------------------------------
(* Whatever kinds of runner share a ledger, together they implement the     *)
(* runners of AttemptRunner.                                                *)
THEOREM KindsRefineRunners == FunctionSpec => Spec
<1>1. FunctionInit => Init
  BY DEF FunctionInit
<1>2. [FunctionNext]_allVars => [Next]_vars
  BY FunctionStepRefines
<1> QED BY <1>1, <1>2, PTL DEF FunctionSpec, Spec

(* For any number of runners of any kinds: types, and one call per native   *)
(* slot in the life of a process (native_function_execution.py 182-217).    *)
THEOREM NativeSlotsAreSingleUse == FunctionSpec => []RunnersInv
<1>1. FunctionInit => SlotInv
  BY DEF FunctionInit, SlotInv, SlotTypeOK, SlotsRemembered, SlotsCallOnce
<1>2. Inv /\ SlotInv /\ [FunctionNext]_allVars => SlotInv'
  BY SlotStep
<1>3. TypeOK /\ SlotInv => RunnersInv
  BY DEF SlotInv, RunnersInv
<1>4. FunctionSpec => []Inv /\ []TypeOK
  BY KindsRefineRunners, RunnersUseLedger, RunnerTypes, PTL
<1> QED BY <1>1, <1>2, <1>3, <1>4, PTL DEF FunctionSpec
=============================================================================
