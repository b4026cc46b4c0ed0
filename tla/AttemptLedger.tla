---------------------------- MODULE AttemptLedger ----------------------------
(***************************************************************************)
(* The attempt ledger of spiral_harness/execution/attempts.py and the      *)
(* writer checkpoint of execution/attempt_checkpoint.py.                   *)
(*                                                                         *)
(* The immutable chain alternates reservations and outcomes.  Artifact     *)
(* 2k-1 of the chain is reservation k, artifact 2k is its outcome, and a   *)
(* reference to the tail is the number of artifacts the chain holds (0 is  *)
(* None).  The checkpoint is the incremental AttemptLedgerState a live     *)
(* writer advances; Replay recomputes the same record from the chain.      *)
(***************************************************************************)
EXTENDS Integers, Sequences, FiniteSets

CONSTANTS MaxAttempts,          \* AttemptBudget.max_attempts
          MaxTotalTokens,       \* AttemptBudget.max_total_tokens
          MaxTokensPerAttempt,  \* AttemptBudget.max_tokens_per_attempt
          Reported,             \* token counts a backend may report
          MaxDamage,            \* bound: artifacts that become unreadable
          MaxEpoch              \* bound: ledger objects opened on the chain

ASSUME BudgetAssumption ==
  /\ MaxAttempts \in Nat \ {0}
  /\ MaxTotalTokens \in Nat \ {0}
  /\ MaxTokensPerAttempt \in 1 .. MaxTotalTokens
  /\ Reported \subseteq Nat
  /\ 0 \in Reported          \* the usage recorded when none is known

ASSUME BoundAssumption == MaxDamage \in Nat /\ MaxEpoch \in Nat \ {0}

VARIABLES reservations,   \* AttemptReservation artifacts on the chain, in order
          outcomes,       \* AttemptOutcome artifacts on the chain, in order
          checkpoint,     \* AttemptWriterCheckpoint._state
          writerEpoch,    \* writer epoch of the ledger object in use
          latched,        \* AttemptWriterCheckpoint._integrity_failure is set
          damaged         \* chain artifacts whose verification now fails

ledgerVars == <<reservations, outcomes, checkpoint, writerEpoch, latched, damaged>>

Ceilings == 1 .. MaxTokensPerAttempt
Dispositions == {"SETTLED", "BURNED", "POISONED"}

Reservation == [epoch : 1 .. MaxEpoch, tokens : Ceilings]
Outcome == [disposition : Dispositions, reported : Reported, charged : Nat]

LedgerState ==
  [tail : Nat, pending : Nat, poisoned : BOOLEAN, attempts : Nat,
   completed : Nat, charged : Nat, encumbered : Nat]

EmptyState ==
  [tail |-> 0, pending |-> 0, poisoned |-> FALSE, attempts |-> 0,
   completed |-> 0, charged |-> 0, encumbered |-> 0]

-----------------------------------------------------------------------------
(* replay_attempt_ledger: the state a full walk of the chain computes.     *)

\* Running total of the charges along the chain.
ChargedAlong == LET sum[i \in 0 .. Len(outcomes)] ==
                      IF i = 0 THEN 0 ELSE sum[i - 1] + outcomes[i].charged
                IN  sum

Replay ==
  LET open == Len(reservations) > Len(outcomes)
      charged == ChargedAlong[Len(outcomes)]
  IN  [tail |-> Len(reservations) + Len(outcomes),
       pending |-> IF open THEN Len(reservations) + Len(outcomes) ELSE 0,
       poisoned |-> \E i \in DOMAIN outcomes : outcomes[i].disposition = "POISONED",
       attempts |-> Len(reservations),
       completed |-> Len(outcomes),
       charged |-> charged,
       encumbered |-> charged
                      + (IF open THEN reservations[Len(reservations)].tokens ELSE 0)]

\* Everything a replay checks: every artifact verifies, one writer epoch, at
\* most one open reservation, outcomes that fit their reservations, nothing
\* after a poisoned outcome, and both ceilings.
PairVerifies(i) ==
  LET reserved == reservations[i].tokens
      outcome == outcomes[i]
  IN  /\ (outcome.disposition = "POISONED") = (outcome.reported > reserved)
      /\ outcome.charged = IF outcome.disposition = "BURNED" THEN reserved
                           ELSE outcome.reported

ReplaySucceeds ==
  /\ damaged = {}
  /\ Len(reservations) - Len(outcomes) \in {0, 1}
  /\ \A i \in DOMAIN reservations : reservations[i].epoch = reservations[1].epoch
  /\ \A i \in DOMAIN outcomes : PairVerifies(i)
  /\ \A i \in DOMAIN outcomes :
       outcomes[i].disposition = "POISONED" => i = Len(reservations)
  /\ Replay.attempts <= MaxAttempts
  /\ Replay.poisoned \/ Replay.encumbered <= MaxTotalTokens

-----------------------------------------------------------------------------
(* AttemptLedger.reserve                                                   *)

\* verify_current_outcome on the closed tip, and its writer epoch.
TipVerifies ==
  checkpoint.tail # 0 =>
    /\ {checkpoint.tail - 1, checkpoint.tail} \cap damaged = {}
    /\ checkpoint.attempts = checkpoint.completed
    /\ checkpoint.encumbered = checkpoint.charged
    /\ PairVerifies(checkpoint.completed)
    /\ checkpoint.poisoned = (outcomes[checkpoint.completed].disposition = "POISONED")

TipIsMine ==
  checkpoint.tail # 0 => reservations[checkpoint.completed].epoch = writerEpoch

CanReserve(ceiling) ==
  /\ ~latched
  /\ checkpoint.pending = 0
  /\ TipVerifies
  /\ TipIsMine
  /\ ~checkpoint.poisoned
  /\ checkpoint.attempts < MaxAttempts
  /\ ceiling \in Ceilings
  /\ checkpoint.charged + ceiling <= MaxTotalTokens

\* Mutant: the reserved tokens are taken from the encumbered ones.
WithReservationSubtracted(state, ceiling) ==
  [state EXCEPT !.tail = @ + 1, !.pending = state.tail + 1,
                !.attempts = @ + 1, !.encumbered = state.charged - ceiling]

\* Mutant: the open reservation is not recorded as pending.
WithReservationNotPending(state, ceiling) ==
  [state EXCEPT !.tail = @ + 1,
                !.attempts = @ + 1, !.encumbered = state.charged + ceiling]

\* append_reservation: the checkpoint after the reservation was read back.
WithReservation(state, ceiling) ==
  [tail |-> state.tail + 1, pending |-> state.tail + 1, poisoned |-> FALSE,
   attempts |-> state.attempts + 1, completed |-> state.completed,
   charged |-> state.charged, encumbered |-> state.charged + ceiling]

Reserve(ceiling) ==
  /\ CanReserve(ceiling)
  /\ reservations' = Append(reservations, [epoch |-> writerEpoch, tokens |-> ceiling])
  /\ checkpoint' = WithReservation(checkpoint, ceiling)
  /\ UNCHANGED <<outcomes, writerEpoch, latched, damaged>>

-----------------------------------------------------------------------------
(* AttemptLedger.settle and AttemptLedger.burn                             *)

\* The reservation an open chain waits on is always its last one.
PendingReservation == reservations[checkpoint.attempts]

\* _require_current_reservation, for the reference a caller hands in.
CanConsume(ref) ==
  /\ ~latched
  /\ checkpoint.pending # 0
  /\ ref = checkpoint.pending
  /\ checkpoint.pending \notin damaged
  /\ PendingReservation.epoch = writerEpoch

\* Mutant: the incremental checkpoint keeps the reservation encumbered.
WithOutcomeStillHeld(state, outcome) ==
  [state EXCEPT !.tail = @ + 1, !.pending = 0, !.completed = @ + 1,
                !.poisoned = outcome.disposition = "POISONED",
                !.charged = @ + outcome.charged]

\* append_outcome: the checkpoint after the outcome was read back.
WithOutcome(state, outcome) ==
  [tail |-> state.tail + 1, pending |-> 0,
   poisoned |-> outcome.disposition = "POISONED",
   attempts |-> state.attempts, completed |-> state.completed + 1,
   charged |-> state.charged + outcome.charged,
   encumbered |-> state.charged + outcome.charged]

\* _publish_outcome and append_outcome, whose last test is the hard ceiling.
PublishOutcome(outcome) ==
  /\ outcome.disposition = "POISONED"
       \/ checkpoint.charged + outcome.charged <= MaxTotalTokens
  /\ outcomes' = Append(outcomes, outcome)
  /\ checkpoint' = WithOutcome(checkpoint, outcome)
  /\ UNCHANGED <<reservations, writerEpoch, latched, damaged>>

\* What a consumed reservation is charged.  A settlement charges the usage of
\* the execution; a burn charges the whole reservation; usage above the
\* reservation poisons the chain on both paths.
OutcomeOf(disposition, used) ==
  LET reserved == PendingReservation.tokens
  IN  [disposition |-> IF used > reserved THEN "POISONED" ELSE disposition,
       reported |-> used,
       charged |-> IF used > reserved \/ disposition = "SETTLED" THEN used
                   ELSE reserved]

Settle(ref, used) == CanConsume(ref) /\ PublishOutcome(OutcomeOf("SETTLED", used))

Burn(ref, used) == CanConsume(ref) /\ PublishOutcome(OutcomeOf("BURNED", used))

-----------------------------------------------------------------------------
(* Integrity failures, and a new ledger object on an existing chain        *)

Latch ==
  /\ latched' = TRUE
  /\ UNCHANGED <<reservations, outcomes, checkpoint, writerEpoch, damaged>>

\* reserve on a closed tip that no longer verifies.
RejectTip == ~latched /\ checkpoint.pending = 0 /\ ~TipVerifies /\ Latch

\* settle or burn of a pending reservation that no longer loads.
RejectPending(ref) ==
  /\ ~latched
  /\ ref = checkpoint.pending
  /\ ref \in damaged
  /\ Latch

\* state() and state_at() replay everything and compare with the checkpoint.
AuditSucceeds == ~latched /\ ReplaySucceeds /\ Replay = checkpoint
FailedAudit == ~latched /\ ~(ReplaySucceeds /\ Replay = checkpoint) /\ Latch

\* External: bytes of a published artifact change or become unreadable.
Damage(ref) ==
  /\ Cardinality(damaged) < MaxDamage
  /\ damaged' = damaged \cup {ref}
  /\ UNCHANGED <<reservations, outcomes, checkpoint, writerEpoch, latched>>

\* Mutant: a reopened ledger forgets the reservation it finds open.
ReopenForgetting ==
  /\ writerEpoch < MaxEpoch
  /\ ReplaySucceeds
  /\ checkpoint' = [Replay EXCEPT !.pending = 0, !.encumbered = Replay.charged]
  /\ writerEpoch' = writerEpoch + 1
  /\ latched' = FALSE
  /\ UNCHANGED <<reservations, outcomes, damaged>>

\* AttemptLedger.__init__ on the tail of an existing chain.
Reopen ==
  /\ writerEpoch < MaxEpoch
  /\ ReplaySucceeds
  /\ checkpoint' = Replay
  /\ writerEpoch' = writerEpoch + 1
  /\ latched' = FALSE
  /\ UNCHANGED <<reservations, outcomes, damaged>>

LedgerInit ==
  /\ reservations = <<>>
  /\ outcomes = <<>>
  /\ checkpoint = EmptyState
  /\ writerEpoch = 1
  /\ latched = FALSE
  /\ damaged = {}

LedgerNext ==
  \/ \E ceiling \in Ceilings : Reserve(ceiling)
  \/ \E used \in Reported : Settle(checkpoint.pending, used)
  \/ \E used \in Reported : Burn(checkpoint.pending, used)
  \/ RejectTip
  \/ RejectPending(checkpoint.pending)
  \/ FailedAudit
  \/ \E ref \in 1 .. checkpoint.tail : Damage(ref)
  \/ Reopen

LedgerSpec == LedgerInit /\ [][LedgerNext]_ledgerVars

-----------------------------------------------------------------------------
(* Every state variable of the ledger stays in its type.                   *)
LedgerTypeOK ==
  /\ reservations \in Seq(Reservation)
  /\ outcomes \in Seq(Outcome)
  /\ checkpoint \in LedgerState
  /\ writerEpoch \in 1 .. MaxEpoch
  /\ latched \in BOOLEAN
  /\ damaged \in SUBSET Nat

(* The checkpoint a live writer advances by increments (append_reservation  *)
(* and append_outcome) is exactly what a full replay of the immutable chain *)
(* computes, in every state, across failures, latches and reopened tails.   *)
CheckpointIsReplay == checkpoint = Replay

(* The hard budget of the chain itself: never more attempts than allowed,   *)
(* and the tokens charged to the attempts that did not overrun, with the    *)
(* one reserved, fit the total; only the last attempt can have overrun, and *)
(* what was charged before it still fits.                                   *)
BudgetHolds ==
  /\ Len(reservations) <= MaxAttempts
  /\ ~checkpoint.poisoned => checkpoint.encumbered <= MaxTotalTokens
  /\ checkpoint.poisoned =>
       /\ checkpoint.completed = Len(reservations)
       /\ checkpoint.charged - outcomes[Len(outcomes)].charged
            + reservations[Len(reservations)].tokens <= MaxTotalTokens

(* The writer never publishes a chain that its own replay would reject: as  *)
(* long as no artifact is damaged, every audit and every reopening of the   *)
(* tail succeeds - one writer epoch, outcomes that fit their reservations,  *)
(* nothing behind a poisoned outcome, both ceilings - and nothing latches.  *)
ChainReplays == damaged = {} => ReplaySucceeds /\ ~latched

(* The writer's checkpoint, its chain and every reader's replay agree.     *)
ReplaysAgree == CheckpointIsReplay /\ ChainReplays

(* The parts of the inductive invariant behind the properties above.       *)
CountsAgree ==
  /\ checkpoint.attempts = Len(reservations)
  /\ checkpoint.completed = Len(outcomes)
  /\ Len(reservations) - Len(outcomes) \in {0, 1}
  /\ Len(reservations) <= MaxAttempts
  /\ checkpoint.tail = Len(reservations) + Len(outcomes)
  /\ checkpoint.pending = IF Len(reservations) = Len(outcomes) THEN 0
                          ELSE checkpoint.tail

TokensAgree ==
  /\ checkpoint.encumbered = checkpoint.charged
       + (IF checkpoint.pending = 0 THEN 0 ELSE PendingReservation.tokens)
  /\ ~checkpoint.poisoned => checkpoint.encumbered <= MaxTotalTokens
  /\ \A i \in DOMAIN outcomes : PairVerifies(i)

PoisonIsLast ==
  /\ \A i \in DOMAIN outcomes :
       outcomes[i].disposition = "POISONED" => i = Len(reservations)
  /\ checkpoint.poisoned <=> /\ Len(outcomes) > 0
                             /\ outcomes[Len(outcomes)].disposition = "POISONED"
  /\ checkpoint.poisoned =>
       /\ Len(outcomes) = Len(reservations)
       /\ checkpoint.charged - outcomes[Len(outcomes)].charged
            + reservations[Len(reservations)].tokens <= MaxTotalTokens

OneEpoch ==
  \A i \in DOMAIN reservations : reservations[i].epoch = reservations[1].epoch

LatchHasCause == damaged = {} => ~latched

LedgerInv ==
  LedgerTypeOK /\ CountsAgree /\ TokensAgree /\ PoisonIsLast /\ OneEpoch /\ LatchHasCause

(* The ledger keeps the promise of a token account: one hold at a time,     *)
(* covered by what is left, consumed once, never refunded, closed by the    *)
(* first overrun.                                                           *)
TA == INSTANCE TokenAccount WITH Capacity <- MaxTotalTokens,
        spent <- checkpoint.charged,
        held <- checkpoint.encumbered - checkpoint.charged,
        overrun <- checkpoint.poisoned
AccountKept == TA!Spec
=============================================================================
