---------------------------- MODULE ScheduledBatch ----------------------------
(***************************************************************************)
(* execution/schedule.py and execution/receipts.py: a frozen schedule is   *)
(* executed cell by cell against one attempt ledger.  A preflight          *)
(* certificate binds the ledger's tail and what it can still afford, every *)
(* attempt names the tail it expects, its receipt binds the outcome it     *)
(* left, and a final replay demands that the receipts account for all the  *)
(* ledger did since the preflight.                                         *)
(*                                                                         *)
(* Whoever made the ledger still holds it, and may run attempts of its own *)
(* between any two calls of the batch.  AttemptRunner models the ledger    *)
(* and the runner in detail; here an attempt is its reservation and its    *)
(* outcome.                                                                *)
(***************************************************************************)
EXTENDS Naturals, Sequences, FiniteSets, SequencesExt

CONSTANTS Schedules,    \* frozen schedules of the study
          Pairs,        \* task and repeat coordinates, each run by both sides
          Ceiling,      \* token_ceiling_per_attempt
          Usages,       \* token counts a backend may report
          Budgets,      \* max_attempts of the ledgers a factory opens
          Nobody, Other,
          MaxForeign    \* bound: attempts of other holders of the ledgers

ASSUME BatchAssumption ==
  /\ Pairs \in Nat \ {0} /\ Ceiling \in Nat \ {0}
  /\ Usages \subseteq Nat /\ Budgets \subseteq Nat \ {0}
  /\ {Nobody, Other} \cap Schedules = {} /\ Nobody # Other
  /\ MaxForeign \in Nat

VARIABLES ledgers,   \* attempt ledgers in the order they were opened
          batch,     \* what the batch runner is doing
          foreign    \* attempts of other holders so far

batchVars == <<ledgers, batch, foreign>>

-----------------------------------------------------------------------------
(* EvaluationBatchSchedule                                                 *)

\* iter_cells: for every coordinate the parent, then the candidate.
Cells == 1 .. 2 * Pairs
Side(cell) == IF cell % 2 = 1 THEN "PARENT" ELSE "CANDIDATE"
Coordinate(cell) == (cell + 1) \div 2

\* Mutant: the side takes part in the seed.
SeedOfSide(schedule, cell) == <<schedule, cell>>

\* seed_for: both sides of a coordinate share it.
SeedFor(schedule, cell) == <<schedule, Coordinate(cell)>>

RequiredAttempts == 2 * Pairs
RequiredTokens == RequiredAttempts * Ceiling

-----------------------------------------------------------------------------
(* The ledgers                                                             *)

\* ceiling of every ledger: max_attempts reservations of Ceiling tokens
OpenLedger(budget) == [budget |-> budget, outcomes |-> <<>>, pending |-> Nobody]
Outcome(owner, cell, seed, disposition, charged) ==
  [owner |-> owner, cell |-> cell, seed |-> seed, disposition |-> disposition,
   charged |-> charged]

LedgerTail(l) == Len(ledgers[l].outcomes)
Poisoned(l) == \E i \in 1 .. LedgerTail(l) : ledgers[l].outcomes[i].disposition = "POISONED"
ChargedIn(outcomes) == FoldSeq(LAMBDA outcome, sum : sum + outcome.charged, 0, outcomes)
RemainingTokens(l) == ledgers[l].budget * Ceiling - ChargedIn(ledgers[l].outcomes)

CanReserve(l) ==
  /\ ledgers[l].pending = Nobody /\ ~Poisoned(l)
  /\ LedgerTail(l) < ledgers[l].budget /\ Ceiling <= RemainingTokens(l)

Reserve(l, owner) ==
  /\ CanReserve(l)
  /\ ledgers' = [ledgers EXCEPT ![l].pending = owner]

Consume(l, outcome) ==
  ledgers' = [ledgers EXCEPT ![l].outcomes = Append(@, outcome), ![l].pending = Nobody]

\* An attempt settles at what it used, burns its ceiling, or poisons the ledger.
Terminal(owner, cell, seed, used) ==
  IF used > Ceiling THEN {Outcome(owner, cell, seed, "POISONED", used)}
  ELSE {Outcome(owner, cell, seed, "SETTLED", used), Outcome(owner, cell, seed, "BURNED", Ceiling)}

ForeignReserve(l) ==
  /\ foreign < MaxForeign
  /\ Reserve(l, Other)
  /\ foreign' = foreign + 1
  /\ UNCHANGED batch

ForeignConsume(l) ==
  /\ ledgers[l].pending = Other
  /\ Consume(l, Outcome(Other, 0, Nobody, "SETTLED", Ceiling))
  /\ UNCHANGED <<batch, foreign>>

-----------------------------------------------------------------------------
(* A batch: boundary is the preflight's ledger tail, expected the tail the *)
(* next attempt names, receipts the outcomes receipted so far, final the   *)
(* tail the replay started from.                                           *)

NoBatch == [step |-> "NONE", schedule |-> Nobody, ledger |-> 0, boundary |-> 0,
            expected |-> 0, receipts |-> <<>>, final |-> 0]

At(step) == batch.step = step
Goto(step) == batch' = [batch EXCEPT !.step = step]
Calm == UNCHANGED <<ledgers, foreign>>

BatchInit == ledgers = <<>> /\ batch = NoBatch /\ foreign = 0

\* The capacity a certificate records: the ledger is idle, and can still pay
\* for every attempt at its ceiling.
Affords(l) ==
  /\ ~Poisoned(l) /\ ledgers[l].pending = Nobody
  /\ RequiredAttempts <= ledgers[l].budget - LedgerTail(l)
  /\ RequiredTokens <= RemainingTokens(l)

\* preflight_attempt_budget and publish_schedule_preflight
Certify ==
  /\ At("FRESH")
  /\ Affords(batch.ledger)
  /\ batch' = [batch EXCEPT !.step = "CERTIFIED", !.boundary = LedgerTail(batch.ledger)]
  /\ Calm

\* execute_paired_batch reads the tail once more before its first attempt.
ReadTail ==
  /\ At("CERTIFIED")
  /\ batch' = [batch EXCEPT !.step = "READY", !.expected = LedgerTail(batch.ledger)]
  /\ Calm

Cell == Len(batch.receipts) + 1
CellSeed == SeedFor(batch.schedule, Cell)

\* The first attempt starts at the preflight tail, a later one at the outcome
\* of the receipt before it.
ProgressAuthorized ==
  IF batch.receipts = <<>> THEN batch.expected = batch.boundary
  ELSE batch.expected = Last(batch.receipts)

\* The ledger is idle at the tail the attempt expects.
LedgerStands(l, tail) ==
  ledgers[l].pending = Nobody /\ ~Poisoned(l) /\ LedgerTail(l) = tail

\* execute_scheduled_attempt up to the runner
AuthorizeAttempt ==
  /\ At("READY") /\ Cell \in Cells
  /\ ProgressAuthorized
  /\ LedgerStands(batch.ledger, batch.expected)
  /\ Goto("AUTHORIZED") /\ Calm

\* execute_record reserves at the expected tail.
ReserveCell ==
  /\ At("AUTHORIZED")
  /\ LedgerTail(batch.ledger) = batch.expected
  /\ Reserve(batch.ledger, batch.schedule)
  /\ Goto("CALLING") /\ UNCHANGED foreign

\* The record names the outcome, whatever became of the call.
ReturnRecord(used) ==
  /\ At("CALLING")
  /\ \E outcome \in Terminal(batch.schedule, Cell, CellSeed, used) :
       Consume(batch.ledger, outcome)
  /\ batch' = [batch EXCEPT !.step = "ACCOUNTED", !.expected = @ + 1]
  /\ UNCHANGED foreign

\* No record: the execution was not stored and the reservation stays open, or
\* its settlement failed and it was burned.
LoseRecord ==
  /\ At("CALLING")
  /\ \/ UNCHANGED ledgers
     \/ Consume(batch.ledger, Outcome(batch.schedule, Cell, CellSeed, "BURNED", Ceiling))
  /\ Goto("FAILED") /\ UNCHANGED foreign

\* publish_execution_receipt, and the grade of the execution.
PublishReceipt ==
  /\ At("ACCOUNTED")
  /\ batch' = [batch EXCEPT !.step = "READY", !.receipts = Append(@, batch.expected)]
  /\ Calm

BeginReplay ==
  /\ At("READY") /\ Cell \notin Cells
  /\ ledgers[batch.ledger].pending = Nobody
  /\ batch' = [batch EXCEPT !.step = "REPLAYING", !.final = LedgerTail(batch.ledger)]
  /\ Calm

\* _verify_reservation_outcome_pair: what each disposition may charge.
PairVerifies(outcome) ==
  /\ outcome.disposition = "SETTLED" => outcome.charged <= Ceiling
  /\ outcome.disposition = "BURNED" => outcome.charged = Ceiling
  /\ outcome.disposition = "POISONED" => outcome.charged > Ceiling

\* _verify_cell_execution_binding
ExecutionBinds(schedule, cell, outcome) ==
  outcome.cell = cell /\ outcome.seed = SeedFor(schedule, cell)

\* _replay_attempt_chain: pair by pair, and nothing follows an overrun.
ChainVerifies(chain) ==
  \A i \in DOMAIN chain :
    PairVerifies(chain[i]) /\ (chain[i].disposition = "POISONED" => i = Len(chain))

BatchOutcomes(l, receipts) == [i \in DOMAIN receipts |-> ledgers[l].outcomes[receipts[i]]]

\* One receipt for every cell, its outcome bound to the cell, none poisoned.
CellsReceipted ==
  LET outcomes == BatchOutcomes(batch.ledger, batch.receipts)
  IN  \A cell \in Cells : \E i \in DOMAIN outcomes :
        ExecutionBinds(batch.schedule, cell, outcomes[i]) /\ outcomes[i].disposition # "POISONED"

\* The receipts are all the ledger did between the preflight and the tail.
ReceiptsCover ==
  /\ CellsReceipted
  /\ ChainVerifies(SubSeq(ledgers[batch.ledger].outcomes, 1, batch.final))
  /\ ToSet(batch.receipts) = batch.boundary + 1 .. batch.final

\* Mutant: the ledger is not read again at the end of the replay.
TrustReplayed == At("REPLAYING") /\ ReceiptsCover /\ Goto("TRUSTED") /\ Calm

\* replay_trusted_usage: the ledger is where it was when the replay began.
TrustUsage ==
  /\ At("REPLAYING")
  /\ ReceiptsCover
  /\ LedgerTail(batch.ledger) = batch.final /\ ledgers[batch.ledger].pending = Nobody
  /\ Goto("TRUSTED") /\ Calm

BatchNext ==
  \/ Certify \/ ReadTail \/ AuthorizeAttempt \/ ReserveCell
  \/ \E used \in Usages : ReturnRecord(used)
  \/ LoseRecord \/ PublishReceipt \/ BeginReplay \/ TrustUsage
  \/ \E l \in DOMAIN ledgers : ForeignReserve(l) \/ ForeignConsume(l)

-----------------------------------------------------------------------------
(* Properties                                                              *)

\* Usage is certified for a ledger on which the batch was alone: at the moment
\* the replay ends, all the ledger did since the preflight is one attempt per
\* cell in the schedule's order, reserved by the batch, and nothing is open,
\* although another holder may reserve between any two calls of the batch.
TrustedUsageIsExact ==
  [][~At("TRUSTED") /\ batch'.step = "TRUSTED" =>
       LET ledger == ledgers'[batch'.ledger]
       IN  /\ ledger.pending = Nobody
           /\ Len(ledger.outcomes) = batch'.boundary + RequiredAttempts
           /\ \A cell \in Cells :
                /\ ledger.outcomes[batch'.boundary + cell].owner = batch'.schedule
                /\ ledger.outcomes[batch'.boundary + cell].cell = cell]_batchVars
=============================================================================
