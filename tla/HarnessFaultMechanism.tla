------------------------ MODULE HarnessFaultMechanism ------------------------
(***************************************************************************)
(* benchmark/harness_fault.py, harness_fault_runtime.py,                   *)
(* harness_fault_mechanism.py and harness_fault_ledger.py: a repaired      *)
(* harness is compared with its faulty parent, with its own revert and     *)
(* with a placebo, each comparison a scheduled batch on a ledger of its    *)
(* own.  A middleware runtime serves every request once and remembers the  *)
(* event it attested in its own memory; a batch is graded against those    *)
(* events.  Three graded batches become mechanism evidence once they have  *)
(* been replayed against their live ledgers, whose tails are looked at     *)
(* again, ledger by ledger, before, between and after what is published.   *)
(***************************************************************************)
EXTENDS ScheduledBatch

CONSTANTS MaxCompared,   \* bound: ledgers opened for comparisons
          MaxRuntimes    \* bound: runtimes a caller builds

Comparisons == {"MAIN", "REVERT", "PLACEBO"}
FaultSchedules == [kind : Comparisons, seed : {0}]
ParentRole == [MAIN |-> "FAULTY_PARENT", REVERT |-> "REVERT", PLACEBO |-> "PLACEBO"]

ASSUME FaultAssumption ==
  FaultSchedules \subseteq Schedules /\ MaxCompared \in Nat /\ MaxRuntimes \in Nat \ {0}

VARIABLES runtime,    \* number of the backend object, and the requests it served
          graded,     \* graded batches that were published
          mechanism,  \* the verification in progress
          stood,      \* history: its ledgers stood together since its last mark
          evidence    \* verifications stored, and returned to the caller

faultVars == <<batchVars, runtime, graded, mechanism, stood, evidence>>

-----------------------------------------------------------------------------
(* The runtime                                                             *)

\* The harness of a side, compiled from the one repair action.
HarnessRole(schedule, cell) ==
  IF Side(cell) = "PARENT" THEN ParentRole[schedule.kind] ELSE "CANDIDATE"

\* A request is a harness, a task and the seed of the paired coordinate.
Request(schedule, cell) == <<HarnessRole(schedule, cell), SeedFor(schedule, cell)>>

\* HarnessFaultMiddlewareBackend.invoke: a served request is refused, and the
\* runner burns the attempt; an attempt may also burn after its event is kept.
Served(outcome) ==
  LET request == Request(batch.schedule, Cell)
  IN  IF request \in runtime.events
      THEN outcome.disposition = "BURNED" /\ UNCHANGED runtime
      ELSE \/ runtime' = [runtime EXCEPT !.events = @ \cup {request}]
           \/ outcome.disposition = "BURNED" /\ UNCHANGED runtime

RuntimeReturns(used) == ReturnRecord(used) /\ Served(Last(ledgers'[batch.ledger].outcomes))

\* A new process starts with an empty backend.
RestartRuntime ==
  /\ At("NONE") /\ runtime.number < MaxRuntimes
  /\ runtime' = [number |-> runtime.number + 1, events |-> {}]
  /\ UNCHANGED batchVars

-----------------------------------------------------------------------------
(* A comparison                                                            *)

\* The caller publishes a schedule and pairs it with a ledger, a new one or
\* one it has already used.
OpenComparison(schedule) ==
  /\ At("NONE")
  /\ \E l \in 1 .. Len(ledgers) + 1, budget \in Budgets :
       /\ IF l \in DOMAIN ledgers THEN UNCHANGED ledgers /\ budget = ledgers[l].budget
          ELSE l <= MaxCompared /\ ledgers' = Append(ledgers, OpenLedger(budget))
       /\ batch' = [NoBatch EXCEPT !.step = "FRESH", !.ledger = l, !.schedule = schedule]
  /\ UNCHANGED <<foreign, runtime>>

\* _derive_event: every cell has a settled call that binds it.
EventsDerive(b) ==
  \A cell \in Cells : \E i \in DOMAIN b.receipts :
    LET outcome == ledgers[b.ledger].outcomes[b.receipts[i]]
    IN  ExecutionBinds(b.schedule, cell, outcome) /\ outcome.disposition = "SETTLED"

\* _grade_one: and the runtime attested its request.
Gradable(b) ==
  EventsDerive(b) /\ \A cell \in Cells : Request(b.schedule, cell) \in runtime.events

\* grade_receipt_batch, after its replay of the usage
GradeBatch ==
  /\ At("TRUSTED")
  /\ Gradable(batch)
  /\ graded' = graded \cup {[schedule |-> batch.schedule, ledger |-> batch.ledger,
                             boundary |-> batch.boundary, receipts |-> batch.receipts,
                             tail |-> batch.final]}
  /\ batch' = NoBatch
  /\ Calm /\ UNCHANGED runtime

\* Whatever raises: the caller gives the batch up.
ComparisonRaises == ~At("NONE") /\ batch' = NoBatch /\ Calm /\ UNCHANGED runtime

ComparisonStep ==
  \/ Certify \/ ReadTail \/ AuthorizeAttempt \/ ReserveCell \/ LoseRecord
  \/ PublishReceipt \/ BeginReplay \/ TrustUsage
  \/ \E l \in DOMAIN ledgers : ForeignReserve(l) \/ ForeignConsume(l)

-----------------------------------------------------------------------------
(* The verification: picked are the batches, left those still to be        *)
(* replayed, live the ledgers the caller brought, looked those reverified  *)
(* in the current pass.                                                    *)

NoMechanism == [step |-> "IDLE", picked |-> {}, left |-> {}, live |-> {}, looked |-> {}]

InMechanism(step) == mechanism.step = step
Passes == {"REPLAYED", "SUMMARIZED", "STORED"}

\* index_exact_live_ledgers
IndexLedgers(picked, live) ==
  /\ InMechanism("IDLE") /\ At("NONE")
  /\ Cardinality(picked) = 3 /\ Cardinality(live) = 3
  /\ mechanism' = [NoMechanism EXCEPT !.step = "REPLAYING", !.picked = picked,
                                      !.left = picked, !.live = live]

\* replay_exact_batch_usage: the batch finds its ledger among those no other
\* batch took, where it left it.  The ledger is read when the replay begins and
\* when it ends; a tail never comes back, so the last reading decides.
ReplayBatch(b) ==
  /\ InMechanism("REPLAYING") /\ b \in mechanism.left
  /\ b.ledger \notin {c.ledger : c \in mechanism.picked \ mechanism.left}
  /\ b.ledger \in mechanism.live
  /\ b.schedule.kind \notin {c.schedule.kind : c \in mechanism.picked \ mechanism.left}
  /\ ledgers[b.ledger].pending = Nobody /\ LedgerTail(b.ledger) = b.tail
  /\ EventsDerive(b)
  /\ mechanism' = [mechanism EXCEPT !.left = @ \ {b}]

AllReplayed ==
  /\ InMechanism("REPLAYING") /\ mechanism.left = {}
  /\ {b.schedule.kind : b \in mechanism.picked} = Comparisons
  /\ mechanism' = [mechanism EXCEPT !.step = "REPLAYED"]

\* Mutant: a pass that stops at the first ledger it finds in place.
LookAtOne(b) ==
  /\ mechanism.step \in Passes /\ b \in mechanism.picked
  /\ ledgers[b.ledger].pending = Nobody /\ LedgerTail(b.ledger) = b.tail
  /\ mechanism' = [mechanism EXCEPT !.looked = mechanism.picked]

\* reverify_live_ledger_tails, one ledger of one pass.
LookAgain(b) ==
  /\ mechanism.step \in Passes /\ b \in mechanism.picked \ mechanism.looked
  /\ ledgers[b.ledger].pending = Nobody /\ LedgerTail(b.ledger) = b.tail
  /\ mechanism' = [mechanism EXCEPT !.looked = @ \cup {b}]

PassEnds(step, next) ==
  /\ InMechanism(step) /\ mechanism.looked = mechanism.picked
  /\ mechanism' = [mechanism EXCEPT !.step = next, !.looked = {}]

SummarizeEvents == PassEnds("REPLAYED", "SUMMARIZED")
StoreEvidence == PassEnds("SUMMARIZED", "STORED")
ReturnEvidence ==
  /\ InMechanism("STORED") /\ mechanism.looked = mechanism.picked
  /\ mechanism' = NoMechanism
MechanismRaises == ~InMechanism("IDLE") /\ mechanism' = NoMechanism

MechanismStep ==
  \/ \E picked \in SUBSET graded, live \in SUBSET DOMAIN ledgers : IndexLedgers(picked, live)
  \/ \E b \in graded : ReplayBatch(b) \/ LookAgain(b)
  \/ AllReplayed \/ SummarizeEvents \/ MechanismRaises

\* What a batch left on its ledger is there, and nothing else has followed.
Stands(b) ==
  LET ledger == ledgers[b.ledger]
  IN  /\ ledger.pending = Nobody
      /\ Len(ledger.outcomes) = b.boundary + RequiredAttempts
      /\ \A cell \in Cells :
           /\ ledger.outcomes[b.boundary + cell].owner = b.schedule
           /\ ledger.outcomes[b.boundary + cell].cell = cell
           /\ ledger.outcomes[b.boundary + cell].disposition = "SETTLED"

Publish(stage) ==
  evidence' = evidence \cup {[stage |-> stage, picked |-> mechanism.picked, stood |-> stood]}

\* A mark is set when the replays are done and when the evidence is stored.
Mark == mechanism'.step \in {"REPLAYED", "STORED"} /\ mechanism'.step # mechanism.step
Watch == stood' = ((stood /\ ~Mark) \/ \A b \in mechanism'.picked : Stands(b)')

FaultInit ==
  /\ BatchInit
  /\ runtime = [number |-> 1, events |-> {}] /\ graded = {}
  /\ mechanism = NoMechanism /\ stood = FALSE /\ evidence = {}

\* One verification at a time, and no batch beside it: others still hold the
\* ledgers.
FaultNext ==
  /\ \/ /\ InMechanism("IDLE")
        /\ \/ \E schedule \in FaultSchedules : OpenComparison(schedule)
           \/ \E used \in Usages : RuntimeReturns(used)
           \/ RestartRuntime \/ ComparisonRaises
           \/ ComparisonStep /\ UNCHANGED runtime
        /\ UNCHANGED <<graded, mechanism, evidence>>
     \/ GradeBatch /\ UNCHANGED <<mechanism, evidence>>
     \/ MechanismStep /\ UNCHANGED <<batchVars, runtime, graded, evidence>>
     \/ StoreEvidence /\ Publish("STORED") /\ UNCHANGED <<batchVars, runtime, graded>>
     \/ ReturnEvidence /\ Publish("RETURNED") /\ UNCHANGED <<batchVars, runtime, graded>>
     \/ /\ ~InMechanism("IDLE")
        /\ \E l \in DOMAIN ledgers : ForeignReserve(l) \/ ForeignConsume(l)
        /\ UNCHANGED <<runtime, graded, mechanism, evidence>>
  /\ Watch

FaultSpec == FaultInit /\ [][FaultNext]_faultVars

-----------------------------------------------------------------------------
(* Properties                                                              *)

FaultTypeOK ==
  /\ runtime.number \in 1 .. MaxRuntimes
  /\ \A b \in graded : b.schedule \in FaultSchedules /\ b.ledger \in DOMAIN ledgers
  /\ mechanism.picked \subseteq graded /\ mechanism.left \subseteq mechanism.picked
  /\ mechanism.looked \subseteq mechanism.picked /\ mechanism.live \subseteq DOMAIN ledgers
  /\ stood \in BOOLEAN /\ \A e \in evidence : e.picked \subseteq graded

\* The evidence is one picture although it is taken ledger by ledger while
\* others hold the ledgers.  When it is stored there has been an instant since
\* the replays, and when it is returned one since it was stored, at which all
\* three ledgers held exactly the settled calls of their batches, idle and
\* with nothing behind them; and the three are a main, a revert and a placebo
\* comparison on three ledgers.
EvidenceIsSnapshot ==
  \A e \in evidence :
    /\ e.stood
    /\ {b.schedule.kind : b \in e.picked} = Comparisons
    /\ Cardinality({b.ledger : b \in e.picked}) = 3
=============================================================================
