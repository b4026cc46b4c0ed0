---------------------------- MODULE AttemptRunner ----------------------------
(***************************************************************************)
(* The runners of spiral_harness/execution over one shared attempt ledger: *)
(* a runner reserves, calls its backend once, stores the execution and     *)
(* consumes the reservation.  Each runner holds its own lock over the      *)
(* whole attempt and the ledger holds its lock over one call, so runners   *)
(* interleave between ledger calls.  The steps are those of the fixed      *)
(* runner (model.py).  The pure reference runner (pure_model.py) and the   *)
(* native-function runner (native_function_execution.py) each take a part  *)
(* of them; a native runner also gives every call a slot it uses once,     *)
(* remembered by the process only, and stores the response before it looks *)
(* at what the response cost.                                              *)
(***************************************************************************)
EXTENDS AttemptLedger

CONSTANTS Runners,      \* runner objects that share the ledger
          MaxFaults,    \* bound: repository writes that fail
          Slots,        \* slot fingerprints callers name
          Assignments   \* which kind each runner object is

Kinds == {"FIXED", "PURE", "NATIVE"}

ASSUME FaultAssumption == MaxFaults \in Nat
ASSUME AssignmentAssumption == Assignments \subseteq [Runners -> Kinds]

VARIABLES runner,      \* what each runner's execute_record call is doing
          faults,      \* repository writes that failed so far
          returned,    \* records handed to callers: [ticket, status, used]
          kind,        \* the class of each runner
          consumed,    \* NativeFunctionRunner._consumed_slots
          attempted    \* calls granted to this process: [runner, slot, ticket]

vars == <<ledgerVars, runner, faults, returned>>
slotVars == <<kind, consumed, attempted>>
allVars == <<vars, slotVars>>

Steps == {"idle", "scheduled", "calling", "succeeded", "settling",
          "failed", "burning", "compensating"}

\* expected: the tail the schedule named; ticket: this attempt's reservation;
\* ceiling: its effective_token_ceiling; used: the usage of the execution.
Idle == [step |-> "idle", expected |-> 0, ticket |-> 0, ceiling |-> 0, used |-> 0]

At(r, step) == runner[r].step = step
Goto(r, step) == runner' = [runner EXCEPT ![r].step = step]
GiveUp(r) == runner' = [runner EXCEPT ![r] = Idle]
Return(r, status) ==
  /\ returned' = returned \cup {[ticket |-> runner[r].ticket, status |-> status,
                                 used |-> runner[r].used]}
  /\ GiveUp(r)

\* A repository write fails, or its readback does: the artifact may exist but
\* no reference to it is handed on.
WriteFails == faults < MaxFaults /\ faults' = faults + 1

-----------------------------------------------------------------------------
(* execute_record: reserve before the backend is called                    *)

\* The caller names the boundary it scheduled; state() must replay to it.
Schedule(r) ==
  /\ At(r, "idle")
  /\ AuditSucceeds
  /\ runner' = [runner EXCEPT ![r] = [Idle EXCEPT !.step = "scheduled",
                                                  !.expected = checkpoint.tail]]
  /\ UNCHANGED <<ledgerVars, faults, returned>>

StartCall(r, ceiling) ==
  /\ Reserve(ceiling)
  /\ runner' = [runner EXCEPT ![r].step = "calling", ![r].ceiling = ceiling,
                              ![r].ticket = checkpoint.tail + 1]
  /\ UNCHANGED <<faults, returned>>

ReserveUnscheduled(r, ceiling) == At(r, "idle") /\ StartCall(r, ceiling)

\* Mutant: a scheduled attempt reserves wherever the tail is by now.
ReserveAnywhere(r, ceiling) == At(r, "scheduled") /\ StartCall(r, ceiling)

\* reserve_at_tail: the tail is compared again under the ledger's lock.
ReserveAtTail(r, ceiling) ==
  /\ At(r, "scheduled")
  /\ runner[r].expected = checkpoint.tail
  /\ StartCall(r, ceiling)

\* The reservation is refused and the call raises before the backend is
\* reached; a closed tip that no longer verifies also locks the ledger.
ReservationRefused(r) ==
  /\ At(r, "scheduled")
  /\ \/ /\ \/ runner[r].expected # checkpoint.tail
           \/ checkpoint.pending # 0
           \/ latched
           \/ TipVerifies /\ \E ceiling \in Ceilings : ~CanReserve(ceiling)
        /\ UNCHANGED ledgerVars
     \/ runner[r].expected = checkpoint.tail /\ RejectTip
  /\ GiveUp(r)
  /\ UNCHANGED <<faults, returned>>

ReservationNotStored(r) ==
  /\ At(r, "scheduled")
  /\ \E ceiling \in Ceilings : CanReserve(ceiling)
  /\ WriteFails
  /\ GiveUp(r)
  /\ UNCHANGED <<ledgerVars, returned>>

-----------------------------------------------------------------------------
(* The single backend call and what is made of its answer                  *)

\* A response that stays within the effective ceiling.
RespondWell(r, used) ==
  /\ At(r, "calling")
  /\ used <= runner[r].ceiling
  /\ runner' = [runner EXCEPT ![r].step = "succeeded", ![r].used = used]
  /\ UNCHANGED <<ledgerVars, faults, returned>>

\* An exception, a timeout, a rejected response or one over a ceiling.
RespondBadly(r, used) ==
  /\ At(r, "calling")
  /\ runner' = [runner EXCEPT ![r].step = "failed", ![r].used = used]
  /\ UNCHANGED <<ledgerVars, faults, returned>>

\* A runner that stores the response by itself fails to: the attempt is burned
\* with the usage reported.
ResponseNotStored(r, used) ==
  /\ At(r, "calling")
  /\ runner' = [runner EXCEPT ![r].step = "compensating", ![r].used = used]
  /\ WriteFails
  /\ UNCHANGED <<ledgerVars, returned>>

Persist(r) ==
  /\ \/ At(r, "succeeded") /\ Goto(r, "settling")
     \/ At(r, "failed") /\ Goto(r, "burning")
  /\ UNCHANGED <<ledgerVars, faults, returned>>

\* _persist_execution raises.  A failed attempt is burned with the usage it
\* reported; after a successful call nothing handles the error, and the
\* attempt is left with its reservation open.
PersistFails(r) ==
  /\ \/ At(r, "succeeded") /\ GiveUp(r)
     \/ At(r, "failed") /\ Goto(r, "compensating")
  /\ WriteFails
  /\ UNCHANGED <<ledgerVars, returned>>

\* Mutant: the record is returned before its reservation is consumed.
ReturnEarly(r) ==
  /\ At(r, "settling") \/ At(r, "burning")
  /\ Return(r, IF At(r, "settling") THEN "completed" ELSE "failed")
  /\ UNCHANGED <<ledgerVars, faults>>

\* The reservation is consumed and the record returned.
Consume(r) ==
  \/ At(r, "settling") /\ Settle(runner[r].ticket, runner[r].used)
       /\ Return(r, "completed") /\ UNCHANGED faults
  \/ At(r, "burning") /\ Burn(runner[r].ticket, runner[r].used)
       /\ Return(r, "failed") /\ UNCHANGED faults

\* Mutant: only a failed settlement is handled.
AfterFailedSettle(r) == At(r, "settling") /\ Goto(r, "compensating")

\* settle or burn raises: a settlement that failed is compensated by a burn,
\* a burn that failed is only reported.
AfterFailedConsume(r) ==
  \/ At(r, "settling") /\ Goto(r, "compensating")
  \/ At(r, "burning") /\ GiveUp(r)

ConsumeFails(r) ==
  /\ \/ CanConsume(runner[r].ticket) /\ WriteFails /\ UNCHANGED ledgerVars
     \/ RejectPending(runner[r].ticket) /\ UNCHANGED faults
     \/ latched /\ UNCHANGED <<ledgerVars, faults>>
  /\ AfterFailedConsume(r)
  /\ UNCHANGED returned

\* The suppressed compensating burn; the attempt raises whatever it does.
Compensate(r) ==
  /\ At(r, "compensating")
  /\ \/ Burn(runner[r].ticket, runner[r].used) /\ UNCHANGED faults
     \/ CanConsume(runner[r].ticket) /\ WriteFails /\ UNCHANGED ledgerVars
     \/ RejectPending(runner[r].ticket) /\ UNCHANGED faults
     \/ latched /\ UNCHANGED <<ledgerVars, faults>>
  /\ GiveUp(r)
  /\ UNCHANGED returned

-----------------------------------------------------------------------------
(* The environment: an auditor, storage damage, the process dying          *)

\* An auditor replays the chain, or a reservation meets a tip that does not verify.
Audit == (FailedAudit \/ RejectTip) /\ UNCHANGED <<runner, faults, returned>>

Corrupt == \E ref \in 1 .. checkpoint.tail :
             Damage(ref) /\ UNCHANGED <<runner, faults, returned>>

\* The process ends in the middle of anything and a new one opens the chain.
Restart ==
  /\ Reopen
  /\ runner' = [r \in Runners |-> Idle]
  /\ UNCHANGED <<faults, returned>>

Init ==
  /\ LedgerInit
  /\ runner = [r \in Runners |-> Idle]
  /\ faults = 0
  /\ returned = {}

Begin(r) == \/ Schedule(r)
            \/ \E ceiling \in Ceilings : ReserveUnscheduled(r, ceiling)

\* What a runner does once its call has begun: it obtains its place,
PlaceScheduled(r) ==
  \/ \E ceiling \in Ceilings : ReserveAtTail(r, ceiling)
  \/ ReservationRefused(r)
  \/ ReservationNotStored(r)

\* the answer of its backend,
Answer(r) == \E used \in Reported : RespondWell(r, used) \/ RespondBadly(r, used)

\* and the accounting of what became of it.
Account(r) == Persist(r) \/ PersistFails(r) \/ Consume(r) \/ ConsumeFails(r) \/ Compensate(r)

Advance(r) ==
  \/ PlaceScheduled(r)
  \/ Answer(r)
  \/ \E used \in Reported : ResponseNotStored(r, used)
  \/ Account(r)

Next ==
  \/ \E r \in Runners : Begin(r) \/ Advance(r)
  \/ Audit
  \/ Corrupt
  \/ Restart

Spec == Init /\ [][Next]_vars

-----------------------------------------------------------------------------
(* Which of these steps each kind of runner takes                          *)

Is(r, k) == kind[r] = k /\ UNCHANGED kind
Stateless(r, k) == Is(r, k) /\ UNCHANGED <<consumed, attempted>>

-----------------------------------------------------------------------------
(* PureReferenceRunner: no schedule, one request, no stored response       *)

PureReserve(r) == Stateless(r, "PURE") /\ \E ceiling \in Ceilings : ReserveUnscheduled(r, ceiling)
PureAnswer(r)  == Stateless(r, "PURE") /\ Answer(r)
PureAccount(r) == Stateless(r, "PURE") /\ Account(r)

-----------------------------------------------------------------------------
(* NativeFunctionRunner: a slot is consumed with its reservation           *)

Free(r) == Slots \ consumed[r]

\* Mutant: only the reservation is recorded.
KeepSlot(r, slot) ==
  /\ attempted' = attempted \cup {[runner |-> r, slot |-> slot,
                                   ticket |-> checkpoint.tail + 1]}
  /\ UNCHANGED consumed

ConsumeSlot(r, slot) ==
  /\ attempted' = attempted \cup {[runner |-> r, slot |-> slot,
                                   ticket |-> checkpoint.tail + 1]}
  /\ consumed' = [consumed EXCEPT ![r] = @ \cup {slot}]

\* A call on a consumed slot raises; the caller may name the tail it has read.
NativeSchedule(r) == Stateless(r, "NATIVE") /\ Free(r) # {} /\ Schedule(r)

\* The slot is consumed once the reservation is granted, and stays so
\* whatever becomes of the call.
NativeReserve(r) ==
  /\ Is(r, "NATIVE")
  /\ \E ceiling \in Ceilings : ReserveUnscheduled(r, ceiling)
  /\ \E slot \in Free(r) : ConsumeSlot(r, slot)

NativeReserveAtTail(r) ==
  /\ Is(r, "NATIVE")
  /\ \E ceiling \in Ceilings : ReserveAtTail(r, ceiling)
  /\ \E slot \in Free(r) : ConsumeSlot(r, slot)

\* A reservation that was not granted leaves the slot to a later call.
NativeRefused(r) ==
  Stateless(r, "NATIVE") /\ (ReservationRefused(r) \/ ReservationNotStored(r))

NativeAnswer(r) ==
  /\ Stateless(r, "NATIVE")
  /\ Answer(r) \/ \E used \in Reported : ResponseNotStored(r, used)

NativeAccount(r) == Stateless(r, "NATIVE") /\ Account(r)

-----------------------------------------------------------------------------
\* The environment; a new process has consumed nothing.
Unattended == (Audit \/ Corrupt) /\ UNCHANGED slotVars

RestartRunners ==
  /\ Restart
  /\ consumed' = [r \in Runners |-> {}]
  /\ attempted' = {}
  /\ UNCHANGED kind

FunctionInit ==
  /\ Init
  /\ kind \in Assignments
  /\ consumed = [r \in Runners |-> {}]
  /\ attempted = {}

BeginCall(r) ==
  \/ Stateless(r, "FIXED") /\ Begin(r)
  \/ PureReserve(r)
  \/ NativeSchedule(r)
  \/ NativeReserve(r)

ContinueCall(r) ==
  \/ Stateless(r, "FIXED") /\ (PlaceScheduled(r) \/ Answer(r) \/ Account(r))
  \/ PureAnswer(r)
  \/ PureAccount(r)
  \/ NativeReserveAtTail(r)
  \/ NativeRefused(r)
  \/ NativeAnswer(r)
  \/ NativeAccount(r)

FunctionNext ==
  \/ \E r \in Runners : BeginCall(r) \/ ContinueCall(r)
  \/ Unattended
  \/ RestartRunners

FunctionSpec == FunctionInit /\ [][FunctionNext]_allVars

\* A call that has begun keeps running: its thread is never descheduled for
\* good and a backend answers, raises or times out.
FairSpec == FunctionSpec /\ \A r \in Runners : WF_allVars(ContinueCall(r))

-----------------------------------------------------------------------------
(* Every variable of the runners stays in its type.                        *)
RunnerTypeOK ==
  /\ runner \in [Runners -> [step : Steps, expected : Nat, ticket : Nat,
                             ceiling : 0 .. MaxTokensPerAttempt,
                             used : Reported]]
  /\ faults \in 0 .. MaxFaults
  /\ returned \subseteq [ticket : Nat, status : {"completed", "failed"},
                         used : Reported]

TypeOK == LedgerTypeOK /\ RunnerTypeOK

\* Steps between a granted reservation and its outcome.
HoldsTicket(r) == runner[r].step \notin {"idle", "scheduled"}

(* While a runner has a backend call or its accounting in flight, the open  *)
(* reservation of the chain is its own, for the ceiling it enforces, and no *)
(* other runner is in that position: a call is never made on a reservation  *)
(* that somebody else may consume (model.py 335-503).                       *)
CallHoldsReservation ==
  /\ \A r \in Runners : HoldsTicket(r) =>
       /\ runner[r].ticket = checkpoint.pending
       /\ checkpoint.pending # 0
       /\ PendingReservation = [epoch |-> writerEpoch, tokens |-> runner[r].ceiling]
  /\ \A r, s \in Runners : HoldsTicket(r) /\ HoldsTicket(s) => r = s

(* No result escapes without terminal accounting (model.py 487): a record   *)
(* handed to a caller names a reservation that has its outcome, a completed *)
(* one was settled at the usage it reports, a failed one was burned or      *)
(* poisoned, and no reservation is returned twice.                          *)
ReturnedIsAccounted ==
  /\ \A record \in returned : \E k \in DOMAIN outcomes :
       /\ record.ticket = 2 * k - 1
       /\ record.used = outcomes[k].reported
       /\ outcomes[k].disposition \in
            IF record.status = "completed" THEN {"SETTLED"} ELSE {"BURNED", "POISONED"}
  /\ \A a, b \in returned : a.ticket = b.ticket => a = b

(* A scheduled attempt reserves directly behind the tail its schedule named *)
(* even when another runner completes an attempt between the replay of the  *)
(* tail and the reservation (reserve_at_tail).                              *)
ScheduledPlaceKept ==
  [][\A r \in Runners : At(r, "scheduled") /\ runner'[r].step = "calling"
        => runner'[r].ticket = runner[r].expected + 1]_vars

(* Whatever fails or locks, every attempt comes back to its caller, and its  *)
(* reservation is consumed on the way (settle or burn on every path of       *)
(* _execute_record) unless a write failed, an artifact was damaged or the    *)
(* process died.                                                             *)
CallsComeBack ==
  /\ \A r \in Runners : ~At(r, "idle") ~> At(r, "idle")
  /\ checkpoint.pending # 0 ~>
       \/ checkpoint.pending = 0
       \/ faults > 0 \/ damaged # {} \/ writerEpoch > 1

(* The verification protocol's account of the runner ("settles success or   *)
(* burns failure afterward"): an attempt that ends with the execution it    *)
(* obtained still to be stored has not left its reservation open.           *)
NoAbandonedReservation ==
  [][\A r \in Runners :
       runner[r].step \in {"succeeded", "failed"} /\ runner'[r].step = "idle"
         /\ writerEpoch' = writerEpoch
       => checkpoint'.pending # runner[r].ticket]_vars

(* Every variable of the three kinds of runner stays in its type.          *)
SlotTypeOK ==
  /\ kind \in Assignments
  /\ consumed \in [Runners -> SUBSET Slots]
  /\ attempted \subseteq [runner : Runners, slot : Slots, ticket : Nat]

(* A native runner calls its backend at most once for a slot as long as its *)
(* process lives, however the call ended: a timeout, a rejected response,   *)
(* one that could not be stored, or accounting that failed do not make the  *)
(* slot callable again (native_function_execution.py 182, 217).             *)
SlotsCallOnce ==
  \A a, b \in attempted :
    a.runner = b.runner /\ a.slot = b.slot => a = b

(* The types of all runners, and single use of the native slots.           *)
RunnersInv == TypeOK /\ SlotTypeOK /\ SlotsCallOnce
==============================================================================
