--------------------------- MODULE CampaignExecutor ---------------------------
(***************************************************************************)
(* experiments/bfcl_v4_public_v2_executor.py: executors that work through  *)
(* the nodes of a PublicCampaign against one durable checkpoint sink.      *)
(*                                                                         *)
(* A model call is reserved in the sink before the provider is called; an  *)
(* executor that resumes with a reservation burns the slot instead of      *)
(* calling again.  Executors die, checkpoints fail before or after they    *)
(* are stored, an executor is started again while another still waits for  *)
(* its provider, and it may be handed an old snapshot.                     *)
(***************************************************************************)
EXTENDS PublicCampaign

CONSTANTS Executors,
          MaxStarts,     \* bound: executors started, on whatever snapshot
          MaxFailures    \* bound: provider attempts that do not succeed

ASSUME ExecutorAssumption == MaxStarts \in Nat \ {0} /\ MaxFailures \in Nat

VARIABLES durable,   \* the snapshot the sink holds, Absent before the first
          exec,      \* the executors' local state
          called,    \* how often the provider was called for each slot
          starts, failures

vars == <<durable, exec, called, starts, failures>>

Snapshot(events, pending) == [events |-> events, pending |-> pending]
Empty == Snapshot(<<>>, Absent)
Down == [at |-> "DOWN", held |-> Empty, checkpoint |-> Absent, unlock |-> Absent,
         attempt |-> Absent]

\* The malformed ones pass the attempt's own validation and not the event's.
Attempts(s) ==
  {[disposition |-> "SUCCEEDED", response |-> r, proposal |-> p] :
     r \in Responses,
     p \in IF Nodes[s].kind = "PROPOSAL" THEN ProposalDispositions \cup {Absent} ELSE {Absent, "INVALID"}}
  \cup {[disposition |-> "PROVIDER_FAILURE", response |-> Absent, proposal |-> Absent]}
AnyAttempt == [disposition : Dispositions, response : Responses \cup {Absent},
               proposal : ProposalDispositions \cup {Absent}]
ASSUME AttemptAssumption == Absent \notin AnyAttempt
Burn == [disposition |-> "CRASH_RECOVERY_BURN", response |-> Absent, proposal |-> Absent]

-----------------------------------------------------------------------------
Next1(x) == Len(exec[x].held.events) + 1
HasNext(x) == Next1(x) \in Slots
Durable == IF durable = Absent THEN Empty ELSE durable

\* What the sink has held so far: OneHistory makes every earlier snapshot the
\* current one cut off, with the reservation of a call before its event.
Reservation(events) ==
  [slot |-> Len(events) + 1,
   unlock |-> IF IsEvaluation(Len(events) + 1) THEN SubSeq(events, 1, FirstEvaluation - 1)
              ELSE Absent]
Cut(n) == SubSeq(Durable.events, 1, n)
Stored ==
  ({durable} \ {Absent})
  \cup {Snapshot(Cut(n), Absent) : n \in 1 .. Len(Durable.events)}
  \cup {Snapshot(Cut(n), Reservation(Cut(n))) :
          n \in {m \in 0 .. Len(Durable.events) - 1 : IsCall(m + 1)}}

\* The sink compares the executor's last checkpoint with what it holds.
Current(x) == exec[x].checkpoint = durable
Store(snapshot) == durable' = snapshot
Become(x, state) == exec' = [exec EXCEPT ![x] = state]
Raises(x) == Become(x, Down)

\* Mutant: the sink stores without comparing.
CheckpointUnfenced(x, snapshot, accepted) ==
  \/ Store(snapshot) /\ Become(x, accepted)
  \/ UNCHANGED durable /\ Raises(x)

\* _checkpoint: accepted, or it raises without or after having stored.
Checkpoint(x, snapshot, accepted) ==
  \/ Current(x) /\ Store(snapshot) /\ Become(x, accepted)
  \/ Current(x) /\ Store(snapshot) /\ Raises(x)
  \/ UNCHANGED durable /\ Raises(x)

\* The snapshot once it is appended or reserved and acknowledged.
Advanced(x, snapshot) ==
  [exec[x] EXCEPT !.at = "NEXT", !.held = snapshot, !.checkpoint = snapshot, !.attempt = Absent]

\* append: the event is validated against the prefix before the checkpoint.
AppendNode(x, event) ==
  LET snapshot == Snapshot(Append(exec[x].held.events, event), Absent)
      reserved == IsCall(Next1(x)) => exec[x].held.pending # Absent
  IN  IF ValidEvent(exec[x].held.events, event) /\ reserved
      THEN Checkpoint(x, snapshot, Advanced(x, snapshot))
      ELSE Raises(x) /\ UNCHANGED durable

-----------------------------------------------------------------------------
Init ==
  /\ durable = Absent
  /\ exec = [x \in Executors |-> Down]
  /\ called = [s \in Slots |-> 0]
  /\ starts = 0 /\ failures = 0

\* A fresh executor, or one resuming any snapshot the sink ever held.
Start(x) ==
  /\ exec[x].at \in {"DOWN", "REFUSED"} /\ starts < MaxStarts
  /\ \/ Become(x, [Down EXCEPT !.at = "NEXT"])
     \/ \E snapshot \in Stored :
          /\ Replays(snapshot)
          /\ Become(x, [Down EXCEPT !.at = "NEXT", !.held = snapshot, !.checkpoint = snapshot])
  /\ starts' = starts + 1
  /\ UNCHANGED <<durable, called, failures>>

\* verify_bfcl_v4_public_v2_decision_barrier_snapshot
AtBarrier(snapshot) ==
  /\ snapshot.pending = Absent
  /\ Len(snapshot.events) + 1 = FirstEvaluation
  /\ Replays(snapshot)

NeedsAuthority(x) == HasNext(x) /\ IsEvaluation(Next1(x)) /\ exec[x].unlock = Absent

\* The grader issues an unlock for the verified barrier.
AuthorizeEvaluation(x) ==
  /\ exec[x].at = "NEXT" /\ NeedsAuthority(x)
  /\ AtBarrier(exec[x].held)
  /\ \/ Become(x, [exec[x] EXCEPT !.unlock = exec[x].held.events])
     \/ Raises(x)
  /\ UNCHANGED <<durable, called, starts, failures>>

RefuseEvaluation(x) ==
  /\ exec[x].at = "NEXT" /\ NeedsAuthority(x)
  /\ ~AtBarrier(exec[x].held)
  /\ Become(x, [exec[x] EXCEPT !.at = "REFUSED"])
  /\ UNCHANGED <<durable, called, starts, failures>>

\* At the top of the loop, with the authority an evaluation call needs.
AtCall(x) == /\ exec[x].at = "NEXT" /\ HasNext(x)
             /\ IsCall(Next1(x)) /\ ~NeedsAuthority(x)

\* Bind the dispatch (or raise) and reserve_call.
ReserveCall(x) ==
  LET snapshot == Snapshot(exec[x].held.events, [slot |-> Next1(x), unlock |-> exec[x].unlock])
  IN  /\ AtCall(x) /\ exec[x].held.pending = Absent
      /\ Checkpoint(x, snapshot, [Advanced(x, snapshot) EXCEPT !.at = "RESERVED"])
      /\ UNCHANGED <<called, starts, failures>>

\* execute_bfcl_v4_public_v2_dispatch: one call, whose exception is a failure.
ExecuteDispatch(x) ==
  LET s == Next1(x)
  IN  /\ exec[x].at = "RESERVED"
      /\ called' = [called EXCEPT ![s] = @ + 1]
      /\ \E attempt \in Attempts(s) :
           /\ attempt.disposition = "SUCCEEDED" \/ failures < MaxFailures
           /\ failures' = IF attempt.disposition = "SUCCEEDED" THEN failures ELSE failures + 1
           /\ Become(x, [exec[x] EXCEPT !.at = "RETURNED", !.attempt = attempt])
      /\ UNCHANGED <<durable, starts>>

\* _call_event
EventOf(x, attempt, grade, unlock) ==
  LET s == Next1(x)
      failed == attempt.disposition # "SUCCEEDED"
  IN  CallEvent(attempt.disposition, attempt.response, grade,
                IF Nodes[s].kind = "PROPOSAL" /\ failed THEN "PROVIDER_FAILURE"
                ELSE attempt.proposal,
                ExecutedVariant(exec[x].held.events, s), unlock)

\* A call without a graded answer counts as wrong where calls are graded.
Ungraded(s) == IF Nodes[s].kind \in GradableKinds THEN FALSE ELSE Absent

\* The attempt is graded, or its grader raises, and the event is appended.
AppendCall(x) ==
  LET s == Next1(x)
      attempt == exec[x].attempt
      gradable == Nodes[s].kind \in GradableKinds /\ attempt.disposition = "SUCCEEDED"
  IN  /\ exec[x].at = "RETURNED"
      /\ \/ \E grade \in IF gradable THEN BOOLEAN ELSE {Ungraded(s)} :
              AppendNode(x, EventOf(x, attempt, grade, exec[x].unlock))
         \/ gradable /\ Raises(x) /\ UNCHANGED durable
      /\ UNCHANGED <<called, starts, failures>>

\* Mutant: the recovered call is made again.
RetryPending(x) ==
  /\ AtCall(x) /\ exec[x].held.pending # Absent
  /\ Become(x, [exec[x] EXCEPT !.at = "RESERVED"])
  /\ UNCHANGED <<durable, called, starts, failures>>

\* A reservation found at the top of the loop is burned; its request must
\* carry the unlock this executor was issued.
BurnPending(x) ==
  LET pending == exec[x].held.pending
  IN  /\ AtCall(x) /\ pending # Absent
      /\ IF IsEvaluation(Next1(x)) /\ pending.unlock # exec[x].unlock
         THEN Raises(x) /\ UNCHANGED durable
         ELSE AppendNode(x, EventOf(x, Burn, Ungraded(Next1(x)), pending.unlock))
      /\ UNCHANGED <<called, starts, failures>>

AppendControl(x) ==
  /\ exec[x].at = "NEXT" /\ HasNext(x) /\ ~IsCall(Next1(x))
  /\ AppendNode(x, ControlAt(exec[x].held.events, Next1(x)))
  /\ UNCHANGED <<called, starts, failures>>

\* The process ends: the receipt was returned, it died, or a bind raised.
Stop(x) ==
  /\ exec[x].at # "DOWN"
  /\ Raises(x)
  /\ UNCHANGED <<durable, called, starts, failures>>

Next ==
  \E x \in Executors :
    \/ Start(x)
    \/ AuthorizeEvaluation(x) \/ RefuseEvaluation(x)
    \/ ReserveCall(x) \/ ExecuteDispatch(x) \/ AppendCall(x)
    \/ BurnPending(x) \/ AppendControl(x)
    \/ Stop(x)

Spec == Init /\ [][Next]_vars

-----------------------------------------------------------------------------
\* Executors hold, and compare the sink with, only what the sink has stored;
\* an unlock stands for the barrier prefix of the journal it is used on.
TypeOK ==
  /\ \A x \in Executors :
       /\ exec[x].at \in {"DOWN", "NEXT", "RESERVED", "RETURNED", "REFUSED"}
       /\ exec[x].checkpoint \in Stored \cup {Absent}
       /\ exec[x].held = IF exec[x].checkpoint = Absent THEN Empty ELSE exec[x].checkpoint
       /\ exec[x].unlock # Absent =>
            exec[x].unlock = SubSeq(exec[x].held.events, 1, FirstEvaluation - 1)
       /\ exec[x].at = "RETURNED" <=> exec[x].attempt # Absent
       /\ exec[x].at \in {"RESERVED", "RETURNED"} => exec[x].held.pending # Absent
  /\ called \in [Slots -> Nat]
  /\ starts \in 0 .. MaxStarts /\ failures \in 0 .. MaxFailures

\* BfclV4PublicV2CallReservation: recovery burns a claim instead of calling
\* again.  Over all executors, restarts, old snapshots and lost checkpoints
\* the provider is called at most once for a slot, every call it received is
\* in the journal or reserved there, and every attempt the journal counts as
\* consumed was made.
CallsAccounted ==
  \A s \in Slots :
    /\ called[s] <= 1
    /\ called[s] = 1 => \/ s \in DOMAIN Durable.events
                        \/ Durable.pending # Absent /\ Durable.pending.slot = s
    /\ (s \in DOMAIN Durable.events
         /\ Durable.events[s].disposition \in {"SUCCEEDED", "PROVIDER_FAILURE"}) => called[s] = 1

\* What executors hold and what they called, in one invariant.
ExecutorInv == TypeOK /\ CallsAccounted

\* Whatever executors ran, the sink's journal goes on from where it was: no
\* event is replaced, a reservation is followed by the event of its slot, and
\* what is stored verifies, so that a recovery can resume from it.
OneHistory ==
  [][durable' # durable
     => /\ Replays(durable')
        /\ \/ durable'.events = Durable.events /\ Durable.pending = Absent
           \/ /\ Len(durable'.events) = Len(Durable.events) + 1
              /\ IsPrefix(Durable.events, durable'.events)
              /\ IsCall(Len(durable'.events)) => Durable.pending # Absent]_vars

\* A held-out call runs a candidate only if a provider really proposed it and
\* none of the calls that decision rests on failed or was burned by a
\* recovery: a crash may cost a promotion and can never bring one about.
BurnedEvidenceNeverPromotes ==
  \A s \in DOMAIN Durable.events :
    (Nodes[s].kind = "HOLDOUT" /\ Nodes[s].arm \in AdaptiveArms
      /\ Durable.events[s].executed # <<"parent">>) =>
        LET arm == Nodes[s].arm
            c == Durable.events[s].executed[2]
        IN  \A t \in Evidence(arm, c) \cup {ProposalSlot(arm, c)} :
              called[t] = 1 /\ Succeeded(Durable.events[t])

\* Contracts: "recovery burns it instead of calling again", and
\* docs/iclr-2027/bfcl-v4-public-v2-executor.md: a resume converts the
\* reserved slot to CRASH_RECOVERY_BURN.  So no executor that resumed with a
\* reservation is turned away with it.
ReservationIsBurned ==
  \A x \in Executors : exec[x].at = "REFUSED" => exec[x].held.pending = Absent
=============================================================================
