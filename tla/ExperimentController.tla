------------------------- MODULE ExperimentController -------------------------
(***************************************************************************)
(* experiments/controller.py: the single-writer controller of one frozen   *)
(* experiment, with the usage ledger (experiment_usage.py,                 *)
(* skill_probe_usage_ledger.py), the skill-probe grants                    *)
(* (skill_probe_authorization.py) and the matched probe execution          *)
(* (skill_probe_execution.py) it drives.                                   *)
(*                                                                         *)
(* Two activities interleave.  One caller moves the experiment and its     *)
(* candidates through their lifecycles, an atomic step per method.  One    *)
(* worker at a time holds _state_lock to execute a matched probe or to     *)
(* complete gate evidence, a step per point at which the caller's          *)
(* lifecycle methods, which take no lock, may come between.                *)
(*                                                                         *)
(* A candidate enters a lifecycle state once, so its journal tail is its   *)
(* state, and it has one RUNNING_PROBES head, so a grant is named by its   *)
(* candidate.  A usage entry holds its cumulative totals, as in the code.  *)
(***************************************************************************)
EXTENDS Integers, Sequences, FiniteSets

CONSTANTS Candidates,        \* candidate manifests; a child harness is its candidate
          SkillCandidates,   \* those with a preregistered skill mechanism plan
          Seed,              \* the seed harness
          MaxEvaluations,    \* BudgetPolicy.max_evaluations
          MaxTokens,         \* BudgetPolicy.max_tokens
          GateEvaluations,   \* observations in the two gate batches
          GateTokens,        \* token charges a gate evaluation may carry
          ProbeEvaluations,  \* attempts in the two probe schedules
          ArmTokens,         \* required_tokens of one probe schedule
          AttemptTokens,     \* token_ceiling_per_attempt of a probe schedule
          ArmCharges,        \* tokens an executed arm may encumber
          MaxFaults,         \* bound: storage operations that fail
          MaxRestarts        \* bound: controller objects opened later

ASSUME CandidateAssumption ==
  /\ SkillCandidates \subseteq Candidates
  /\ Seed \notin Candidates

ASSUME BudgetAssumption ==
  /\ {MaxEvaluations, GateEvaluations, ProbeEvaluations} \subseteq Nat \ {0}
  /\ {MaxTokens, ArmTokens, AttemptTokens} \subseteq Nat \ {0}
  /\ AttemptTokens <= ArmTokens
  /\ GateTokens \subseteq Nat
  /\ ArmCharges \subseteq Nat

ASSUME BoundAssumption == MaxFaults \in Nat /\ MaxRestarts \in Nat

VARIABLES experiment,   \* state of the experiment lifecycle, "NONE" before FROZEN
          closure,      \* champion and usage length the SelectionClosure binds
          candidate,    \* lifecycle state of every candidate
          parent,       \* parent harness of a registered candidate
          champion,     \* _champion_harness_ref
          grant,        \* execution grant of a candidate's probe head
          usage,        \* the usage chain from its root to _usage_tail_ref
          blocked,      \* _usage_accounting_blocked
          resumed,      \* _candidate_resume_blocked
          worker,       \* what the holder of _state_lock is doing
          results,      \* candidates whose matched execution was returned
          unread,       \* history: candidates whose settlement could not read the ledger
          faults, restarts

controlVars == <<experiment, closure, candidate, parent, champion>>
ledgerVars == <<usage, blocked>>
boundVars == <<faults, restarts>>
vars == <<controlVars, grant, ledgerVars, resumed, worker, results, unread, boundVars>>

ExperimentStates == {"NONE", "FROZEN", "SEARCHING", "SELECTION_CLOSED",
                     "SEALED_RUNNING", "COMPLETE", "INVALIDATED"}
TerminalExperiment == {"COMPLETE", "INVALIDATED"}
Selected == {"SELECTION_CLOSED", "SEALED_RUNNING", "COMPLETE"}

CandidateStates == {"UNREGISTERED", "REGISTERED", "VALID", "INVALID", "RUNNING_PROBES",
                    "RUNNING_GATE", "EVIDENCE_COMPLETE", "PROMOTED", "REJECTED",
                    "INCONCLUSIVE"}
TerminalCandidate == {"INVALID", "PROMOTED", "REJECTED", "INCONCLUSIVE"}

Harnesses == Candidates \cup {Seed}
ProbeTokens == 2 * ArmTokens        \* both schedules together
SettlementKinds == {"COMPLETED", "FAILED"}

Entry == [kind : {"GATE", "RESERVED"} \cup SettlementKinds, candidate : Candidates,
          evaluations : Nat, tokens : Nat, poisoned : BOOLEAN]

-----------------------------------------------------------------------------
(* The usage ledger                                                        *)

\* Cumulative totals after the first n entries.
EvaluationsAt(n) == IF n = 0 THEN 0 ELSE usage[n].evaluations
TokensAt(n) == IF n = 0 THEN 0 ELSE usage[n].tokens

TotalEvaluations == EvaluationsAt(Len(usage))
TotalTokens == TokensAt(Len(usage))
Poisoned == usage # <<>> /\ usage[Len(usage)].poisoned

EntriesOf(c, kinds) ==
  {i \in DOMAIN usage : usage[i].candidate = c /\ usage[i].kind \in kinds}

Charged(c) == EntriesOf(c, {"GATE"}) # {}
Reserved(c) == EntriesOf(c, {"RESERVED"}) # {}
Settled(c) == EntriesOf(c, SettlementKinds) # {}

NewEntry(kind, c, evaluations, tokens, poisoned) ==
  [kind |-> kind, candidate |-> c, evaluations |-> TotalEvaluations + evaluations,
   tokens |-> TotalTokens + tokens, poisoned |-> poisoned]

\* Mutant: the token ceiling is compared before the charge is added.
FitsBeforeCharge(evaluations, tokens) ==
  /\ TotalEvaluations + evaluations <= MaxEvaluations
  /\ TotalTokens <= MaxTokens

\* enforce_budget and _enforce_reservation_budget
Fits(evaluations, tokens) ==
  /\ TotalEvaluations + evaluations <= MaxEvaluations
  /\ TotalTokens + tokens <= MaxTokens

\* The charge replay recomputes for entry i from its claim.
ChargeVerifies(i) ==
  LET evaluations == usage[i].evaluations - EvaluationsAt(i - 1)
      tokens == usage[i].tokens - TokensAt(i - 1)
  IN  CASE usage[i].kind = "GATE" ->
             evaluations = GateEvaluations /\ tokens \in GateTokens
        [] usage[i].kind = "RESERVED" ->
             evaluations = ProbeEvaluations /\ tokens = ProbeTokens
        [] OTHER ->
             evaluations = 0 /\ tokens >= 0 /\ (tokens > 0 => usage[i].poisoned)

Claim(i) == IF usage[i].kind \in SettlementKinds THEN "SETTLEMENT" ELSE usage[i].kind

\* ExperimentUsageLedger.replay: a walk of the chain raises nothing.
UsageReplays ==
  \A i \in DOMAIN usage :
    /\ ChargeVerifies(i)
    /\ usage[i].poisoned => i = Len(usage) /\ Claim(i) = "SETTLEMENT"
    /\ ~usage[i].poisoned => /\ usage[i].evaluations <= MaxEvaluations
                             /\ usage[i].tokens <= MaxTokens
    /\ \A j \in 1 .. i - 1 :
         usage[j].candidate = usage[i].candidate => Claim(j) # Claim(i)
    /\ Claim(i) = "SETTLEMENT" =>
         \E j \in 1 .. i - 1 :
           usage[j].candidate = usage[i].candidate /\ usage[j].kind = "RESERVED"

\* _require_accounting_open
AccountingOpen == ~blocked /\ UsageReplays /\ ~Poisoned

\* _require_searching
Searching == AccountingOpen /\ experiment = "SEARCHING" /\ ~resumed

\* _verify_current_skill_probe_execution_authorization
Current(c) == Searching /\ candidate[c] = "RUNNING_PROBES"

-----------------------------------------------------------------------------
(* The worker that holds _state_lock                                       *)

Idle == [step |-> "IDLE"]
ProbeSteps == {"RESERVE", "BEGIN", "REVERT", "PLACEBO", "CLOSE", "VERIFY", "SETTLE"}
ExecutionSteps == ProbeSteps \ {"RESERVE", "BEGIN"}
EvidenceSteps == {"APPEND", "CHARGE"}

\* head is the length of the usage chain the caller knows: it cannot read the
\* head while the lock is held.  tokens is what the arms encumbered, or the
\* charge of a gate evaluation.
Holding == [step : ProbeSteps \cup EvidenceSteps, candidate : Candidates, head : Nat,
            tokens : Nat, poisoned : BOOLEAN, kind : {"GATE"} \cup SettlementKinds]

Unlocked == worker = Idle
At(step) == ~Unlocked /\ worker.step = step
Working(c) == ~Unlocked /\ worker.candidate = c

Lock(step, c, tokens, kind) ==
  worker' = [step |-> step, candidate |-> c, head |-> Len(usage),
             tokens |-> tokens, poisoned |-> FALSE, kind |-> kind]
GoTo(step) == worker' = [worker EXCEPT !.step = step]
Unlock == worker' = Idle

\* A storage operation of the worker fails.
Fault == faults < MaxFaults /\ faults' = faults + 1 /\ UNCHANGED restarts

-----------------------------------------------------------------------------
(* execute_matched_skill_probes                                            *)

\* The preflight of _execute_matched_skill_probes: an issued grant, whether or
\* not it was started, whose probe head is current.
BeginExecution(c) ==
  /\ Unlocked
  /\ grant[c] # "NONE"
  /\ Current(c)
  /\ Lock("RESERVE", c, 0, "FAILED")
  /\ UNCHANGED <<controlVars, grant, ledgerVars, resumed, results, unread, boundVars>>

\* Both schedules are charged before the grant is consumed; the reservation of
\* an earlier call is found again and charges nothing.
ReserveProbe ==
  /\ At("RESERVE")
  /\ AccountingOpen
  /\ IF Reserved(worker.candidate)
     THEN usage' = usage
     ELSE /\ Fits(ProbeEvaluations, ProbeTokens)
          /\ usage' = Append(usage, NewEntry("RESERVED", worker.candidate,
                                             ProbeEvaluations, ProbeTokens, FALSE))
  /\ GoTo("BEGIN")
  /\ UNCHANGED <<controlVars, grant, blocked, resumed, results, unread, boundVars>>

\* The budget refuses the reservation, or the ledger cannot be read or written.
ReservationFails ==
  /\ At("RESERVE")
  /\ \/ /\ ~Reserved(worker.candidate)
        /\ ~Fits(ProbeEvaluations, ProbeTokens)
        /\ UNCHANGED boundVars
     \/ Fault
  /\ Unlock
  /\ UNCHANGED <<controlVars, grant, ledgerVars, resumed, results, unread>>

\* Mutant: a grant whose check fails is refused before it is burned, and the
\* reservation made for it is left as it is.
BeginGrantUnburned ==
  /\ At("BEGIN")
  /\ grant[worker.candidate] = "ISSUED"
  /\ IF Current(worker.candidate)
     THEN /\ grant' = [grant EXCEPT ![worker.candidate] = "STARTED"]
          /\ GoTo("REVERT")
     ELSE grant' = grant /\ Unlock
  /\ UNCHANGED <<controlVars, ledgerVars, resumed, results, unread, boundVars>>

\* Starting burns the grant before the lifecycle is checked again; a grant that
\* is no longer current is settled as failed, with no arm executed.
BeginGrant ==
  /\ At("BEGIN")
  /\ grant[worker.candidate] = "ISSUED"
  /\ grant' = [grant EXCEPT ![worker.candidate] = "STARTED"]
  /\ \/ /\ GoTo(IF Current(worker.candidate) THEN "REVERT" ELSE "SETTLE")
        /\ UNCHANGED boundVars
     \/ GoTo("SETTLE") /\ Fault
  /\ UNCHANGED <<controlVars, ledgerVars, resumed, results, unread>>

\* A started grant is refused; its settlement belongs to the call that started it.
RefuseStartedGrant ==
  /\ At("BEGIN")
  /\ grant[worker.candidate] # "ISSUED"
  /\ Unlock
  /\ UNCHANGED <<controlVars, grant, ledgerVars, resumed, results, unread, boundVars>>

\* Every attempt of one arm settles on its first try, within its ceiling.
ArmSettles(arm, next, encumbered) ==
  /\ At(arm)
  /\ encumbered <= ArmTokens
  /\ worker' = [worker EXCEPT !.step = next, !.tokens = @ + encumbered]
  /\ UNCHANGED <<controlVars, grant, ledgerVars, resumed, results, unread, boundVars>>

\* An attempt fails or burns, or overruns its ceiling and poisons the arm; the
\* other arm is not entered.
ArmFails(arm, encumbered, poisons) ==
  /\ At(arm)
  /\ IF poisons THEN encumbered > AttemptTokens ELSE encumbered <= ArmTokens
  /\ worker' = [worker EXCEPT !.step = "SETTLE", !.tokens = @ + encumbered,
                              !.poisoned = poisons]
  /\ UNCHANGED <<controlVars, grant, ledgerVars, resumed, results, unread, boundVars>>

RunRevert ==
  \E e \in ArmCharges : \/ ArmSettles("REVERT", "PLACEBO", e)
                        \/ \E p \in BOOLEAN : ArmFails("REVERT", e, p)
RunPlacebo ==
  \E e \in ArmCharges : \/ ArmSettles("PLACEBO", "CLOSE", e)
                        \/ \E p \in BOOLEAN : ArmFails("PLACEBO", e, p)

\* register_closure binds the closure first and checks the lifecycle second.
CloseExecution ==
  /\ At("CLOSE")
  /\ grant' = [grant EXCEPT ![worker.candidate] = "CLOSED"]
  /\ GoTo(IF Current(worker.candidate) THEN "VERIFY" ELSE "SETTLE")
  /\ UNCHANGED <<controlVars, ledgerVars, resumed, results, unread, boundVars>>

\* The closure is not stored.
CloseFails ==
  /\ At("CLOSE")
  /\ GoTo("SETTLE")
  /\ Fault
  /\ UNCHANGED <<controlVars, grant, ledgerVars, resumed, results, unread>>

\* _verify_matched_skill_probe_result, under the current lifecycle.
VerifyResult ==
  /\ At("VERIFY")
  /\ \/ /\ worker' = [worker EXCEPT !.step = "SETTLE",
                        !.kind = IF Current(worker.candidate) THEN "COMPLETED" ELSE "FAILED"]
        /\ UNCHANGED boundVars
     \/ GoTo("SETTLE") /\ Fault
  /\ UNCHANGED <<controlVars, grant, ledgerVars, resumed, results, unread>>

\* max(0, encumbered - reserved)
Overrun == IF worker.tokens > ProbeTokens THEN worker.tokens - ProbeTokens ELSE 0

SettlementOf(adjustment) ==
  Append(usage, NewEntry(worker.kind, worker.candidate, 0, adjustment, worker.poisoned))

\* Mutant: settlement needs an experiment that is still searching.
SettleProbeSearching ==
  /\ At("SETTLE")
  /\ Searching
  /\ usage' = SettlementOf(Overrun)
  /\ blocked' = worker.poisoned
  /\ results' = IF worker.kind = "COMPLETED" THEN results \cup {worker.candidate} ELSE results
  /\ Unlock
  /\ UNCHANGED <<controlVars, grant, resumed, unread, boundVars>>

\* The finally clause: the terminal adjustment, whatever the lifecycle now is.
SettleProbe ==
  /\ At("SETTLE")
  /\ AccountingOpen
  /\ usage' = SettlementOf(Overrun)
  /\ blocked' = worker.poisoned
  /\ results' = IF worker.kind = "COMPLETED" THEN results \cup {worker.candidate} ELSE results
  /\ Unlock
  /\ UNCHANGED <<controlVars, grant, resumed, unread, boundVars>>

\* _require_accounting_open, outside the try, cannot read the ledger: the call
\* raises with the reservation open and the accounting too.
SettlementUnread ==
  /\ At("SETTLE")
  /\ unread' = unread \cup {worker.candidate}
  /\ Unlock
  /\ Fault
  /\ UNCHANGED <<controlVars, grant, ledgerVars, resumed, results>>

\* A settlement that cannot be stored closes the accounting for good.
SettlementFails ==
  /\ At("SETTLE")
  /\ blocked' = TRUE
  /\ Unlock
  /\ Fault
  /\ UNCHANGED <<controlVars, grant, usage, resumed, results, unread>>

\* The settlement is stored and its head taken, and the replay that asks whether
\* it is poisoned fails: the execution is not returned.
SettlementUnseen ==
  /\ At("SETTLE")
  /\ AccountingOpen
  /\ usage' = SettlementOf(Overrun)
  /\ Unlock
  /\ Fault
  /\ UNCHANGED <<controlVars, grant, blocked, resumed, results, unread>>

\* Any later call that asks for open accounting finds the poisoned head and
\* is refused.
FindPoison ==
  /\ Poisoned /\ ~blocked
  /\ blocked' = TRUE
  /\ UNCHANGED <<controlVars, grant, usage, resumed, worker, results, unread, boundVars>>

-----------------------------------------------------------------------------
(* complete_evidence                                                       *)

\* _complete_evidence up to its writes: one uncharged evaluation that fits.
CheckEvidence(c, tokens) ==
  /\ Unlocked
  /\ Searching
  /\ candidate[c] = "RUNNING_GATE"
  /\ ~Charged(c)
  /\ Fits(GateEvaluations, tokens)
  /\ Lock("APPEND", c, tokens, "GATE")
  /\ UNCHANGED <<controlVars, grant, ledgerVars, resumed, results, unread, boundVars>>

\* The claim and the entry are stored, then the candidate event is appended.
AppendEvidence ==
  /\ At("APPEND")
  /\ candidate' = [candidate EXCEPT ![worker.candidate] = "EVIDENCE_COMPLETE"]
  /\ GoTo("CHARGE")
  /\ UNCHANGED <<experiment, closure, parent, champion, grant, ledgerVars, resumed,
                 results, unread, boundVars>>

AppendEvidenceFails ==
  /\ At("APPEND")
  /\ Unlock
  /\ Fault
  /\ UNCHANGED <<controlVars, grant, ledgerVars, resumed, results, unread>>

\* The usage head advances to the entry the candidate event already names.
ChargeEvidence ==
  /\ At("CHARGE")
  /\ usage' = Append(usage, NewEntry("GATE", worker.candidate, GateEvaluations,
                                     worker.tokens, FALSE))
  /\ Unlock
  /\ UNCHANGED <<controlVars, grant, blocked, resumed, results, unread, boundVars>>

-----------------------------------------------------------------------------
(* The experiment lifecycle                                                *)

Freeze ==
  /\ experiment = "NONE"
  /\ experiment' = "FROZEN"
  /\ UNCHANGED <<closure, candidate, parent, champion, grant, ledgerVars, resumed,
                 worker, results, unread, boundVars>>

\* Mutant: search opens on whatever was spent before.
StartSearchSpent ==
  /\ experiment = "FROZEN"
  /\ experiment' = "SEARCHING"
  /\ UNCHANGED <<closure, candidate, parent, champion, grant, ledgerVars, resumed,
                 worker, results, unread, boundVars>>

StartSearch ==
  /\ experiment = "FROZEN"
  /\ usage = <<>>
  /\ experiment' = "SEARCHING"
  /\ UNCHANGED <<closure, candidate, parent, champion, grant, ledgerVars, resumed,
                 worker, results, unread, boundVars>>

Active == {c \in Candidates : candidate[c] \notin TerminalCandidate \cup {"UNREGISTERED"}}

\* Mutant: selection closes without waiting for the lock.
CloseSelectionUnlocked ==
  /\ Searching
  /\ Active = {}
  /\ champion # Seed => Charged(champion)
  /\ experiment' = "SELECTION_CLOSED"
  /\ closure' = [champion |-> champion, usage |-> Len(usage)]
  /\ UNCHANGED <<candidate, parent, champion, grant, ledgerVars, resumed, worker,
                 results, unread, boundVars>>

\* close_selection and close_current_selection, under the lock.
CloseSelection ==
  /\ Unlocked
  /\ Searching
  /\ Active = {}
  /\ champion # Seed => candidate[champion] = "PROMOTED" /\ Charged(champion)
  /\ experiment' = "SELECTION_CLOSED"
  /\ closure' = [champion |-> champion, usage |-> Len(usage)]
  /\ UNCHANGED <<candidate, parent, champion, grant, ledgerVars, resumed, worker,
                 results, unread, boundVars>>

\* start_sealed and complete_experiment compare the usage head that the closure
\* (through the authorization) binds; they do not ask for open accounting.
Advance(from, to) ==
  /\ experiment = from
  /\ closure.usage = Len(usage)
  /\ experiment' = to
  /\ UNCHANGED <<closure, candidate, parent, champion, grant, ledgerVars, resumed,
                 worker, results, unread, boundVars>>

StartSealed == Advance("SELECTION_CLOSED", "SEALED_RUNNING")
CompleteExperiment == Advance("SEALED_RUNNING", "COMPLETE")

InvalidateExperiment ==
  /\ experiment \notin TerminalExperiment \cup {"NONE"}
  /\ experiment' = "INVALIDATED"
  /\ UNCHANGED <<closure, candidate, parent, champion, grant, ledgerVars, resumed,
                 worker, results, unread, boundVars>>

-----------------------------------------------------------------------------
(* The candidate lifecycle                                                 *)

RegisterCandidate(c) ==
  /\ Searching
  /\ candidate[c] = "UNREGISTERED"
  /\ candidate' = [candidate EXCEPT ![c] = "REGISTERED"]
  /\ parent' = [parent EXCEPT ![c] = champion]
  /\ UNCHANGED <<experiment, closure, champion, grant, ledgerVars, resumed, worker,
                 results, unread, boundVars>>

\* _append_candidate_event from the exact current head.
Move(c, from, to) ==
  /\ Searching
  /\ candidate[c] = from
  /\ candidate' = [candidate EXCEPT ![c] = to]
  /\ UNCHANGED <<experiment, closure, parent, grant, ledgerVars, resumed, worker,
                 results, unread, boundVars>>

AdmitCandidate(c) ==
  \E to \in {"VALID", "INVALID"} : Move(c, "REGISTERED", to) /\ UNCHANGED champion

StartProbes(c) == Move(c, "VALID", "RUNNING_PROBES") /\ UNCHANGED champion

\* The reserved checks of a skill candidate have no producer and are missing.
StartGate(c) ==
  /\ \E to \in {"REJECTED"} \cup (IF c \in SkillCandidates THEN {} ELSE {"RUNNING_GATE"}) :
       Move(c, "RUNNING_PROBES", to)
  /\ UNCHANGED champion

\* One grant per probe head; asking again returns the same one.
IssueGrant(c) ==
  /\ c \in SkillCandidates
  /\ Current(c)
  /\ grant[c] = "NONE"
  /\ grant' = [grant EXCEPT ![c] = "ISSUED"]
  /\ UNCHANGED <<controlVars, ledgerVars, resumed, worker, results, unread, boundVars>>

\* The gate rejects, cannot tell, or promotes; a promotion whose parent is no
\* longer the champion is superseded.
FinalizeCandidate(c) ==
  /\ Charged(c)
  /\ \/ \E to \in {"REJECTED", "INCONCLUSIVE"} :
          Move(c, "EVIDENCE_COMPLETE", to) /\ UNCHANGED champion
     \/ IF parent[c] = champion
        THEN Move(c, "EVIDENCE_COMPLETE", "PROMOTED") /\ champion' = c
        ELSE Move(c, "EVIDENCE_COMPLETE", "INCONCLUSIVE") /\ UNCHANGED champion

-----------------------------------------------------------------------------
(* The controller object                                                   *)

NewController ==
  /\ experiment' = "NONE"
  /\ closure' = [champion |-> Seed, usage |-> 0]
  /\ candidate' = [c \in Candidates |-> "UNREGISTERED"]
  /\ parent' = [c \in Candidates |-> Seed]
  /\ champion' = Seed
  /\ grant' = [c \in Candidates |-> "NONE"]
  /\ worker' = Idle
  /\ results' = {}
  /\ unread' = {}

\* The process ends at any point; the next controller is given the usage head
\* its caller held, replays it, and takes no experiment tail.
Restart ==
  /\ restarts < MaxRestarts
  /\ restarts' = restarts + 1
  /\ usage' = SubSeq(usage, 1, IF Unlocked THEN Len(usage) ELSE worker.head)
  /\ blocked' = (usage' # <<>> /\ usage'[Len(usage')].poisoned)
  /\ resumed' = (usage' # <<>>)
  /\ NewController
  /\ UNCHANGED faults

Init ==
  /\ experiment = "NONE"
  /\ closure = [champion |-> Seed, usage |-> 0]
  /\ candidate = [c \in Candidates |-> "UNREGISTERED"]
  /\ parent = [c \in Candidates |-> Seed]
  /\ champion = Seed
  /\ grant = [c \in Candidates |-> "NONE"]
  /\ usage = <<>>
  /\ blocked = FALSE
  /\ resumed = FALSE
  /\ worker = Idle
  /\ results = {}
  /\ unread = {}
  /\ faults = 0
  /\ restarts = 0

\* What the holder of the lock does next.
WorkerStep ==
  \/ ReserveProbe \/ ReservationFails
  \/ BeginGrant \/ RefuseStartedGrant
  \/ RunRevert \/ RunPlacebo
  \/ CloseExecution \/ CloseFails \/ VerifyResult
  \/ SettleProbe \/ SettlementUnread \/ SettlementFails \/ SettlementUnseen
  \/ AppendEvidence \/ AppendEvidenceFails \/ ChargeEvidence

LifecycleStep ==
  \/ Freeze \/ StartSearch \/ CloseSelection \/ StartSealed \/ CompleteExperiment
  \/ InvalidateExperiment \/ FindPoison
  \/ \E c \in Candidates :
       \/ RegisterCandidate(c) \/ AdmitCandidate(c) \/ StartProbes(c) \/ StartGate(c)
       \/ IssueGrant(c) \/ FinalizeCandidate(c)

TakeLock ==
  \E c \in Candidates :
    BeginExecution(c) \/ \E tokens \in GateTokens : CheckEvidence(c, tokens)

Next == LifecycleStep \/ TakeLock \/ WorkerStep \/ Restart

Spec == Init /\ [][Next]_vars

\* Once a call holds the lock it runs on: every backend call returns or raises
\* within its deadline, and nothing else is waited for.
LiveSpec == Spec /\ WF_vars(WorkerStep)

-----------------------------------------------------------------------------
(* Properties                                                              *)

\* Every variable stays in its type.
TypeOK ==
  /\ experiment \in ExperimentStates
  /\ closure \in [champion : Harnesses, usage : Nat]
  /\ candidate \in [Candidates -> CandidateStates]
  /\ parent \in [Candidates -> Harnesses]
  /\ champion \in Harnesses
  /\ grant \in [Candidates -> {"NONE", "ISSUED", "STARTED", "CLOSED"}]
  /\ usage \in Seq(Entry)
  /\ blocked \in BOOLEAN /\ resumed \in BOOLEAN
  /\ Unlocked \/ worker \in Holding
  /\ results \subseteq Candidates /\ unread \subseteq Candidates
  /\ faults \in 0 .. MaxFaults /\ restarts \in 0 .. MaxRestarts

\* Every variable stays in its type, and the usage chain, replayed from its
\* genesis, passes every check the ledger makes of a chain it is given: what a
\* controller wrote never locks it out.
UsageInv == TypeOK /\ UsageReplays

\* From the closing of selection to completion nothing the closure binds moves:
\* no candidate is active, no probe or evidence call is in flight, and the
\* champion and the usage head are still the ones the closure froze.
SelectionFrozen ==
  experiment \in Selected =>
    /\ Unlocked
    /\ Active = {}
    /\ closure = [champion |-> champion, usage |-> Len(usage)]

Promoted == {c \in Candidates : candidate[c] = "PROMOTED"}

\* Evidence is complete only for a candidate whose gate query is on the usage
\* chain, or is the charge the lock holder is about to publish.
GateEvidencePaid(c) ==
  candidate[c] \in {"EVIDENCE_COMPLETE", "PROMOTED", "INCONCLUSIVE"} =>
    Charged(c) \/ (Working(c) /\ At("CHARGE"))

\* The docstring of the settlement, on a reservation: it is settled, or is the
\* running call's, or the accounting is closed.
Decided(c) ==
  Reserved(c) /\ ~Settled(c) => blocked \/ resumed \/ (Working(c) /\ ~At("RESERVE"))

\* No path through begin, the arms or the closure leaves a reservation undecided,
\* but a settlement that could not read the ledger.  Its grant stays burned and
\* both schedules stay charged: nothing is refunded, settled late or run again.
ReservationSettled(c) ==
  /\ c \notin unread => Decided(c)
  /\ c \in unread =>
       Reserved(c) /\ ~Settled(c) /\ grant[c] \in {"STARTED", "CLOSED"} /\ c \notin results

\* Backends are called only under the one open reservation of a started grant,
\* and spend within it unless an arm is poisoned.
ExecutionCovered(c) ==
  Working(c) /\ (\E step \in ExecutionSteps : At(step)) =>
    /\ Reserved(c) /\ ~Settled(c)
    /\ grant[c] \in {"STARTED", "CLOSED"}
    /\ worker.tokens > ProbeTokens => worker.poisoned

\* A matched execution is returned only when its closure is bound and its
\* settlement is on the chain as completed, unpoisoned.
ResultSettled(c) ==
  c \in results =>
    /\ grant[c] = "CLOSED"
    /\ \E i \in EntriesOf(c, {"COMPLETED"}) : ~usage[i].poisoned

\* Every spending has its place on the usage chain: gate evidence is paid, probe
\* reservations are settled or stay charged, backends run under one, results come
\* after it.
SpendingAccounted ==
  \A c \in Candidates :
    GateEvidencePaid(c) /\ ReservationSettled(c) /\ ExecutionCovered(c) /\ ResultSettled(c)

\* What the experiment promises about its champion and spending.
Promise == INSTANCE ChampionSelection WITH
  phase <- CASE experiment \in {"NONE", "FROZEN"} -> "PREPARING"
             [] experiment = "SEARCHING" -> "OPEN"
             [] experiment \in {"SELECTION_CLOSED", "SEALED_RUNNING"} -> "SELECTED"
             [] experiment = "COMPLETE" -> "FINAL"
             [] experiment = "INVALIDATED" -> "VOID",
  past <- {parent[c] : c \in Promoted},
  spent <- TotalTokens

\* The controller implements that promise.
PromiseKept == Promise!Spec

\* "Publish the terminal probe charge or permanently close accounting"
\* (_settle_skill_probe_usage): no call gives up the lock with its reservation open
\* under an open accounting.
EveryChargeDecided == \A c \in Candidates : Decided(c)

\* A started grant is settled, or closes the accounting, unless its process ends
\* or its settlement cannot read the ledger: execution never stops with the lock
\* held, and no lifecycle move meanwhile leaves the charge undecided.
ExecutionSettles ==
  \A c \in Candidates :
    (grant[c] = "STARTED") ~> (Settled(c) \/ blocked \/ c \in unread \/ grant[c] = "NONE")
=============================================================================
