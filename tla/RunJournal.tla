----------------------------- MODULE RunJournal -----------------------------
(* The durable journal of one public run: immutable entries, each naming its *)
(* predecessor, and journal objects that append to the tail they remember    *)
(* when their caller names the same one.  Nothing coordinates two objects:   *)
(* each may be opened on any tail ever published, so that a run can fork.    *)
EXTENDS RunProtocol, SequencesExt

CONSTANTS
  Journals,    \* journal objects over one repository
  Incumbent,   \* the harness a run starts from
  ValidityOf,  \* per arm, what its proposal may come to: a valid candidate or none
  MaxFaults    \* bound: publications that fail after the write

ASSUME RunJournalAssumption ==
  /\ Incumbent \in Harnesses /\ MaxFaults \in Nat
  /\ ValidityOf \in [Adaptive -> SUBSET BOOLEAN]

VARIABLES
  branches,   \* published chains of entries that no published entry extends
  closures,   \* published closures
  memory,     \* what each journal object remembers
  faults      \* publications failed so far

journalVars == <<branches, closures, memory, faults>>

Unopened == [tail |-> <<>>, state |-> None, sequence |-> -1]

\* A reference to an entry fixes all entries before it: a tail is its chain.
Entry(sequence, event) == [sequence |-> sequence, event |-> event]
Tails == UNION {{SubSeq(chain, 1, k) : k \in DOMAIN chain} : chain \in branches}
PublishChain(chain) == {b \in branches : ~IsStrictPrefix(b, chain)} \cup
                       (IF chain \in Tails THEN {} ELSE {chain})

-----------------------------------------------------------------------------
(* Replay                                                                  *)

Payloads(chain, action) ==
  LET of == SelectSeq(chain, LAMBDA e : e.event.action = action)
  IN [k \in DOMAIN of |-> of[k].event.payload]

\* The state a chain of events leads to (None: no entry yet).
StateAt(chain) ==
  LET calls == Payloads(chain, "MATERIALIZE")
      done == Payloads(chain, "COMPLETE")
      only(action) == LET of == Payloads(chain, action) IN IF of = <<>> THEN None ELSE of[1]
  IN IF chain = <<>> THEN None
     ELSE [done |-> done,
           call |-> IF Len(calls) > Len(done) THEN calls[Len(calls)] ELSE None,
           freeze |-> only("FREEZE_CANDIDATES"), selection |-> only("FREEZE_SELECTIONS"),
           closed |-> Payloads(chain, "CLOSE") # <<>>]

Replays(chain) ==
  \A k \in DOMAIN chain :
    /\ chain[k].sequence = k - 1
    /\ Applies(StateAt(SubSeq(chain, 1, k - 1)), chain[k].event)

\* What an offline reader checks of a published closure.
RunClosureVerifies(closure) ==
  LET s == StateAt(closure.tail) IN
  /\ Replays(closure.tail)
  /\ s.closed
  /\ closure.freeze = s.freeze /\ closure.selection = s.selection /\ closure.done = s.done
  /\ Len(closure.tail) = 2 * Len(Plan) + 4

Reopened(j, tail) ==
  [tail |-> tail, state |-> StateAt(tail), sequence |-> tail[Len(tail)].sequence]

-----------------------------------------------------------------------------
(* Appending                                                               *)

\* Mutant: the caller's tail is not compared.
AnyTail(j, expected) == TRUE
RequireTail(j, expected) == expected = memory[j].tail

Fault == faults < MaxFaults /\ faults' = faults + 1

Extended(j, event) == Append(memory[j].tail, Entry(memory[j].sequence + 1, event))

\* The entry is published and remembered.
Record(j, event) ==
  /\ branches' = PublishChain(Extended(j, event))
  /\ memory' = [memory EXCEPT ![j] =
                  [tail |-> Extended(j, event), state |-> After(@.state, event),
                   sequence |-> @.sequence + 1]]

\* The entry is published and its read-back fails: the object does not know it.
Forget(j, event) ==
  /\ branches' = PublishChain(Extended(j, event))
  /\ Fault
  /\ UNCHANGED memory

AppendEntry(j, event) ==
  /\ Applies(memory[j].state, event)
  /\ \/ Record(j, event) /\ UNCHANGED faults
     \/ Forget(j, event)
  /\ UNCHANGED closures

Open(j) ==
  /\ PlanCloses
  /\ memory[j].tail = <<>>
  /\ AppendEntry(j, Event("OPEN", None))

\* A caller prepares the request of the slot that follows the tail it holds.
RequestUnder(expected) == NextSlot(StateAt(expected))

\* The harness a caller names: the journal enforces one for the candidate's
\* calls, and first compares the parent FIT calls when candidates are frozen.
Named(slot) ==
  IF \/ slot.kind \in {"CANDIDATE_FIT", "GATE", "HOLDOUT"} /\ slot.arm \in Adaptive
     \/ slot.kind = "PARENT_FIT" /\ slot.arm = "FULL"
  THEN Harnesses ELSE {Incumbent}

MaterializeNextCall(j, expected) ==
  LET s == memory[j].state IN
  /\ RequireTail(j, expected)
  /\ s # None /\ Len(s.done) < Len(Plan)
  /\ LET slot == Plan[NextSlot(s)] IN
     \E harness \in Named(slot), fallback \in BOOLEAN,
        variant \in {"parent", "candidate", "bare", slot.variant} :
       AppendEntry(j, Event("MATERIALIZE",
         [slot |-> NextSlot(s), request |-> RequestUnder(expected), harness |-> harness,
          variant |-> variant, fallback |-> fallback,
          freeze |-> BoundTo(s, s.freeze, CandidateBarrier),
          selection |-> BoundTo(s, s.selection, SelectionBarrier)]))

\* The selections some branch of the run has frozen: what a grader can be shown.
FrozenSelections ==
  {e.event.payload : e \in {e \in UNION {Range(chain) : chain \in branches} :
                              e.event.action = "FREEZE_SELECTIONS"}}

Receipts(m) ==
  {None} \cup [slot : {m.slot}, variant : {m.variant}, fallback : {m.fallback},
               unlock : IF m.slot > SelectionBarrier THEN {Unlock(x) : x \in FrozenSelections}
                        ELSE {None}]

CompleteCall(j, expected) ==
  LET s == memory[j].state IN
  /\ RequireTail(j, expected)
  /\ s # None /\ s.call # None
  /\ \E receipt \in Receipts(s.call) :
       AppendEntry(j, Event("COMPLETE", [call |-> s.call, receipt |-> receipt]))

ArmCandidates(s, arm) ==
  [proposal : {s.done[ProposalSlot(arm)]}, parent : Harnesses,
   candidate : Harnesses \cup {None}, valid : ValidityOf[arm]]

FreezeCandidates(j, expected) ==
  LET s == memory[j].state IN
  /\ RequireTail(j, expected)
  /\ s # None /\ Len(s.done) = CandidateBarrier /\ s.call = None
  /\ \E score \in ArmCandidates(s, "SCORE"), full \in ArmCandidates(s, "FULL") :
       AppendEntry(j, Event("FREEZE_CANDIDATES",
                            [arm \in Adaptive |-> IF arm = "SCORE" THEN score ELSE full]))

ArmSelections(s, arm) ==
  [freeze : {s.freeze}, gates : {GateCalls(s.done, arm)}, variant : {"parent", "candidate"},
   harness : Harnesses, forced : BOOLEAN]

FreezeArmSelections(j, expected) ==
  LET s == memory[j].state IN
  /\ RequireTail(j, expected)
  /\ s # None /\ s.freeze # None /\ Len(s.done) = SelectionBarrier /\ s.call = None
  /\ \E score \in ArmSelections(s, "SCORE"), full \in ArmSelections(s, "FULL") :
       AppendEntry(j, Event("FREEZE_SELECTIONS",
                            [arm \in Adaptive |-> IF arm = "SCORE" THEN score ELSE full]))

ClosureOf(m) ==
  [tail |-> m.tail, freeze |-> m.state.freeze, selection |-> m.state.selection,
   done |-> m.state.done]

\* The CLOSE entry is published before the closure that makes it portable; an
\* object closes once, so that a closure that fails to be published is lost.
Close(j, expected) ==
  /\ RequireTail(j, expected)
  /\ Applies(memory[j].state, Event("CLOSE", None))
  /\ \/ /\ Record(j, Event("CLOSE", None))
        /\ \/ closures' = closures \cup {ClosureOf(memory'[j])} /\ UNCHANGED faults
           \/ Fault /\ UNCHANGED closures
     \/ Forget(j, Event("CLOSE", None)) /\ UNCHANGED closures

-----------------------------------------------------------------------------

\* A journal object is created on any published tail that replays.
ReopenJournal(j) ==
  /\ memory[j] = Unopened
  /\ PlanCloses
  /\ \E tail \in {t \in Tails : Replays(t)} :
       memory' = [memory EXCEPT ![j] = Reopened(j, tail)]
  /\ UNCHANGED <<branches, closures, faults>>

JournalInit ==
  /\ branches = {} /\ closures = {}
  /\ memory = [j \in Journals |-> Unopened]
  /\ faults = 0

JournalNext ==
  \/ \E j \in Journals : Open(j) \/ ReopenJournal(j)
  \/ \E tail \in Tails, j \in Journals :
       \/ MaterializeNextCall(j, tail) \/ CompleteCall(j, tail)
       \/ FreezeCandidates(j, tail) \/ FreezeArmSelections(j, tail)
       \/ Close(j, tail)

JournalSpec == JournalInit /\ [][JournalNext]_journalVars

-----------------------------------------------------------------------------
(* Properties                                                              *)

\* Every variable stays in its type.
JournalTypeOK ==
  /\ \A chain \in branches : \A k \in DOMAIN chain :
       chain[k].sequence \in Nat /\ chain[k].event.action \in Actions
  /\ \A b, c \in branches : ~IsStrictPrefix(b, c)
  /\ \A c \in closures : c.tail \in Tails
  /\ \A j \in Journals : memory[j] = Unopened \/ memory[j].tail \in Tails
  /\ faults \in 0 .. MaxFaults

\* Whatever was published, forgotten or reopened, every published tail replays,
\* and a journal object remembers exactly what its tail replays to: an offline
\* reader and the writer never disagree on the state of the run.
TailReplays ==
  /\ \A chain \in branches : Replays(chain)
  /\ \A j \in Journals : memory[j] # Unopened =>
       /\ memory[j].state = StateAt(memory[j].tail)
       /\ memory[j].sequence = Len(memory[j].tail) - 1

\* Whatever other branches did, the entries of one branch are one run: every slot
\* called once, in the plan's order, with the request prepared for it, after the
\* calls it depends on; both candidates frozen from the branch's own proposals,
\* both selections from its own GATE calls; every HOLDOUT call running the
\* selection it was graded under, which GATE has seen run.  A published closure
\* is one an offline reader accepts.
BranchIsOneRun ==
  /\ \A chain \in branches :
       LET calls == Payloads(chain, "MATERIALIZE")
           done == Payloads(chain, "COMPLETE")
           freezes == Payloads(chain, "FREEZE_CANDIDATES")
           joints == Payloads(chain, "FREEZE_SELECTIONS")
           made(arm, kind) == {i \in DOMAIN calls : Plan[i].arm = arm /\ Plan[i].kind = kind}
           completed(arm, kind) == {done[i] : i \in made(arm, kind) \cap DOMAIN done}
       IN /\ Len(calls) - Len(done) \in {0, 1}
          /\ Len(freezes) <= 1 /\ Len(joints) <= 1
          /\ \A i \in DOMAIN calls :
               /\ calls[i].slot = i /\ calls[i].request = i
               /\ i \in DOMAIN done => done[i].call = calls[i]
               /\ \A d \in Plan[i].dependsOn : \E k \in DOMAIN done \ {i} : Plan[k].id = d
          /\ \A arm \in Adaptive :
               /\ freezes # <<>> =>
                    /\ {freezes[1][arm].proposal} = completed(arm, "PROPOSAL")
                    /\ \A i \in made(arm, "PARENT_FIT") : calls[i].harness = freezes[1][arm].parent
               /\ joints # <<>> =>
                    /\ Range(joints[1][arm].gates) = completed(arm, "GATE")
                    /\ joints[1][arm].variant = "candidate" =>
                         \E i \in made(arm, "GATE") : calls[i].harness = joints[1][arm].harness
               /\ \A i \in made(arm, "HOLDOUT") :
                    /\ calls[i].harness = joints[1][arm].harness
                    /\ i \in DOMAIN done => done[i].receipt.unlock = Unlock(joints[1])
  /\ \A closure \in closures : RunClosureVerifies(closure)

\* What the objects remember, what is published and what runs were recorded.
JournalInv == JournalTypeOK /\ TailReplays /\ BranchIsOneRun
=============================================================================
