------------------------ MODULE CampaignExecutorProofs ------------------------
(***************************************************************************)
(* Theorems about the executors of the public BFCL v2 campaign, for every  *)
(* plan that is laid out stage by stage, any number of executors, starts   *)
(* and failed attempts.  Everything rests on what a sink that compares     *)
(* checkpoints can hold: the snapshots of one history that replays.  Then  *)
(* those about the proposal runtime within it.                             *)
(***************************************************************************)
EXTENDS CampaignExecutor, MetaRuntime, FiniteSetTheorems, SequenceTheorems, WellFoundedInduction, TLAPS

JournalEvent == EventUnder(Barriers)

ExecState ==
  [at : {"DOWN", "NEXT", "RESERVED", "RETURNED", "REFUSED"}, held : Snapshots,
   checkpoint : Snapshots \cup {Absent}, unlock : Barriers \cup {Absent},
   attempt : AnyAttempt \cup {Absent}]

Types ==
  /\ durable \in Snapshots \cup {Absent}
  /\ exec \in [Executors -> ExecState]
  /\ called \in [Slots -> Nat]
  /\ starts \in 0 .. MaxStarts /\ failures \in 0 .. MaxFailures

Verified(events) ==
  \A s \in DOMAIN events : ValidEvent(SubSeq(events, 1, s - 1), events[s])

\* What the sink holds replays, is never the empty snapshot, and a reservation
\* in it is the one the events before it call for.
SinkInv ==
  /\ Verified(Durable.events)
  /\ durable # Absent => durable # Empty
  /\ Durable.pending # Absent =>
       /\ Len(Durable.events) + 1 \in Slots
       /\ IsCall(Len(Durable.events) + 1)
       /\ Durable.pending = Reservation(Durable.events)

\* What an executor holds was stored, and its unlock is of the barrier.
HeldBy(state) ==
  /\ state.checkpoint \in Stored \cup {Absent}
  /\ state.held = IF state.checkpoint = Absent THEN Empty ELSE state.checkpoint
  /\ state.unlock # Absent =>
       /\ Len(state.held.events) >= FirstEvaluation - 1
       /\ state.unlock = SubSeq(state.held.events, 1, FirstEvaluation - 1)
  /\ state.at = "RETURNED" <=> state.attempt # Absent
  /\ state.at \in {"RESERVED", "RETURNED"} => state.held.pending # Absent

HeldInv == \A x \in Executors : HeldBy(exec[x])

Busy(x) == exec[x].at \in {"RESERVED", "RETURNED"}

\* A call is made by the one executor whose reservation was stored.
CallInv ==
  /\ \A x \in Executors : exec[x].at = "RESERVED" => called[Next1(x)] = 0
  /\ \A x \in Executors : exec[x].at = "RETURNED" => called[Next1(x)] = 1
  /\ \A x, y \in Executors : Busy(x) /\ Busy(y) /\ Next1(x) = Next1(y) => x = y

IInv == Types /\ SinkInv /\ HeldInv /\ CallInv /\ CallsAccounted

-----------------------------------------------------------------------------
(* The plan                                                                *)

Node == [kind : Kinds, arm : Arms, cell : Nat, candidate : Nat \cup {Absent},
         variant : GateVariants \cup {Absent}]

(* The slots of the plan are an initial segment of the numbers.            *)
LEMMA SlotsAreNumbers ==
  /\ Len(Nodes) \in Nat /\ Slots = 1 .. Len(Nodes) /\ IsFiniteSet(Slots)
  /\ \A s \in Slots : Nodes[s] \in Node
<1>1. Nodes \in Seq(Node)
  BY CampaignAssumption DEF CampaignAssumption, Node
<1>2. Len(Nodes) \in Nat /\ Slots = 1 .. Len(Nodes)
  BY <1>1, LenProperties DEF Slots
<1>3. IsFiniteSet(Slots)
  BY <1>2, FS_Interval
<1> QED BY <1>1, <1>2, <1>3, ElementOfSeq

(* A nonempty set of numbers has a least element.                          *)
LEMMA Least ==
  ASSUME NEW T, T \subseteq Nat, T # {} PROVE \E n \in T : \A m \in T : n <= m
<1> DEFINE below == {p \in Nat \X Nat : p[1] < p[2]}
<1>1. IsWellFoundedOn(below, Nat)
  BY NatLessThanWellFounded DEF OpToRel
<1>2. PICK n \in T : \A m \in T : ~(<<m, n>> \in below)
  BY <1>1, WFMin
<1>3. ASSUME NEW m \in T PROVE n <= m
  <2>1. ~(<<m, n>> \in Nat \X Nat /\ <<m, n>>[1] < <<m, n>>[2])
    BY <1>2
  <2> QED BY <2>1
<1> QED BY <1>3

(* A slot of an earlier stage comes first.                                 *)
LEMMA StagesInOrder ==
  ASSUME NEW s \in Slots, NEW t \in Slots, Stage[Nodes[s].kind] < Stage[Nodes[t].kind]
  PROVE  s < t
<1>1. Nodes[s].kind \in Kinds /\ Nodes[t].kind \in Kinds
  BY SlotsAreNumbers DEF Node
<1>2. \A kind \in Kinds : Stage[kind] \in Nat
  BY DEF Stage, Kinds
<1>3. t <= s => Stage[Nodes[t].kind] <= Stage[Nodes[s].kind]
  BY CampaignAssumption DEF CampaignAssumption, StageMajor
<1> QED BY <1>1, <1>2, <1>3, SlotsAreNumbers

(* The evaluation calls are exactly the slots from FirstEvaluation on.     *)
LEMMA EvaluationsComeLast ==
  /\ FirstEvaluation \in Slots
  /\ \A s \in Slots : IsEvaluation(s) <=> s >= FirstEvaluation
<1>1. EvaluationSlots \subseteq Nat /\ EvaluationSlots # {} /\ EvaluationSlots \subseteq Slots
  BY SlotsAreNumbers, CampaignAssumption DEF CampaignAssumption, StageMajor, EvaluationSlots
<1>2. /\ FirstEvaluation \in EvaluationSlots
      /\ \A t \in EvaluationSlots : FirstEvaluation <= t
  <2>1. \E s \in EvaluationSlots : \A t \in EvaluationSlots : s <= t
    BY <1>1, Least
  <2> QED BY <2>1 DEF FirstEvaluation
<1>3. ASSUME NEW s \in Slots, s >= FirstEvaluation PROVE IsEvaluation(s)
  <2>1. Stage[Nodes[FirstEvaluation].kind] = 8
    BY <1>2 DEF EvaluationSlots, IsEvaluation, EvaluationKinds, Stage
  <2>2. 8 <= Stage[Nodes[s].kind]
    BY <1>1, <1>2, <1>3, <2>1, SlotsAreNumbers, CampaignAssumption
       DEF CampaignAssumption, StageMajor
  <2>3. Nodes[s].kind \in Kinds
    BY SlotsAreNumbers DEF Node
  <2> QED BY <2>2, <2>3 DEF IsEvaluation, EvaluationKinds, Stage, Kinds
<1> QED BY <1>1, <1>2, <1>3 DEF EvaluationSlots

(* The slot of a kind in an arm has that kind and that arm.                *)
LEMMA SlotsOfKind ==
  ASSUME NEW kind \in Kinds, NEW arm \in Arms
  PROVE  SlotsOf(kind, arm) = {s \in Slots : Nodes[s].kind = kind /\ Nodes[s].arm = arm}
BY DEF SlotsOf, SlotTable

(* An adaptive arm of the plan has its nomination and its decision.        *)
LEMMA ControlsExist ==
  ASSUME NEW s \in Slots, Nodes[s].arm \in AdaptiveArms, NEW kind \in ControlKinds
  PROVE  /\ SlotOf(kind, Nodes[s].arm) \in Slots
         /\ Nodes[SlotOf(kind, Nodes[s].arm)].kind = kind
         /\ Nodes[SlotOf(kind, Nodes[s].arm)].arm = Nodes[s].arm
<1> DEFINE arm == Nodes[s].arm
<1>1. arm \in Arms /\ kind \in Kinds
  BY DEF Arms, ControlKinds, Kinds
<1>2. Cardinality(SlotsOf(kind, arm)) = 1
  BY CampaignAssumption DEF CampaignAssumption, StageMajor, ControlKinds
<1>3. SlotsOf(kind, arm) # {}
  BY <1>2, FS_EmptySet
<1>4. SlotOf(kind, arm) = CHOOSE t \in SlotsOf(kind, arm) : TRUE
  BY DEF SlotOf, ControlSlot, SlotsOf
<1>5. SlotOf(kind, arm) \in SlotsOf(kind, arm)
  BY <1>3, <1>4
<1> QED BY <1>1, <1>5, SlotsOfKind

-----------------------------------------------------------------------------
(* Controls, and the harness a call runs                                   *)

(* The number of graded answers among some slots is at most that of slots. *)
LEMMA GradedBounded ==
  ASSUME NEW events, NEW slots \in SUBSET Slots
  PROVE  Graded(events, slots) \in 0 .. Cardinality(Slots)
<1> DEFINE right == {s \in slots : events[s].grade = TRUE}
<1>1. right \in SUBSET Slots
  OBVIOUS
<1>2. IsFiniteSet(Slots)
  BY SlotsAreNumbers
<1>3. /\ IsFiniteSet(right) /\ Cardinality(right) <= Cardinality(Slots)
  BY <1>1, <1>2, FS_Subset
<1>4. Cardinality(right) \in Nat /\ Cardinality(Slots) \in Nat
  BY <1>2, <1>3, FS_CardinalityType
<1> QED BY <1>3, <1>4 DEF Graded

(* A proposal is made for a numbered candidate at a slot of its own arm.   *)
LEMMA ProposalSlots ==
  ASSUME NEW arm \in Arms, NEW c \in Proposals(arm)
  PROVE  /\ c \in Nat /\ c \in Candidates
         /\ ProposalSlot(arm, c) \in SlotsOf("PROPOSAL", arm)
<1>1. "PROPOSAL" \in Kinds
  BY DEF Kinds
<1>2. PICK s \in SlotsOf("PROPOSAL", arm) : Nodes[s].candidate = c
  BY DEF Proposals
<1>3. s \in Slots /\ Nodes[s].kind = "PROPOSAL"
  BY <1>1, <1>2, SlotsOfKind
<1>4. c \in Nat
  BY <1>2, <1>3, CampaignAssumption DEF CampaignAssumption, StageMajor
<1>5. c \in Candidates
  BY <1>2, <1>3 DEF Candidates
<1>6. ProposalSlot(arm, c) \in SlotsOf("PROPOSAL", arm)
  BY <1>2 DEF ProposalSlot
<1> QED BY <1>4, <1>5, <1>6

(* The FIT slots of a candidate are slots of the plan.                     *)
LEMMA FitSlots ==
  ASSUME NEW arm \in AdaptiveArms, NEW c \in Candidates
  PROVE  CandidateFitSlots(arm, c) =
           {s \in SlotsOf("CANDIDATE_FIT", arm) : Nodes[s].candidate = c}
BY DEF CandidateFitSlots, FitTable

(* A nomination names the parent or a valid candidate of the arm: one with *)
(* the most graded FIT calls and the lowest index always exists            *)
(* (_expected_nomination).                                                 *)
LEMMA NominationIsValid ==
  ASSUME NEW events, NEW arm \in AdaptiveArms
  PROVE  \/ Nominated(events, arm) = Absent
         \/ /\ Nominated(events, arm) \in Proposals(arm)
            /\ ValidCandidate(events, arm, Nominated(events, arm))
<1> DEFINE valid == {c \in Proposals(arm) : ValidCandidate(events, arm, c)}
           Correct(c) == Graded(events, CandidateFitSlots(arm, c))
           Best(c) == \A d \in valid : \/ Correct(c) > Correct(d)
                                       \/ Correct(c) = Correct(d) /\ c <= d
           size == Cardinality(Slots)
<1>0. arm \in Arms /\ "CANDIDATE_FIT" \in Kinds
  BY DEF Arms, Kinds
<1>1. ASSUME NEW c \in valid PROVE c \in Nat /\ Correct(c) \in 0 .. size
  <2>1. c \in Nat /\ c \in Candidates
    BY <1>0, ProposalSlots
  <2>2. CandidateFitSlots(arm, c) \in SUBSET Slots
    BY <1>0, <2>1, FitSlots, SlotsOfKind
  <2> QED BY <2>1, <2>2, GradedBounded
<1>2. size \in Nat
  BY SlotsAreNumbers, FS_CardinalityType
<1>3. CASE valid = {}
  BY <1>3 DEF Nominated
<1>4. CASE valid # {}
  <2> HIDE DEF Correct, valid, size
  <2>1. PICK w \in {size - Correct(c) : c \in valid} :
          \A v \in {size - Correct(c) : c \in valid} : w <= v
    <3>1. {size - Correct(c) : c \in valid} \subseteq Nat
      BY <1>1, <1>2
    <3>2. {size - Correct(c) : c \in valid} # {}
      BY <1>4
    <3> QED BY <3>1, <3>2, Least
  <2>2. \A c, d \in valid : size - Correct(c) = w => Correct(c) >= Correct(d)
    <3> SUFFICES ASSUME NEW c \in valid, NEW d \in valid, size - Correct(c) = w
                 PROVE  Correct(c) >= Correct(d)
      OBVIOUS
    <3>1. w <= size - Correct(d)
      BY <2>1
    <3>2. Correct(c) \in 0 .. size /\ Correct(d) \in 0 .. size
      BY <1>1
    <3> QED BY <1>2, <3>1, <3>2
  <2>3. PICK c \in {b \in valid : size - Correct(b) = w} :
          \A d \in {b \in valid : size - Correct(b) = w} : c <= d
    <3>1. {b \in valid : size - Correct(b) = w} \subseteq Nat
      BY <1>1
    <3>2. {b \in valid : size - Correct(b) = w} # {}
      BY <2>1
    <3> QED BY <3>1, <3>2, Least
  <2>4. Best(c)
    <3> SUFFICES ASSUME NEW d \in valid
                 PROVE  Correct(c) > Correct(d) \/ (Correct(c) = Correct(d) /\ c <= d)
      OBVIOUS
    <3>1. Correct(c) >= Correct(d) /\ size - Correct(c) = w /\ c \in valid
      BY <2>2, <2>3
    <3>2. Correct(c) = Correct(d) => c <= d
      BY <2>3, <3>1
    <3> QED BY <1>1, <3>1, <3>2
  <2>5. Nominated(events, arm) = CHOOSE b \in valid : Best(b)
    BY <1>4 DEF Nominated, valid, Correct
  <2>6. Nominated(events, arm) \in valid
    BY <2>3, <2>4, <2>5
  <2> QED BY <2>6 DEF valid
<1> QED BY <1>3, <1>4

-----------------------------------------------------------------------------
(* Verified journals                                                       *)

(* A cut journal is a journal that says the same as far as it goes.        *)
LEMMA CutSays ==
  ASSUME NEW S, NEW events \in Seq(S), NEW n \in 0 .. Len(events)
  PROVE  /\ SubSeq(events, 1, n) \in Seq(S)
         /\ Len(SubSeq(events, 1, n)) = n
         /\ \A i \in 1 .. n : SubSeq(events, 1, n)[i] = events[i]
<1>1. Len(events) \in Nat /\ \A i \in 1 .. n : events[i] \in S
  BY ElementOfSeq, LenProperties
<1> QED BY <1>1, SubSeqProperties

(* Cutting twice is cutting once.                                          *)
LEMMA CutTwice ==
  ASSUME NEW S, NEW events \in Seq(S), NEW n \in 0 .. Len(events), NEW m \in 0 .. n
  PROVE  SubSeq(SubSeq(events, 1, n), 1, m) = SubSeq(events, 1, m)
<1> DEFINE cut == SubSeq(events, 1, n)
<1>1. cut \in Seq(S) /\ Len(cut) = n /\ \A i \in 1 .. n : cut[i] = events[i]
  BY CutSays
<1>2. m \in 0 .. Len(events) /\ Len(events) \in Nat
  BY LenProperties
<1> HIDE DEF cut
<1>3. /\ SubSeq(cut, 1, m) \in Seq(S) /\ Len(SubSeq(cut, 1, m)) = m
      /\ \A i \in 1 .. m : SubSeq(cut, 1, m)[i] = cut[i]
  BY <1>1, CutSays
<1>4. /\ SubSeq(events, 1, m) \in Seq(S) /\ Len(SubSeq(events, 1, m)) = m
      /\ \A i \in 1 .. m : SubSeq(events, 1, m)[i] = events[i]
  BY <1>2, CutSays
<1>5. SubSeq(cut, 1, m) = SubSeq(events, 1, m)
  BY <1>1, <1>3, <1>4, SeqEqual
<1> QED BY <1>5 DEF cut

(* A journal goes on from every place it is cut at.                        *)
LEMMA CutOfAppended ==
  ASSUME NEW S, NEW events \in Seq(S), NEW event \in S, NEW n \in 0 .. Len(events)
  PROVE  SubSeq(Append(events, event), 1, n) = SubSeq(events, 1, n)
<1> DEFINE more == Append(events, event)
<1>1. more \in Seq(S) /\ Len(more) = Len(events) + 1 /\ Len(events) \in Nat
      /\ \A i \in 1 .. Len(events) : more[i] = events[i]
  BY AppendProperties, LenProperties
<1> HIDE DEF more
<1>2. n \in 0 .. Len(more)
  BY <1>1
<1>3. /\ SubSeq(more, 1, n) \in Seq(S) /\ Len(SubSeq(more, 1, n)) = n
      /\ \A i \in 1 .. n : SubSeq(more, 1, n)[i] = more[i]
  BY <1>1, <1>2, CutSays
<1>4. /\ SubSeq(events, 1, n) \in Seq(S) /\ Len(SubSeq(events, 1, n)) = n
      /\ \A i \in 1 .. n : SubSeq(events, 1, n)[i] = events[i]
  BY CutSays
<1>5. SubSeq(more, 1, n) = SubSeq(events, 1, n)
  BY <1>1, <1>3, <1>4, SeqEqual
<1> QED BY <1>5 DEF more

(* What a verified journal says of one of its slots.                       *)
LEMMA SlotSays ==
  ASSUME NEW events \in Seq(JournalEvent), Verified(events), NEW s \in DOMAIN events
  PROVE  /\ s \in Slots /\ s \in 1 .. Len(events)
         /\ IF IsCall(s) THEN ValidCall(SubSeq(events, 1, s - 1), s, events[s])
            ELSE events[s] = ControlAt(SubSeq(events, 1, s - 1), s)
<1>1. DOMAIN events = 1 .. Len(events) /\ Len(events) \in Nat
  BY LenProperties
<1>2. s - 1 \in 0 .. Len(events)
  BY <1>1
<1>3. Len(SubSeq(events, 1, s - 1)) = s - 1
  BY <1>2, CutSays
<1>4. Len(SubSeq(events, 1, s - 1)) + 1 = s
  BY <1>1, <1>3
<1>5. ValidEvent(SubSeq(events, 1, s - 1), events[s])
  BY DEF Verified
<1> QED BY <1>1, <1>4, <1>5 DEF ValidEvent

(* A verified journal that goes on with a valid event is verified.         *)
LEMMA VerifiedGoesOn ==
  ASSUME NEW events \in Seq(JournalEvent), Verified(events), NEW event \in JournalEvent,
         ValidEvent(events, event)
  PROVE  Verified(Append(events, event))
<1> DEFINE more == Append(events, event)
<1>1. /\ more \in Seq(JournalEvent) /\ Len(more) = Len(events) + 1
      /\ \A i \in 1 .. Len(events) : more[i] = events[i]
      /\ more[Len(events) + 1] = event
  BY AppendProperties
<1>2. DOMAIN events = 1 .. Len(events) /\ Len(events) \in Nat
      /\ DOMAIN more = 1 .. Len(more)
  BY <1>1, LenProperties
<1>3. SUFFICES ASSUME NEW s \in DOMAIN more
               PROVE  ValidEvent(SubSeq(more, 1, s - 1), more[s])
  BY DEF Verified
<1>4. s - 1 \in 0 .. Len(events)
  BY <1>1, <1>2
<1>5. SubSeq(more, 1, s - 1) = SubSeq(events, 1, s - 1)
  BY <1>4, CutOfAppended
<1>6. CASE s = Len(events) + 1
  <2>1. SubSeq(events, 1, s - 1) = events
    BY <1>2, <1>6, SubSeqFull
  <2> QED BY <1>1, <1>5, <1>6, <2>1
<1>7. CASE s # Len(events) + 1
  <2>1. s \in DOMAIN events /\ more[s] = events[s]
    BY <1>1, <1>2, <1>7
  <2> QED BY <1>5, <2>1 DEF Verified
<1> QED BY <1>6, <1>7

(* Cutting a verified journal leaves a verified journal.                   *)
LEMMA CutVerified ==
  ASSUME NEW events \in Seq(JournalEvent), Verified(events), NEW n \in 0 .. Len(events)
  PROVE  Verified(SubSeq(events, 1, n))
<1> DEFINE cut == SubSeq(events, 1, n)
<1>1. cut \in Seq(JournalEvent) /\ Len(cut) = n /\ \A i \in 1 .. n : cut[i] = events[i]
  BY CutSays
<1>2. DOMAIN cut = 1 .. n /\ DOMAIN events = 1 .. Len(events) /\ Len(events) \in Nat
  BY <1>1, LenProperties
<1>3. SUFFICES ASSUME NEW s \in DOMAIN cut
               PROVE  ValidEvent(SubSeq(cut, 1, s - 1), cut[s])
  BY DEF Verified
<1>4. s - 1 \in 0 .. n /\ s \in DOMAIN events /\ cut[s] = events[s]
  BY <1>1, <1>2
<1>5. SubSeq(cut, 1, s - 1) = SubSeq(events, 1, s - 1)
  BY <1>4, CutTwice
<1> QED BY <1>4, <1>5 DEF Verified

(* In a verified journal the nomination of an arm names the parent or a    *)
(* candidate that was validly proposed before it.                          *)
LEMMA NominationSays ==
  ASSUME NEW events \in Seq(JournalEvent), Verified(events),
         NEW t \in Slots, Nodes[t].arm \in AdaptiveArms,
         NEW n, n = SlotOf("NOMINATION", Nodes[t].arm), n \in DOMAIN events
  PROVE  \/ events[n].control = Absent
         \/ events[n].control \in Proposals(Nodes[t].arm)
<1> DEFINE arm == Nodes[t].arm
<1>1. n \in Slots /\ Nodes[n].kind = "NOMINATION" /\ Nodes[n].arm = arm
  BY ControlsExist DEF ControlKinds
<1>2. ~IsCall(n)
  BY <1>1 DEF IsCall, ControlKinds
<1>3. events[n] = ControlEvent(Nominated(SubSeq(events, 1, n - 1), arm))
  BY <1>1, <1>2, SlotSays DEF ControlAt
<1>4. events[n].control = Nominated(SubSeq(events, 1, n - 1), arm)
  BY <1>3 DEF ControlEvent, CallEvent
<1> QED BY <1>4, NominationIsValid

\* The harness of a candidate, or of the parent.
LEMMA TypedIsExecution ==
  ASSUME NEW c \in Nat \cup {Absent} PROVE Typed(c) \in Executions
BY DEF Typed, Executions

(* A call runs one of the harnesses the campaign knows.                    *)
LEMMA ExecutedTyped ==
  ASSUME NEW events \in Seq(JournalEvent), Verified(events),
         NEW s \in Slots, s = Len(events) + 1
  PROVE  ExecutedVariant(events, s) \in Executions
<1> DEFINE node == Nodes[s]
           n == SlotOf("NOMINATION", node.arm)
<1>1. /\ node \in Node
      /\ ~IsEvaluation(s) => node.arm \in AdaptiveArms
      /\ node.kind = "GATE" => node.variant \in GateVariants
  BY SlotsAreNumbers, CampaignAssumption DEF CampaignAssumption, StageMajor
<1>2. DOMAIN events = 1 .. Len(events) /\ Len(events) \in Nat
  BY LenProperties
<1>3. ASSUME node.arm \in AdaptiveArms, node.kind \in {"GATE", "HOLDOUT"}
      PROVE  Typed(events[n].control) \in Executions
  <2>1. n \in Slots /\ Nodes[n].kind = "NOMINATION"
    BY <1>3, ControlsExist DEF ControlKinds
  <2>2. Stage[Nodes[n].kind] < Stage[Nodes[s].kind]
    BY <1>3, <2>1 DEF Stage
  <2>3. n < s
    BY <2>1, <2>2, StagesInOrder
  <2>4. n \in DOMAIN events
    BY <1>2, <2>1, <2>3, SlotsAreNumbers
  <2>5. events[n].control = Absent \/ events[n].control \in Proposals(node.arm)
    BY <1>3, <2>4, NominationSays
  <2>6. \A c \in Proposals(node.arm) : c \in Nat
    BY <1>1, ProposalSlots DEF Node
  <2> QED BY <2>5, <2>6, TypedIsExecution
<1>4. node.candidate \in Nat \cup {Absent}
  BY <1>1 DEF Node
<1>5. <<"parent">> \in Executions /\ <<"static-frozen">> \in Executions
      /\ <<"bare">> \in Executions /\ <<"controller">> \in Executions
  BY DEF Executions
<1>6. CASE node.kind = "GATE"
  <2>1. node.arm \in AdaptiveArms
    BY <1>1, <1>6 DEF IsEvaluation, EvaluationKinds
  <2>2. node.variant # "nominated-candidate" => <<node.variant>> \in Executions
    BY <1>1, <1>6 DEF Executions, GateVariants
  <2> QED BY <1>3, <1>6, <2>1, <2>2 DEF ExecutedVariant, EvaluationKinds
<1>7. CASE node.kind = "HOLDOUT" /\ node.arm \in AdaptiveArms
  BY <1>3, <1>5, <1>7 DEF ExecutedVariant, EvaluationKinds, AdaptiveArms
<1>8. CASE node.kind \notin {"GATE"} /\ ~(node.kind = "HOLDOUT" /\ node.arm \in AdaptiveArms)
  BY <1>4, <1>5, <1>8, TypedIsExecution DEF ExecutedVariant, EvaluationKinds, AdaptiveArms
<1> QED BY <1>6, <1>7, <1>8

-----------------------------------------------------------------------------
(* Why a held-out call ran a candidate                                     *)

(* In a verified journal a held-out call of an adaptive arm runs a         *)
(* candidate only on a promotion decided from calls that all succeeded     *)
(* (_expected_promotion, _expected_executed_variant).                      *)
LEMMA PromotionRestsOnCalls ==
  ASSUME NEW events \in Seq(JournalEvent), Verified(events), NEW s \in DOMAIN events,
         Nodes[s].kind = "HOLDOUT", Nodes[s].arm \in AdaptiveArms,
         events[s].executed # <<"parent">>
  PROVE  LET arm == Nodes[s].arm
             c == events[s].executed[2]
         IN  \A t \in Evidence(arm, c) \cup {ProposalSlot(arm, c)} :
               t \in DOMAIN events /\ t \in Slots /\ Succeeded(events[t])
<1> DEFINE arm == Nodes[s].arm
           n == SlotOf("NOMINATION", arm)
           d == SlotOf("GATE_DECISION", arm)
           before == SubSeq(events, 1, s - 1)
           decided == SubSeq(events, 1, d - 1)
<1>1. s \in Slots /\ s \in 1 .. Len(events)
  BY SlotSays
<1>2. /\ DOMAIN events = 1 .. Len(events) /\ Len(events) \in Nat
      /\ Slots = 1 .. Len(Nodes) /\ Len(Nodes) \in Nat
  BY LenProperties, SlotsAreNumbers
<1>3. /\ n \in Slots /\ Nodes[n].kind = "NOMINATION" /\ Nodes[n].arm = arm
      /\ d \in Slots /\ Nodes[d].kind = "GATE_DECISION" /\ Nodes[d].arm = arm
  BY <1>1, ControlsExist DEF ControlKinds
<1>4. n < d /\ d < s
  <2>1. /\ Stage[Nodes[n].kind] < Stage[Nodes[d].kind]
        /\ Stage[Nodes[d].kind] < Stage[Nodes[s].kind]
    BY <1>3 DEF Stage
  <2> QED BY <1>1, <1>3, <2>1, StagesInOrder
<1>5. /\ \A i \in 1 .. s - 1 : before[i] = events[i]
      /\ \A i \in 1 .. d - 1 : decided[i] = events[i]
      /\ d \in DOMAIN events /\ n \in 1 .. d - 1 /\ d \in 1 .. s - 1
  <2>1. s - 1 \in 0 .. Len(events) /\ d - 1 \in 0 .. Len(events)
    BY <1>1, <1>2, <1>3, <1>4
  <2>2. d \in DOMAIN events /\ n \in 1 .. d - 1 /\ d \in 1 .. s - 1
    BY <1>1, <1>2, <1>3, <1>4
  <2> QED BY <2>1, <2>2, CutSays
<1>6. events[s].executed = ExecutedVariant(before, s)
  <2>1. IsCall(s)
    BY DEF IsCall, ControlKinds
  <2> QED BY <2>1, SlotSays DEF ValidCall
<1>7. /\ before[d].control = "promote"
      /\ events[s].executed = Typed(before[n].control)
  BY <1>6 DEF ExecutedVariant, AdaptiveArms, EvaluationKinds
<1>8. Promoted(decided, arm)
  <2>1. ~IsCall(d)
    BY <1>3 DEF IsCall, ControlKinds
  <2>2. events[d] = ControlEvent(IF Promoted(decided, arm) THEN "promote" ELSE Absent)
    BY <1>3, <1>5, <2>1, SlotSays DEF ControlAt
  <2>3. events[d].control = IF Promoted(decided, arm) THEN "promote" ELSE Absent
    BY <2>2 DEF ControlEvent, CallEvent
  <2>4. events[d].control = "promote" /\ "promote" # Absent
    BY <1>5, <1>7, AbsentAssumption DEF AbsentAssumption
  <2> QED BY <2>3, <2>4
<1>9. PICK c : /\ c = events[n].control /\ c # Absent /\ ValidCandidate(decided, arm, c)
               /\ \A t \in Evidence(arm, c) : Succeeded(decided[t])
  BY <1>5, <1>8 DEF Promoted
<1>10. c \in Proposals(arm)
  <2>1. n \in DOMAIN events
    BY <1>1, <1>2, <1>3, <1>4
  <2>2. events[n].control = Absent \/ events[n].control \in Proposals(arm)
    BY <1>1, <2>1, NominationSays
  <2> QED BY <1>9, <2>2
<1>11. events[s].executed = <<"typed-candidate", c>>
  <2>1. n \in 1 .. s - 1
    BY <1>1, <1>2, <1>3, <1>4
  <2>2. before[n] = events[n]
    BY <1>5, <2>1
  <2> QED BY <1>7, <1>9, <2>2 DEF Typed
<1>12. events[s].executed[2] = c
  BY <1>11
<1>13. arm \in Arms
  BY DEF Arms
<1>14. ASSUME NEW t \in Evidence(arm, c) \cup {ProposalSlot(arm, c)}
       PROVE  t \in 1 .. d - 1 /\ t \in Slots
  <2>1. /\ t \in Slots
        /\ Nodes[t].kind \in {"PARENT_FIT", "PROPOSAL", "CANDIDATE_FIT", "GATE"}
    BY <1>10, <1>13, <1>14, ProposalSlots, FitSlots, SlotsOfKind DEF Evidence, Kinds
  <2>2. Stage[Nodes[t].kind] < Stage[Nodes[d].kind]
    BY <1>3, <2>1 DEF Stage
  <2>3. t < d
    BY <1>3, <2>1, <2>2, StagesInOrder
  <2> QED BY <1>2, <1>3, <2>1, <2>3
<1>15. ASSUME NEW t \in Evidence(arm, c) \cup {ProposalSlot(arm, c)}
       PROVE  t \in DOMAIN events /\ t \in Slots /\ Succeeded(events[t])
  <2>1. t \in 1 .. d - 1 /\ t \in Slots
    BY <1>14
  <2>2. t \in DOMAIN events
    BY <1>2, <1>5, <2>1
  <2>3. Succeeded(decided[t])
    BY <1>9 DEF ValidCandidate
  <2> QED BY <1>5, <2>1, <2>2, <2>3
<1> QED BY <1>12, <1>15

-----------------------------------------------------------------------------
(* What the sink has stored                                                *)

(* Nothing a journal records is Absent.                                    *)
LEMMA Distinct ==
  /\ \A snapshot \in Snapshots : snapshot # Absent
  /\ \A reservation \in Reservations : reservation # Absent
  /\ \A barrier \in Barriers : barrier # Absent
  /\ \A attempt \in AnyAttempt : attempt # Absent
  /\ Absent \notin Dispositions
BY AbsentAssumption, AttemptAssumption DEF AbsentAssumption, AttemptAssumption

(* The empty snapshot is one, and no executor starts with anything.        *)
LEMMA EmptyTyped == Empty \in Snapshots /\ Down \in ExecState
<1>1. <<>> \in Seq(JournalEvent)
  BY EmptySeq
<1>2. Empty \in Snapshots
  BY <1>1 DEF Empty, Snapshot, Snapshots, JournalEvent
<1> QED BY <1>2 DEF Down, ExecState

(* What stands for the sink's journal is a snapshot.                       *)
LEMMA DurableTyped ==
  ASSUME Types
  PROVE  /\ Durable \in Snapshots
         /\ Durable.events \in Seq(JournalEvent)
         /\ Durable.pending \in Reservations \cup {Absent}
         /\ Len(Durable.events) \in Nat
         /\ DOMAIN Durable.events = 1 .. Len(Durable.events)
         /\ Durable = Snapshot(Durable.events, Durable.pending)
<1>1. Durable \in Snapshots
  BY EmptyTyped DEF Types, Durable
<1>2. Durable.events \in Seq(JournalEvent) /\ Durable.pending \in Reservations \cup {Absent}
      /\ Durable = Snapshot(Durable.events, Durable.pending)
  BY <1>1 DEF Snapshots, JournalEvent, Snapshot
<1> QED BY <1>1, <1>2, LenProperties

(* The events before the evaluation are a barrier an unlock can stand for. *)
LEMMA BarrierTyped ==
  ASSUME NEW events \in Seq(JournalEvent), Verified(events),
         Len(events) >= FirstEvaluation - 1
  PROVE  SubSeq(events, 1, FirstEvaluation - 1) \in Barriers
<1> DEFINE n == FirstEvaluation - 1
           cut == SubSeq(events, 1, n)
<1>1. /\ Len(events) \in Nat /\ DOMAIN events = 1 .. Len(events)
      /\ FirstEvaluation \in Nat /\ n \in 0 .. Len(events)
      /\ \A i \in 1 .. Len(events) : events[i] \in JournalEvent
  BY LenProperties, ElementOfSeq, EvaluationsComeLast, SlotsAreNumbers
<1>2. ASSUME NEW i \in 1 .. n PROVE events[i] \in EventUnder({})
  <2>1. i \in DOMAIN events /\ i < FirstEvaluation
    BY <1>1
  <2>2. /\ i \in Slots
        /\ IF IsCall(i) THEN ValidCall(SubSeq(events, 1, i - 1), i, events[i])
           ELSE events[i] = ControlAt(SubSeq(events, 1, i - 1), i)
    BY <2>1, SlotSays
  <2>3. ~IsEvaluation(i)
    BY <1>1, <2>1, <2>2, EvaluationsComeLast, SlotsAreNumbers
  <2>4. events[i].unlock = Absent
    BY <2>2, <2>3 DEF ValidCall, ControlAt, ControlEvent, CallEvent
  <2>5. events[i] \in JournalEvent
    BY <1>1, <2>1
  <2> QED BY <2>4, <2>5 DEF JournalEvent, EventUnder
<1>3. cut \in Seq(EventUnder({}))
  BY <1>1, <1>2, SubSeqProperties
<1> QED BY <1>3 DEF Barriers

\* What a reservation of the next call says is a reservation.
LEMMA ReservationTyped ==
  ASSUME NEW events \in Seq(JournalEvent), Verified(events), Len(events) + 1 \in Slots
  PROVE  Reservation(events) \in Reservations /\ Reservation(events) # Absent
<1>1. Len(events) \in Nat /\ FirstEvaluation \in Nat
  BY LenProperties, EvaluationsComeLast, SlotsAreNumbers
<1>2. IsEvaluation(Len(events) + 1) => SubSeq(events, 1, FirstEvaluation - 1) \in Barriers
  <2>1. IsEvaluation(Len(events) + 1) => Len(events) >= FirstEvaluation - 1
    BY <1>1, EvaluationsComeLast
  <2> QED BY <2>1, BarrierTyped
<1>3. Reservation(events) \in Reservations
  BY <1>2 DEF Reservation, Reservations
<1> QED BY <1>3, Distinct

(* A stored snapshot is the sink's journal cut off somewhere, with the     *)
(* reservation the next call asks for or none.                             *)
LEMMA StoredIsCut ==
  ASSUME Types, SinkInv, NEW snapshot \in Stored \cup {Empty}
  PROVE  LET n == Len(snapshot.events)
         IN  /\ snapshot \in Snapshots /\ snapshot # Absent
             /\ n \in 0 .. Len(Durable.events)
             /\ snapshot.events = SubSeq(Durable.events, 1, n)
             /\ Verified(snapshot.events)
             /\ snapshot.pending # Absent =>
                  /\ n + 1 \in Slots /\ IsCall(n + 1)
                  /\ snapshot.pending = Reservation(snapshot.events)
                  /\ n + 1 \in DOMAIN Durable.events
                       \/ (snapshot = Durable /\ n = Len(Durable.events))
<1> DEFINE events == Durable.events
<1>1. /\ events \in Seq(JournalEvent) /\ Len(events) \in Nat /\ DOMAIN events = 1 .. Len(events)
      /\ Durable \in Snapshots /\ Durable = Snapshot(events, Durable.pending)
      /\ Verified(events)
  BY DurableTyped DEF SinkInv
<1>2. /\ \A n \in 0 .. Len(events) : /\ Cut(n) \in Seq(JournalEvent) /\ Len(Cut(n)) = n
                                     /\ Verified(Cut(n))
      /\ Cut(Len(events)) = events
  BY <1>1, CutSays, CutVerified, SubSeqFull DEF Cut
<1>3. CASE snapshot = Durable
  BY <1>1, <1>2, <1>3, Distinct DEF SinkInv, Cut
<1>4. CASE snapshot = Empty
  <2>1. snapshot.events = <<>> /\ snapshot.pending = Absent /\ Len(<<>>) = 0
    BY <1>4, EmptySeq DEF Empty, Snapshot
  <2>2. SubSeq(events, 1, 0) = <<>>
    BY SubSeqEmpty
  <2>3. Verified(<<>>)
    BY DEF Verified
  <2> QED BY <1>1, <1>4, <2>1, <2>2, <2>3, EmptyTyped, Distinct
<1>5. ASSUME NEW n \in 1 .. Len(events), snapshot = Snapshot(Cut(n), Absent)
      PROVE  LET m == Len(snapshot.events)
             IN  /\ snapshot \in Snapshots /\ snapshot # Absent
                 /\ m \in 0 .. Len(events)
                 /\ snapshot.events = SubSeq(events, 1, m)
                 /\ Verified(snapshot.events)
                 /\ snapshot.pending = Absent
  <2>1. n \in 0 .. Len(events)
    BY <1>1
  <2>2. snapshot.events = Cut(n) /\ snapshot.pending = Absent
    BY <1>5 DEF Snapshot
  <2>3. snapshot \in Snapshots
    BY <1>2, <1>5, <2>1 DEF Snapshot, Snapshots, JournalEvent
  <2> QED BY <1>2, <2>1, <2>2, <2>3, Distinct DEF Cut
<1>6. ASSUME NEW n \in 0 .. Len(events) - 1, IsCall(n + 1),
             snapshot = Snapshot(Cut(n), Reservation(Cut(n)))
      PROVE  LET m == Len(snapshot.events)
             IN  /\ snapshot \in Snapshots /\ snapshot # Absent
                 /\ m \in 0 .. Len(events)
                 /\ snapshot.events = SubSeq(events, 1, m)
                 /\ Verified(snapshot.events)
                 /\ m + 1 \in Slots /\ IsCall(m + 1)
                 /\ snapshot.pending = Reservation(snapshot.events)
                 /\ m + 1 \in DOMAIN events
  <2>1. n \in 0 .. Len(events) /\ n + 1 \in DOMAIN events
    BY <1>1
  <2>2. snapshot.events = Cut(n) /\ snapshot.pending = Reservation(Cut(n))
    BY <1>6 DEF Snapshot
  <2>3. n + 1 \in Slots
    BY <1>1, <2>1, SlotSays
  <2>4. Cut(n) \in Seq(JournalEvent) /\ Len(Cut(n)) = n /\ Verified(Cut(n))
    BY <1>2, <2>1
  <2>5. snapshot \in Snapshots
    BY <1>6, <2>3, <2>4, ReservationTyped DEF Snapshot, Snapshots, JournalEvent
  <2> QED BY <1>6, <2>1, <2>2, <2>3, <2>4, <2>5, Distinct DEF Cut
<1>7. \/ snapshot \in {Durable, Empty}
      \/ \E n \in 1 .. Len(events) : snapshot = Snapshot(Cut(n), Absent)
      \/ \E n \in 0 .. Len(events) - 1 :
           IsCall(n + 1) /\ snapshot = Snapshot(Cut(n), Reservation(Cut(n)))
  BY DEF Durable, Stored
<1> QED BY <1>3, <1>4, <1>5, <1>6, <1>7

-----------------------------------------------------------------------------
(* What a checkpoint that is accepted does to the sink                     *)

HistoryStep ==
  durable' # durable
    => /\ Replays(durable')
       /\ \/ durable'.events = Durable.events /\ Durable.pending = Absent
          \/ /\ Len(durable'.events) = Len(Durable.events) + 1
             /\ IsPrefix(Durable.events, durable'.events)
             /\ IsCall(Len(durable'.events)) => Durable.pending # Absent

SinkGrows ==
  /\ durable' \in Snapshots /\ Durable' = durable'
  /\ SinkInv'
  /\ Stored \subseteq Stored' /\ durable' \in Stored'
  /\ HistoryStep

(* Whatever was stored before can still be handed to an executor.          *)
LEMMA StoredGrows ==
  ASSUME Types, SinkInv,
         \A n \in 0 .. Len(Durable.events) : Cut(n)' = Cut(n),
         NEW more \in Nat, more = Len(Durable'.events), more >= Len(Durable.events),
         durable # Absent => \/ more > Len(Durable.events)
                             \/ Len(Durable.events) > 0 /\ Durable.pending = Absent,
         durable # Absent /\ Durable.pending = Absent => Len(Durable.events) > 0
  PROVE  Stored \subseteq Stored'
<1> DEFINE events == Durable.events
<1>1. /\ Len(events) \in Nat /\ events \in Seq(JournalEvent)
      /\ Durable = Snapshot(events, Durable.pending)
      /\ Cut(Len(events)) = events
  BY DurableTyped, SubSeqFull DEF Cut
<1>2. SUFFICES ASSUME NEW z \in Stored PROVE z \in Stored'
  OBVIOUS
<1>3. ASSUME NEW n \in 1 .. Len(events), z = Snapshot(Cut(n), Absent) PROVE z \in Stored'
  <2>1. n \in 0 .. Len(events) /\ n \in 1 .. more
    BY <1>1
  <2>2. z = Snapshot(Cut(n)', Absent)
    BY <1>3, <2>1
  <2> QED BY <2>1, <2>2 DEF Stored
<1>4. ASSUME NEW n \in 0 .. Len(events), n < more, IsCall(n + 1),
             z = Snapshot(Cut(n), Reservation(Cut(n)))
      PROVE  z \in Stored'
  <2>1. n \in 0 .. more - 1
    BY <1>1, <1>4
  <2>2. z = Snapshot(Cut(n)', Reservation(Cut(n)'))
    BY <1>4
  <2> QED BY <1>4, <2>1, <2>2 DEF Stored
<1>5. CASE z = durable /\ durable # Absent
  <2>1. z = Snapshot(events, Durable.pending)
    BY <1>1, <1>5 DEF Durable
  <2>2. CASE Durable.pending = Absent
    BY <1>1, <1>3, <1>5, <2>1, <2>2
  <2>3. CASE Durable.pending # Absent
    BY <1>1, <1>4, <1>5, <2>1, <2>3 DEF SinkInv
  <2> QED BY <2>2, <2>3
<1>6. \/ z = durable /\ durable # Absent
      \/ \E n \in 1 .. Len(events) : z = Snapshot(Cut(n), Absent)
      \/ \E n \in 0 .. Len(events) - 1 : IsCall(n + 1) /\ z = Snapshot(Cut(n), Reservation(Cut(n)))
  BY <1>2 DEF Stored
<1>7. \A n \in 0 .. Len(events) - 1 : n \in 0 .. Len(events) /\ n < more
  BY <1>1
<1> QED BY <1>3, <1>4, <1>5, <1>6, <1>7

(* An event is stored behind the events it was validated against.          *)
LEMMA AppendStored ==
  ASSUME Types, SinkInv, NEW event \in JournalEvent, ValidEvent(Durable.events, event),
         IsCall(Len(Durable.events) + 1) => Durable.pending # Absent,
         durable' = Snapshot(Append(Durable.events, event), Absent)
  PROVE  SinkGrows
<1> DEFINE events == Durable.events
           more == Append(events, event)
<1>1. /\ events \in Seq(JournalEvent) /\ Len(events) \in Nat /\ Verified(events)
      /\ Durable = Snapshot(events, Durable.pending)
      /\ DOMAIN events = 1 .. Len(events)
  BY DurableTyped DEF SinkInv
<1>2. /\ more \in Seq(JournalEvent) /\ Len(more) = Len(events) + 1
      /\ DOMAIN more = 1 .. Len(more) /\ Verified(more)
  BY <1>1, AppendProperties, LenProperties, VerifiedGoesOn
<1>3. /\ durable' \in Snapshots /\ durable' # Absent /\ Durable' = durable'
      /\ durable'.events = more /\ durable'.pending = Absent
  <2>1. durable' \in Snapshots /\ durable'.events = more /\ durable'.pending = Absent
    BY <1>2 DEF Snapshot, Snapshots, JournalEvent
  <2> QED BY <2>1, Distinct DEF Durable
<1>4. SinkInv'
  <2>1. durable' # Empty
    BY <1>1, <1>2, <1>3, EmptySeq DEF Empty, Snapshot
  <2>2. Empty' = Empty
    BY DEF Empty
  <2>3. Verified(Durable'.events) /\ Durable'.pending = Absent
    BY <1>2, <1>3
  <2> QED BY <2>1, <2>2, <2>3 DEF SinkInv, Verified
<1>5. \A n \in 0 .. Len(events) : Cut(n)' = Cut(n)
  BY <1>1, <1>3, CutOfAppended DEF Cut
<1>6. Stored \subseteq Stored'
  <2>1. durable # Absent /\ Durable.pending = Absent => Len(events) > 0
    <3> SUFFICES ASSUME durable # Absent, Durable.pending = Absent, Len(events) = 0
                 PROVE  FALSE
      BY <1>1
    <3>1. events = <<>>
      BY <1>1, EmptySeq
    <3> QED BY <1>1, <3>1 DEF SinkInv, Durable, Empty
  <2>2. Len(more) \in Nat /\ Len(more) > Len(events)
    BY <1>1, <1>2
  <2> QED BY <1>2, <1>3, <1>5, <2>1, <2>2, StoredGrows
<1>7. durable' \in Stored'
  BY <1>3 DEF Stored
<1>8. HistoryStep
  <2>1. Replays(durable')
    BY <1>2, <1>3 DEF Replays, Verified
  <2>2. IsPrefix(events, more)
    <3>1. SubSeq(events, 1, Len(events)) = SubSeq(more, 1, Len(events))
      BY <1>1, CutOfAppended
    <3> QED BY <1>1, <1>2, <3>1 DEF IsPrefix
  <2> QED BY <1>2, <1>3, <2>1, <2>2 DEF HistoryStep
<1> QED BY <1>3, <1>4, <1>6, <1>7, <1>8 DEF SinkGrows

(* A reservation is stored with the events it was made on.                 *)
LEMMA ReserveStored ==
  ASSUME Types, SinkInv, Durable.pending = Absent,
         Len(Durable.events) + 1 \in Slots, IsCall(Len(Durable.events) + 1),
         durable' = Snapshot(Durable.events, Reservation(Durable.events))
  PROVE  SinkGrows
<1> DEFINE events == Durable.events
<1>1. /\ events \in Seq(JournalEvent) /\ Len(events) \in Nat /\ Verified(events)
      /\ Durable = Snapshot(events, Durable.pending)
  BY DurableTyped DEF SinkInv
<1>2. Reservation(events) \in Reservations /\ Reservation(events) # Absent
  BY <1>1, ReservationTyped
<1>3. /\ durable' \in Snapshots /\ durable' # Absent /\ Durable' = durable'
      /\ durable'.events = events /\ durable'.pending = Reservation(events)
  <2>1. durable' \in Snapshots /\ durable'.events = events
        /\ durable'.pending = Reservation(events)
    BY <1>1, <1>2 DEF Snapshot, Snapshots, JournalEvent
  <2> QED BY <2>1, Distinct DEF Durable
<1>4. SinkInv'
  <2>1. durable' # Empty
    BY <1>2, <1>3 DEF Empty, Snapshot
  <2>2. Verified(Durable'.events) /\ Durable'.events = events
        /\ Durable'.pending = Reservation(events)
    BY <1>1, <1>3
  <2> QED BY <2>1, <2>2 DEF SinkInv, Verified, Empty
<1>5. \A n \in 0 .. Len(events) : Cut(n)' = Cut(n)
  BY <1>3 DEF Cut
<1>6. Stored \subseteq Stored'
  <2>1. durable # Absent => Len(events) > 0
    <3> SUFFICES ASSUME durable # Absent, Len(events) = 0 PROVE FALSE
      BY <1>1
    <3>1. events = <<>>
      BY <1>1, EmptySeq
    <3> QED BY <1>1, <3>1 DEF SinkInv, Durable, Empty
  <2> QED BY <1>1, <1>3, <1>5, <2>1, StoredGrows
<1>7. durable' \in Stored'
  BY <1>3 DEF Stored
<1>8. HistoryStep
  BY <1>1, <1>3 DEF HistoryStep, Replays, Verified, Reservation
<1> QED BY <1>3, <1>4, <1>6, <1>7, <1>8 DEF SinkGrows

-----------------------------------------------------------------------------
(* What one executor does to the invariant                                 *)

(* One executor moves and the others stay.                                 *)
LEMMA OneMoves ==
  ASSUME Types, NEW x \in Executors, NEW new \in ExecState, Become(x, new)
  PROVE  /\ exec' \in [Executors -> ExecState]
         /\ exec'[x] = new
         /\ \A y \in Executors \ {x} : exec'[y] = exec[y]
BY DEF Types, Become

(* What the others hold is still held when the sink has only grown.        *)
LEMMA HeldStays ==
  ASSUME Types, HeldInv, Stored \subseteq Stored',
         NEW x \in Executors, NEW new \in ExecState, Become(x, new), HeldBy(new)'
  PROVE  HeldInv'
<1>1. /\ exec'[x] = new
      /\ \A y \in Executors \ {x} : exec'[y] = exec[y]
  BY OneMoves
<1>2. \A e : HeldBy(e) => HeldBy(e)'
  BY DEF HeldBy, Empty, Snapshot
<1>3. ASSUME NEW y \in Executors, NEW e, e = exec'[y] PROVE HeldBy(e)'
  <2>1. CASE y = x
    BY <1>1, <1>3, <2>1
  <2>2. CASE y # x
    BY <1>1, <1>2, <1>3, <2>2 DEF HeldInv
  <2> QED BY <2>1, <2>2
<1> QED BY <1>3 DEF HeldInv, HeldBy

(* An executor that holds no reservation it made for itself makes no call. *)
LEMMA OthersCall ==
  ASSUME Types, CallInv, UNCHANGED called,
         NEW x \in Executors, NEW new \in ExecState, Become(x, new),
         new.at \notin {"RESERVED", "RETURNED"}
  PROVE  CallInv'
<1>1. /\ exec'[x] = new
      /\ \A y \in Executors \ {x} : exec'[y] = exec[y]
  BY OneMoves
<1> QED BY <1>1 DEF CallInv, Busy, Next1

(* An executor that starts, is authorized, is turned away or stops leaves  *)
(* the journal and the calls alone.                                        *)
LEMMA QuietMove ==
  ASSUME IInv, UNCHANGED <<durable, called>>,
         NEW x \in Executors, NEW new \in ExecState, Become(x, new), HeldBy(new),
         new.at \notin {"RESERVED", "RETURNED"},
         starts' \in 0 .. MaxStarts, failures' \in 0 .. MaxFailures
  PROVE  IInv' /\ HistoryStep
<1> USE DEF IInv
<1>1. Durable' = Durable /\ Stored' = Stored
  BY DEF Durable, Stored, Cut
<1>2. HeldInv'
  <2>1. HeldBy(new)'
    BY <1>1 DEF HeldBy, Empty, Snapshot
  <2> QED BY <1>1, <2>1, HeldStays
<1>3. CallInv'
  BY OthersCall
<1>4. Types' /\ SinkInv'
  BY <1>1, OneMoves DEF Types, SinkInv, Empty, Snapshot
<1>5. CallsAccounted'
  BY <1>1 DEF CallsAccounted
<1> QED BY <1>2, <1>3, <1>4, <1>5 DEF HistoryStep

(* Nobody holds anything once it is down.                                  *)
LEMMA DownHolds == HeldBy(Down)
<1>1. Down.checkpoint = Absent /\ Down.held = Empty /\ Down.unlock = Absent
      /\ Down.attempt = Absent /\ Down.at = "DOWN"
  BY DEF Down
<1> QED BY <1>1 DEF HeldBy

(* What an executor holds, and that it is current when the sink says so.   *)
LEMMA HeldFacts ==
  ASSUME IInv, NEW x \in Executors
  PROVE  /\ exec[x] \in ExecState /\ HeldBy(exec[x])
         /\ exec[x].held \in Stored \cup {Empty}
         /\ exec[x].held.events \in Seq(JournalEvent)
         /\ Len(exec[x].held.events) \in Nat
         /\ Current(x) => exec[x].held = Durable
<1>1. exec[x] \in ExecState /\ HeldBy(exec[x])
  BY DEF IInv, Types, HeldInv
<1>2. exec[x].held \in Stored \cup {Empty}
  BY <1>1 DEF HeldBy
<1>3. exec[x].held \in Snapshots
  BY <1>1 DEF ExecState
<1>4. exec[x].held.events \in Seq(JournalEvent)
  BY <1>3 DEF Snapshots, JournalEvent
<1>5. Current(x) => exec[x].held = Durable
  BY <1>1 DEF Current, HeldBy, Durable
<1> QED BY <1>1, <1>2, <1>4, <1>5, LenProperties

(* An event that is stored goes behind the journal, and its call was made  *)
(* if it says so.                                                          *)
LEMMA AppendMove ==
  ASSUME IInv, NEW x \in Executors, Current(x),
         NEW event \in JournalEvent, ValidEvent(exec[x].held.events, event),
         IsCall(Next1(x)) => exec[x].held.pending # Absent,
         event.disposition \in {"SUCCEEDED", "PROVIDER_FAILURE"} => called[Next1(x)] = 1,
         durable' = Snapshot(Append(exec[x].held.events, event), Absent),
         NEW new \in {Down, Advanced(x, durable')}, Become(x, new),
         UNCHANGED <<called, starts, failures>>
  PROVE  IInv' /\ HistoryStep
<1> USE DEF IInv
<1>1. /\ exec[x] \in ExecState /\ HeldBy(exec[x]) /\ exec[x].held = Durable
      /\ Durable.events \in Seq(JournalEvent) /\ Len(Durable.events) \in Nat
      /\ DOMAIN Durable.events = 1 .. Len(Durable.events)
  BY HeldFacts, DurableTyped
<1>2. SinkGrows
  BY <1>1, AppendStored DEF Next1
<1>3. /\ durable'.events = Append(Durable.events, event) /\ durable'.pending = Absent
      /\ Durable' = durable' /\ durable' # Absent /\ durable' \in Snapshots
  BY <1>1, <1>2, Distinct DEF SinkGrows, Snapshot
<1>4. /\ Len(durable'.events) = Len(Durable.events) + 1
      /\ DOMAIN durable'.events = 1 .. Len(Durable.events) + 1
      /\ \A i \in 1 .. Len(Durable.events) : durable'.events[i] = Durable.events[i]
      /\ durable'.events[Len(Durable.events) + 1] = event
  BY <1>1, <1>3, AppendProperties, LenProperties
<1>5. new \in ExecState /\ new.at \notin {"RESERVED", "RETURNED"}
  BY <1>1, <1>3, EmptyTyped DEF Advanced, ExecState, Down
<1>6. HeldBy(new)'
  <2>1. CASE new = Down
    <3>1. Down.checkpoint = Absent /\ Down.held = Empty /\ Down.unlock = Absent
          /\ Down.attempt = Absent /\ Down.at = "DOWN"
      BY DEF Down
    <3> QED BY <2>1, <3>1 DEF HeldBy, Empty, Snapshot
  <2>2. CASE new = Advanced(x, durable')
    <3>1. /\ new.checkpoint = durable' /\ new.held = durable' /\ new.at = "NEXT"
          /\ new.attempt = Absent /\ new.unlock = exec[x].unlock
      BY <1>1, <2>2 DEF Advanced, ExecState
    <3>2. ASSUME new.unlock # Absent
          PROVE  /\ Len(durable'.events) >= FirstEvaluation - 1
                 /\ new.unlock = SubSeq(durable'.events, 1, FirstEvaluation - 1)
      <4>1. /\ FirstEvaluation - 1 \in 0 .. Len(Durable.events)
            /\ new.unlock = SubSeq(Durable.events, 1, FirstEvaluation - 1)
        BY <1>1, <3>1, <3>2, EvaluationsComeLast, SlotsAreNumbers DEF HeldBy
      <4> QED BY <1>1, <1>3, <1>4, <4>1, CutOfAppended
    <3> QED BY <1>2, <1>3, <3>1, <3>2 DEF HeldBy, SinkGrows
  <2> QED BY <2>1, <2>2
<1>7. HeldInv'
  BY <1>2, <1>5, <1>6, HeldStays DEF SinkGrows
<1>8. CallInv'
  BY <1>5, OthersCall
<1>9. Types'
  BY <1>3, <1>5, OneMoves DEF Types
<1>10. CallsAccounted'
  <2> SUFFICES ASSUME NEW s \in Slots
               PROVE  /\ called[s] <= 1
                      /\ called[s] = 1 => s \in DOMAIN durable'.events
                      /\ (s \in DOMAIN durable'.events
                           /\ durable'.events[s].disposition \in {"SUCCEEDED", "PROVIDER_FAILURE"})
                         => called[s] = 1
    BY <1>3 DEF CallsAccounted
  <2>1. Durable.pending # Absent => Durable.pending.slot = Len(Durable.events) + 1
    BY DEF SinkInv, Reservation
  <2>2. Next1(x) = Len(Durable.events) + 1
    BY <1>1 DEF Next1
  <2>3. CASE s = Len(Durable.events) + 1
    BY <1>1, <1>4, <2>2, <2>3 DEF CallsAccounted
  <2>4. CASE s # Len(Durable.events) + 1
    BY <1>1, <1>4, <2>1, <2>4 DEF CallsAccounted
  <2> QED BY <2>3, <2>4
<1> QED BY <1>2, <1>7, <1>8, <1>9, <1>10 DEF SinkGrows

(* A reservation that is stored is for a slot no call was ever made for,   *)
(* and nobody else holds a reservation for it.                             *)
LEMMA ReserveMove ==
  ASSUME IInv, NEW x \in Executors, Current(x), AtCall(x), exec[x].held.pending = Absent,
         durable' = Snapshot(exec[x].held.events, [slot |-> Next1(x), unlock |-> exec[x].unlock]),
         NEW new \in {Down, [Advanced(x, durable') EXCEPT !.at = "RESERVED"]}, Become(x, new),
         UNCHANGED <<called, starts, failures>>
  PROVE  IInv' /\ HistoryStep
<1> USE DEF IInv
<1> DEFINE slot == Len(Durable.events) + 1
<1>1. /\ exec[x] \in ExecState /\ HeldBy(exec[x]) /\ exec[x].held = Durable
      /\ Durable.events \in Seq(JournalEvent) /\ Len(Durable.events) \in Nat
      /\ DOMAIN Durable.events = 1 .. Len(Durable.events)
  BY HeldFacts, DurableTyped
<1>2. Next1(x) = slot /\ slot \in Slots /\ IsCall(slot) /\ Durable.pending = Absent
  BY <1>1 DEF Next1, AtCall, HasNext
<1>3. [slot |-> Next1(x), unlock |-> exec[x].unlock] = Reservation(Durable.events)
  <2>1. CASE IsEvaluation(slot)
    <3>1. exec[x].unlock # Absent
      BY <1>2, <2>1 DEF AtCall, NeedsAuthority
    <3> QED BY <1>1, <1>2, <2>1, <3>1 DEF HeldBy, Reservation
  <2>2. CASE ~IsEvaluation(slot)
    <3>1. slot < FirstEvaluation
      BY <1>1, <1>2, <2>2, EvaluationsComeLast, SlotsAreNumbers
    <3>2. exec[x].unlock = Absent
      BY <1>1, <3>1, EvaluationsComeLast, SlotsAreNumbers DEF HeldBy
    <3> QED BY <1>1, <1>2, <2>2, <3>2 DEF Reservation
  <2> QED BY <2>1, <2>2
<1>4. SinkGrows
  BY <1>1, <1>2, <1>3, ReserveStored
<1>5. /\ durable'.events = Durable.events /\ durable'.pending = Reservation(Durable.events)
      /\ durable'.pending # Absent
      /\ Durable' = durable' /\ durable' # Absent /\ durable' \in Snapshots
  <2>1. Verified(Durable.events)
    BY DEF SinkInv
  <2>2. Reservation(Durable.events) # Absent
    BY <1>1, <1>2, <2>1, ReservationTyped
  <2> QED BY <1>1, <1>3, <1>4, <2>2, Distinct DEF SinkGrows, Snapshot
<1>6. new \in ExecState
  BY <1>1, <1>5, EmptyTyped DEF Advanced, ExecState
<1>7. HeldBy(new)' /\ (new # Down => Len(new.held.events) = Len(Durable.events))
  <2>1. CASE new = Down
    <3>1. Down.checkpoint = Absent /\ Down.held = Empty /\ Down.unlock = Absent
          /\ Down.attempt = Absent /\ Down.at = "DOWN"
      BY DEF Down
    <3> QED BY <2>1, <3>1 DEF HeldBy, Empty, Snapshot
  <2>2. CASE new = [Advanced(x, durable') EXCEPT !.at = "RESERVED"]
    <3>1. /\ new.checkpoint = durable' /\ new.held = durable' /\ new.at = "RESERVED"
          /\ new.attempt = Absent /\ new.unlock = exec[x].unlock
      BY <1>1, <2>2 DEF Advanced, ExecState
    <3> QED BY <1>1, <1>4, <1>5, <3>1 DEF HeldBy, SinkGrows
  <2> QED BY <2>1, <2>2
<1>8. HeldInv'
  BY <1>4, <1>6, <1>7, HeldStays DEF SinkGrows
<1>9. called[slot] = 0
  <2>1. slot \notin DOMAIN Durable.events
    BY <1>1
  <2>2. called[slot] \in Nat /\ called[slot] <= 1 /\ called[slot] # 1
    BY <1>2, <2>1 DEF CallsAccounted, Types
  <2> QED BY <2>2
<1>10. ASSUME NEW y \in Executors, Busy(y) PROVE Next1(y) # slot
  <2>1. exec[y].held.pending # Absent /\ exec[y].held \in Stored \cup {Empty}
    BY <1>10, HeldFacts DEF Busy, HeldBy
  <2>2. Next1(y) \in DOMAIN Durable.events \/ exec[y].held = Durable
    BY <2>1, StoredIsCut DEF Next1
  <2> QED BY <1>1, <1>2, <2>1, <2>2
<1>11. CallInv'
  <2>1. /\ exec'[x] = new
        /\ \A y \in Executors \ {x} : exec'[y] = exec[y]
    BY <1>6, OneMoves
  <2>2. new = Down => new.at = "DOWN"
    BY DEF Down
  <2>3. new # Down => new.at = "RESERVED" /\ Len(new.held.events) + 1 = slot
    BY <1>1, <1>7 DEF Advanced, ExecState
  <2>4. CASE new = Down
    BY <2>2, <2>4, <1>6, OthersCall
  <2>5. CASE new # Down
    <3>1. /\ exec'[x].at = "RESERVED" /\ Next1(x)' = slot
          /\ \A y \in Executors \ {x} : /\ exec'[y].at = exec[y].at
                                        /\ Next1(y)' = Next1(y)
      BY <2>1, <2>3, <2>5 DEF Next1
    <3>2. \A y \in Executors \ {x} : Busy(y) => Next1(y) # slot
      BY <1>10
    <3> QED BY <1>9, <3>1, <3>2 DEF CallInv, Busy
  <2> QED BY <2>4, <2>5
<1>12. Types'
  BY <1>5, <1>6, OneMoves DEF Types
<1>13. CallsAccounted'
  BY <1>2, <1>5 DEF CallsAccounted
<1> QED BY <1>4, <1>8, <1>11, <1>12, <1>13 DEF SinkGrows

-----------------------------------------------------------------------------
(* The actions                                                             *)

\* An executor that raises is down, and nothing else happened.
LEMMA RaisesStep ==
  ASSUME IInv, NEW x \in Executors, Raises(x), UNCHANGED <<durable, called, starts, failures>>
  PROVE  IInv' /\ HistoryStep
BY EmptyTyped, DownHolds, QuietMove DEF Raises, Down, IInv, Types

(* An executor starts with nothing or with what the sink once stored.      *)
LEMMA StartStep ==
  ASSUME IInv, NEW x \in Executors, Start(x) PROVE IInv' /\ HistoryStep
<1>1. /\ starts' \in 0 .. MaxStarts /\ failures' \in 0 .. MaxFailures
      /\ UNCHANGED <<durable, called>>
  <2>1. MaxStarts \in Nat
    BY ExecutorAssumption DEF ExecutorAssumption
  <2>2. starts \in 0 .. MaxStarts /\ starts < MaxStarts /\ starts' = starts + 1
    BY DEF Start, IInv, Types
  <2>3. starts' \in 0 .. MaxStarts
    BY <2>1, <2>2
  <2> QED BY <2>3 DEF Start, IInv, Types
<1>2. CASE Become(x, [Down EXCEPT !.at = "NEXT"])
  <2> DEFINE new == [Down EXCEPT !.at = "NEXT"]
  <2>1. /\ new \in ExecState /\ new.at = "NEXT" /\ new.checkpoint = Absent
        /\ new.held = Empty /\ new.unlock = Absent /\ new.attempt = Absent
    BY EmptyTyped DEF Down, ExecState
  <2>2. HeldBy(new)
    BY <2>1 DEF HeldBy
  <2> QED BY <1>1, <1>2, <2>1, <2>2, QuietMove
<1>3. ASSUME NEW snapshot \in Stored,
             Become(x, [Down EXCEPT !.at = "NEXT", !.held = snapshot, !.checkpoint = snapshot])
      PROVE  IInv' /\ HistoryStep
  <2> DEFINE new == [Down EXCEPT !.at = "NEXT", !.held = snapshot, !.checkpoint = snapshot]
  <2>1. snapshot \in Snapshots /\ snapshot # Absent
    BY StoredIsCut DEF IInv
  <2>2. /\ new \in ExecState /\ new.at = "NEXT" /\ new.checkpoint = snapshot
        /\ new.held = snapshot /\ new.unlock = Absent /\ new.attempt = Absent
    BY <2>1, EmptyTyped DEF Down, ExecState
  <2> QED BY <1>1, <1>3, <2>1, <2>2, QuietMove DEF HeldBy
<1> QED BY <1>2, <1>3 DEF Start

(* The authority issued stands for the barrier the executor holds.         *)
LEMMA AuthorizeStep ==
  ASSUME IInv, NEW x \in Executors, AuthorizeEvaluation(x) \/ RefuseEvaluation(x)
  PROVE  IInv' /\ HistoryStep
<1>1. /\ UNCHANGED <<durable, called, starts, failures>>
      /\ exec[x].at = "NEXT"
  BY DEF AuthorizeEvaluation, RefuseEvaluation
<1>2. /\ exec[x] \in ExecState /\ HeldBy(exec[x])
      /\ exec[x].held \in Stored \cup {Empty}
      /\ exec[x].held.events \in Seq(JournalEvent) /\ Len(exec[x].held.events) \in Nat
      /\ starts' \in 0 .. MaxStarts /\ failures' \in 0 .. MaxFailures
  BY <1>1, HeldFacts DEF IInv, Types
<1>3. CASE Raises(x)
  BY <1>1, <1>3, RaisesStep
<1>4. CASE AuthorizeEvaluation(x) /\ Become(x, [exec[x] EXCEPT !.unlock = exec[x].held.events])
  <2> DEFINE new == [exec[x] EXCEPT !.unlock = exec[x].held.events]
  <2>1. Len(exec[x].held.events) + 1 = FirstEvaluation
    BY <1>4 DEF AuthorizeEvaluation, AtBarrier
  <2>2. SubSeq(exec[x].held.events, 1, FirstEvaluation - 1) = exec[x].held.events
    BY <1>2, <2>1, SubSeqFull
  <2>3. exec[x].held.events \in Barriers
    <3>1. Verified(exec[x].held.events)
      BY <1>2, StoredIsCut DEF IInv
    <3>2. Len(exec[x].held.events) >= FirstEvaluation - 1
      BY <1>2, <2>1, EvaluationsComeLast, SlotsAreNumbers
    <3> QED BY <1>2, <2>2, <3>1, <3>2, BarrierTyped
  <2>4. /\ new \in ExecState /\ new.at = exec[x].at /\ new.checkpoint = exec[x].checkpoint
        /\ new.held = exec[x].held /\ new.attempt = exec[x].attempt
        /\ new.unlock = exec[x].held.events
    BY <1>2, <2>3 DEF ExecState
  <2>5. HeldBy(new)
    BY <1>2, <2>1, <2>2, <2>4 DEF HeldBy
  <2>6. new.at \notin {"RESERVED", "RETURNED"}
    BY <1>1, <2>4
  <2> QED BY <1>1, <1>2, <1>4, <2>4, <2>5, <2>6, QuietMove
<1>5. CASE Become(x, [exec[x] EXCEPT !.at = "REFUSED"])
  <2> DEFINE new == [exec[x] EXCEPT !.at = "REFUSED"]
  <2>1. /\ new \in ExecState /\ new.at = "REFUSED" /\ new.checkpoint = exec[x].checkpoint
        /\ new.held = exec[x].held /\ new.attempt = exec[x].attempt
        /\ new.unlock = exec[x].unlock
    BY <1>2 DEF ExecState
  <2>2. HeldBy(new)
    BY <1>1, <1>2, <2>1 DEF HeldBy
  <2> QED BY <1>1, <1>2, <1>5, <2>1, <2>2, QuietMove
<1> QED BY <1>3, <1>4, <1>5 DEF AuthorizeEvaluation, RefuseEvaluation

\* The next call is reserved, or the executor raises.
LEMMA ReserveStep ==
  ASSUME IInv, NEW x \in Executors, ReserveCall(x) PROVE IInv' /\ HistoryStep
<1> DEFINE snapshot == Snapshot(exec[x].held.events,
                                [slot |-> Next1(x), unlock |-> exec[x].unlock])
           accepted == [Advanced(x, snapshot) EXCEPT !.at = "RESERVED"]
<1>1. /\ AtCall(x) /\ exec[x].held.pending = Absent
      /\ Checkpoint(x, snapshot, accepted)
      /\ UNCHANGED <<called, starts, failures>>
  BY DEF ReserveCall
<1>2. CASE UNCHANGED durable /\ Raises(x)
  BY <1>1, <1>2, RaisesStep
<1>3. CASE Current(x) /\ Store(snapshot) /\ (Become(x, accepted) \/ Raises(x))
  <2>1. durable' = snapshot
    BY <1>3 DEF Store
  <2>2. \E new \in {Down, [Advanced(x, durable') EXCEPT !.at = "RESERVED"]} : Become(x, new)
    BY <1>3, <2>1 DEF Raises
  <2> QED BY <1>1, <1>3, <2>1, <2>2, ReserveMove
<1> QED BY <1>1, <1>2, <1>3 DEF Checkpoint

\* The provider is called for the slot the executor reserved.
LEMMA DispatchStep ==
  ASSUME IInv, NEW x \in Executors, ExecuteDispatch(x) PROVE IInv' /\ HistoryStep
<1> USE DEF IInv
<1> DEFINE slot == Next1(x)
<1>1. PICK attempt \in Attempts(slot) :
        Become(x, [exec[x] EXCEPT !.at = "RETURNED", !.attempt = attempt])
  BY DEF ExecuteDispatch
<1>0. PICK new : new = [exec[x] EXCEPT !.at = "RETURNED", !.attempt = attempt]
  OBVIOUS
<1>2. /\ exec[x].at = "RESERVED" /\ UNCHANGED <<durable, starts>>
      /\ called' = [called EXCEPT ![slot] = @ + 1]
  BY DEF ExecuteDispatch
<1>3. failures' \in 0 .. MaxFailures
  BY ExecutorAssumption DEF ExecuteDispatch, Types, ExecutorAssumption
<1>4. /\ exec[x] \in ExecState /\ HeldBy(exec[x]) /\ exec[x].held \in Stored \cup {Empty}
      /\ exec[x].held.pending # Absent
  BY <1>2, HeldFacts DEF HeldBy
<1>5. slot \in Slots /\ IsCall(slot)
      /\ (slot \in DOMAIN Durable.events
           \/ (Durable.pending # Absent /\ Durable.pending.slot = slot))
  <2>1. /\ slot \in Slots /\ IsCall(slot)
        /\ exec[x].held.pending = Reservation(exec[x].held.events)
        /\ slot \in DOMAIN Durable.events \/ exec[x].held = Durable
    BY <1>4, StoredIsCut DEF Next1
  <2>2. Reservation(exec[x].held.events).slot = slot
    BY DEF Reservation, Next1
  <2> QED BY <1>4, <2>1, <2>2
<1>6. attempt \in AnyAttempt /\ attempt # Absent
  <2>1. attempt \in AnyAttempt
    BY <1>1 DEF Attempts, AnyAttempt, Dispositions, ProposalDispositions
  <2> QED BY <2>1, Distinct
<1>7. /\ new \in ExecState /\ new.at = "RETURNED" /\ new.checkpoint = exec[x].checkpoint
      /\ new.held = exec[x].held /\ new.attempt = attempt /\ new.unlock = exec[x].unlock
      /\ Become(x, new)
  BY <1>0, <1>1, <1>4, <1>6 DEF ExecState
<1>8. Durable' = Durable /\ Stored' = Stored
  BY <1>2 DEF Durable, Stored, Cut
<1>9. HeldInv'
  <2>1. HeldBy(new)
    BY <1>4, <1>6, <1>7 DEF HeldBy
  <2>2. HeldBy(new)'
    BY <2>1, <1>8 DEF HeldBy, Empty, Snapshot
  <2> QED BY <1>1, <1>7, <1>8, <2>2, HeldStays
<1>10. called[slot] = 0 /\ called'[slot] = 1 /\ called' \in [Slots -> Nat]
       /\ \A s \in Slots \ {slot} : called'[s] = called[s]
  BY <1>2, <1>5 DEF CallInv, Types
<1>11. CallInv'
  <2>1. /\ exec'[x] = new
        /\ \A y \in Executors \ {x} : exec'[y] = exec[y]
    BY <1>1, <1>7, OneMoves
  <2>2. Next1(x)' = slot /\ exec'[x].at = "RETURNED" /\ Busy(x)
        /\ \A y \in Executors \ {x} : Next1(y)' = Next1(y) /\ exec'[y].at = exec[y].at
    BY <1>2, <1>7, <2>1 DEF Next1, Busy
  <2>3. ASSUME NEW y \in Executors \ {x}, Busy(y)
        PROVE  Next1(y) # slot /\ Next1(y) \in Slots
    <3>1. Next1(y) # slot
      BY <2>2, <2>3 DEF CallInv
    <3>2. exec[y].held.pending # Absent /\ exec[y].held \in Stored \cup {Empty}
      BY <2>3, HeldFacts DEF HeldBy, Busy
    <3> QED BY <3>1, <3>2, StoredIsCut DEF Next1
  <2> QED BY <1>10, <2>2, <2>3 DEF CallInv, Busy
<1>12. Types' /\ SinkInv'
  BY <1>1, <1>2, <1>3, <1>7, <1>8, <1>10, OneMoves DEF Types, SinkInv, Empty, Snapshot
<1>13. CallsAccounted'
  BY <1>5, <1>8, <1>10 DEF CallsAccounted
<1> QED BY <1>2, <1>9, <1>11, <1>12, <1>13 DEF HistoryStep

\* An event is appended once it validates; otherwise the executor raises.
LEMMA AppendNodeStep ==
  ASSUME IInv, NEW x \in Executors, NEW event, AppendNode(x, event),
         HasNext(x) => event \in JournalEvent,
         event.disposition \in {"SUCCEEDED", "PROVIDER_FAILURE"} => called[Next1(x)] = 1,
         UNCHANGED <<called, starts, failures>>
  PROVE  IInv' /\ HistoryStep
<1> DEFINE snapshot == Snapshot(Append(exec[x].held.events, event), Absent)
<1>1. CASE UNCHANGED durable /\ Raises(x)
  BY <1>1, RaisesStep
<1>2. CASE /\ ValidEvent(exec[x].held.events, event)
           /\ IsCall(Next1(x)) => exec[x].held.pending # Absent
           /\ Current(x) /\ Store(snapshot)
           /\ Become(x, Advanced(x, snapshot)) \/ Raises(x)
  <2>1. durable' = snapshot
    BY <1>2 DEF Store
  <2>2. \E new \in {Down, Advanced(x, durable')} : Become(x, new)
    BY <1>2, <2>1 DEF Raises
  <2>3. event \in JournalEvent
    BY <1>2 DEF ValidEvent, HasNext, Next1
  <2> QED BY <1>2, <2>1, <2>2, <2>3, AppendMove
<1> QED BY <1>1, <1>2 DEF AppendNode, Checkpoint

\* What a call is recorded as is an event.
LEMMA EventTyped ==
  ASSUME IInv, NEW x \in Executors, HasNext(x),
         NEW attempt \in AnyAttempt, NEW grade \in BOOLEAN \cup {Absent},
         NEW unlock \in Barriers \cup {Absent}
  PROVE  EventOf(x, attempt, grade, unlock) \in JournalEvent
<1>1. /\ exec[x].held.events \in Seq(JournalEvent) /\ Verified(exec[x].held.events)
      /\ Next1(x) \in Slots /\ Next1(x) = Len(exec[x].held.events) + 1
  BY HeldFacts, StoredIsCut DEF HasNext, Next1, IInv
<1>2. ExecutedVariant(exec[x].held.events, Next1(x)) \in Executions
  BY <1>1, ExecutedTyped
<1>3. /\ attempt.disposition \in Dispositions /\ attempt.response \in Responses \cup {Absent}
      /\ attempt.proposal \in ProposalDispositions \cup {Absent}
  BY DEF AnyAttempt
<1> QED BY <1>2, <1>3
        DEF EventOf, CallEvent, JournalEvent, EventUnder, ProposalDispositions

(* The answer is recorded for the slot it was asked for.                   *)
LEMMA AppendCallStep ==
  ASSUME IInv, NEW x \in Executors, AppendCall(x) PROVE IInv' /\ HistoryStep
<1>1. /\ exec[x].at = "RETURNED" /\ UNCHANGED <<called, starts, failures>>
      /\ called[Next1(x)] = 1
  BY DEF AppendCall, IInv, CallInv
<1>2. /\ exec[x] \in ExecState /\ HeldBy(exec[x]) /\ exec[x].held.pending # Absent
      /\ exec[x].held \in Stored \cup {Empty}
  BY <1>1, HeldFacts DEF HeldBy
<1>3. HasNext(x)
  BY <1>2, StoredIsCut DEF HasNext, Next1, IInv
<1>4. exec[x].attempt \in AnyAttempt /\ exec[x].unlock \in Barriers \cup {Absent}
  BY <1>1, <1>2 DEF HeldBy, ExecState
<1>5. CASE UNCHANGED durable /\ Raises(x)
  BY <1>1, <1>5, RaisesStep
<1>6. ASSUME NEW grade \in BOOLEAN \cup {Absent},
             AppendNode(x, EventOf(x, exec[x].attempt, grade, exec[x].unlock))
      PROVE  IInv' /\ HistoryStep
  BY <1>1, <1>3, <1>4, <1>6, EventTyped, AppendNodeStep
<1>7. Ungraded(Next1(x)) \in BOOLEAN \cup {Absent}
  BY DEF Ungraded
<1> QED BY <1>5, <1>6, <1>7 DEF AppendCall

(* A reservation found at the top of the loop is burned, not called.       *)
LEMMA BurnStep ==
  ASSUME IInv, NEW x \in Executors, BurnPending(x) PROVE IInv' /\ HistoryStep
<1> DEFINE pending == exec[x].held.pending
           event == EventOf(x, Burn, Ungraded(Next1(x)), pending.unlock)
<1>1. /\ AtCall(x) /\ pending # Absent /\ UNCHANGED <<called, starts, failures>>
  BY DEF BurnPending
<1>2. CASE UNCHANGED durable /\ Raises(x)
  BY <1>1, <1>2, RaisesStep
<1>3. CASE AppendNode(x, event)
  <2>1. HasNext(x)
    BY <1>1 DEF AtCall
  <2>2. exec[x].held \in Snapshots
    BY HeldFacts DEF ExecState
  <2>3. pending.unlock \in Barriers \cup {Absent}
    BY <1>1, <2>2 DEF Snapshots, Reservations
  <2>4. Burn \in AnyAttempt /\ Ungraded(Next1(x)) \in BOOLEAN \cup {Absent}
    BY DEF Burn, AnyAttempt, Dispositions, Ungraded
  <2>5. event \in JournalEvent
    BY <2>1, <2>3, <2>4, EventTyped
  <2>6. event.disposition = "CRASH_RECOVERY_BURN"
    BY DEF EventOf, CallEvent, Burn
  <2> QED BY <1>1, <1>3, <2>5, <2>6, AppendNodeStep
<1> QED BY <1>2, <1>3 DEF BurnPending

(* A control is recomputed from the journal before it.                     *)
LEMMA ControlStep ==
  ASSUME IInv, NEW x \in Executors, AppendControl(x) PROVE IInv' /\ HistoryStep
<1> DEFINE slot == Next1(x)
           event == ControlAt(exec[x].held.events, slot)
<1>1. /\ HasNext(x) /\ ~IsCall(slot) /\ AppendNode(x, event)
      /\ UNCHANGED <<called, starts, failures>>
  BY DEF AppendControl
<1>2. slot \in Slots /\ Nodes[slot].kind \in ControlKinds
  BY <1>1 DEF HasNext, IsCall
<1>3. Nodes[slot].arm \in AdaptiveArms
  BY <1>2, CampaignAssumption
     DEF CampaignAssumption, StageMajor, IsEvaluation, EvaluationKinds, ControlKinds
<1>4. Nominated(exec[x].held.events, Nodes[slot].arm) \in Nat \cup {Absent}
  <2>1. Nodes[slot].arm \in Arms
    BY <1>3 DEF Arms
  <2> QED BY <1>3, <2>1, NominationIsValid, ProposalSlots
<1>5. \A value \in Nat \cup {"promote", Absent} :
        ControlEvent(value) \in JournalEvent /\ ControlEvent(value).disposition = Absent
  BY DEF ControlEvent, CallEvent, JournalEvent, EventUnder
<1>6. event \in JournalEvent /\ event.disposition = Absent
  BY <1>4, <1>5 DEF ControlAt
<1>7. Absent \notin {"SUCCEEDED", "PROVIDER_FAILURE"}
  BY AbsentAssumption DEF AbsentAssumption, Dispositions
<1> QED BY <1>1, <1>6, <1>7, AppendNodeStep

(* Initially nobody holds anything and nothing was called.                 *)
LEMMA InitEstablishes == Init => IInv
<1> SUFFICES ASSUME Init PROVE IInv
  OBVIOUS
<1>1. /\ durable = Absent /\ exec = [x \in Executors |-> Down]
      /\ called = [s \in Slots |-> 0] /\ starts = 0 /\ failures = 0
      /\ Durable = Empty
  BY DEF Init, Durable
<1>2. Empty.events = <<>> /\ Empty.pending = Absent /\ DOMAIN Empty.events = {}
  BY DEF Empty, Snapshot
<1>3. 0 \in 0 .. MaxStarts /\ 0 \in 0 .. MaxFailures
  BY ExecutorAssumption DEF ExecutorAssumption
<1>4. Types
  BY <1>1, <1>3, EmptyTyped DEF Types
<1>5. SinkInv
  BY <1>1, <1>2 DEF SinkInv, Verified
<1>6. HeldInv
  BY <1>1, DownHolds DEF HeldInv
<1>7. CallInv
  BY <1>1 DEF CallInv, Busy, Down
<1>8. CallsAccounted
  BY <1>1, <1>2 DEF CallsAccounted
<1> QED BY <1>4, <1>5, <1>6, <1>7, <1>8 DEF IInv

(* Every step keeps the invariant and lets the sink's journal only go on.  *)
LEMMA StepKeeps == ASSUME IInv, [Next]_vars PROVE IInv' /\ HistoryStep
<1>1. ASSUME NEW x \in Executors, Stop(x) PROVE IInv' /\ HistoryStep
  BY <1>1, RaisesStep DEF Stop
<1>2. CASE UNCHANGED vars
  <2>1. Durable' = Durable /\ Stored' = Stored
    BY <1>2 DEF vars, Durable, Stored, Cut
  <2> QED BY <1>2, <2>1 DEF vars, IInv, Types, SinkInv, HeldInv, HeldBy, CallInv, Busy, Next1,
                            CallsAccounted, HistoryStep, Empty, Snapshot
<1> QED BY <1>1, <1>2, StartStep, AuthorizeStep, ReserveStep, DispatchStep, AppendCallStep,
           BurnStep, ControlStep DEF Next

-----------------------------------------------------------------------------
(* Whatever executors die, restart and resume old snapshots, the provider is *)
(* called at most once for a slot and every call is accounted for in the     *)
(* journal (BfclV4PublicV2CallReservation).                                  *)
THEOREM CallsAreAccounted == Spec => []ExecutorInv
<1>1. IInv => ExecutorInv
  <2> SUFFICES ASSUME IInv, NEW x \in Executors
               PROVE  /\ exec[x].at \in {"DOWN", "NEXT", "RESERVED", "RETURNED", "REFUSED"}
                      /\ HeldBy(exec[x])
    BY DEF IInv, ExecutorInv, TypeOK, Types, HeldBy
  <2> QED BY HeldFacts DEF ExecState
<1> QED BY <1>1, InitEstablishes, StepKeeps, PTL DEF Spec

(* The journal in the sink only goes on: no event is replaced, and what is   *)
(* stored replays (_checkpoint against the last one acknowledged).           *)
THEOREM JournalGoesOn == Spec => OneHistory
<1>1. IInv /\ [Next]_vars => [HistoryStep]_vars
  BY StepKeeps
<1> QED BY <1>1, InitEstablishes, StepKeeps, PTL DEF Spec, OneHistory, HistoryStep

(* A held-out call runs a candidate only on evidence that was really         *)
(* obtained: no failed or burned call can bring a promotion about, in any    *)
(* plan (_expected_promotion).                                               *)
THEOREM PromotionsRestOnEvidence == Spec => []BurnedEvidenceNeverPromotes
<1>1. ASSUME IInv PROVE BurnedEvidenceNeverPromotes
  <2>1. Durable.events \in Seq(JournalEvent) /\ Verified(Durable.events)
    BY <1>1, DurableTyped DEF IInv, SinkInv
  <2>2. ASSUME NEW t \in DOMAIN Durable.events, t \in Slots, Succeeded(Durable.events[t])
        PROVE  called[t] = 1
    BY <1>1, <2>2 DEF IInv, CallsAccounted, Succeeded
  <2> QED BY <2>1, <2>2, PromotionRestsOnCalls DEF BurnedEvidenceNeverPromotes
<1> QED BY <1>1, InitEstablishes, StepKeeps, PTL DEF Spec

-----------------------------------------------------------------------------
(* The proposal runtime                                                    *)

Diagnosis(node) == MetaNode("DIAGNOSIS", node.cell, node.index)

\* The parent-FIT events of this runtime, each under its own node.
FitsStand ==
  \A n \in FitNodes : fits[n].node = n /\ \E outcome : fits[n] = MetaEvent(n, n, outcome.response, outcome.grade)

\* A node's event holds its own request and, if any, the reply to that.
JournalStands ==
  /\ DOMAIN journal = MetaNodes
  /\ \A n \in Answered :
       /\ requests[n] # Missing
       /\ journal[n] = MetaEvent(n, requests[n], journal[n].response, Missing)
       /\ journal[n].response # Missing => journal[n].response.request = requests[n]

\* A diagnosis was asked over the cell's own calls.
DiagnosisRequestStands(n) ==
  requests[n].evidence = [t \in 1 .. Tasks |-> fits[MetaNode("PARENT_FIT", n.cell, t)]]

\* A proposal was asked over what was parsed of the pipeline's own diagnosis.
ProposalRequestStands(n) ==
  LET result == requests[n].diagnosis IN
  /\ result \in parsed /\ result.request.node = Diagnosis(n)
  /\ requests[n].payload = ProposalPayload(result)

RequestsStand ==
  /\ DOMAIN requests = MetaNodes
  /\ \A n \in MetaNodes : requests[n] # Missing =>
       /\ requests[n] = [node |-> n, runtime |-> "LIVE", evidence |-> requests[n].evidence,
                         payload |-> requests[n].payload, diagnosis |-> requests[n].diagnosis]
       /\ n.kind = "DIAGNOSIS" => DiagnosisRequestStands(n)
       /\ n.kind = "PROPOSAL" => ProposalRequestStands(n)

\* What was parsed is of a materialized request, and where nothing is wrong
\* with it, of what that request's own node was answered.
ResultStands(r) ==
  LET n == r.request.node IN
  /\ n \in MetaNodes /\ requests[n] # Missing /\ r.request = requests[n]
  /\ Valid(r) => /\ n \in Answered /\ journal[n].response # Missing
                 /\ r.said = journal[n].response.shape.said
                 /\ n.kind = "PROPOSAL" => r.batch # Missing
  /\ ~Valid(r) => r.batch = Missing

ParsedStands == \A r \in parsed : ResultStands(r)

\* A result of this runtime was parsed here; one with nothing wrong has a batch.
OfferStands(result) ==
  /\ result.request.runtime = "LIVE" => result \in parsed
  /\ Valid(result) => result.batch # Missing

\* A batch is of results that pipelines of its cell were asked for.
BatchStandsOn(cell, results) ==
  /\ batches[cell] = Resolved(results)
  /\ \A p \in 1 .. Pipelines : /\ results[p].request.node = MetaNode("PROPOSAL", cell, p)
                                /\ OfferStands(results[p])

BatchesStand ==
  /\ DOMAIN batches = DOMAIN Cells
  /\ \A cell \in DOMAIN Cells : batches[cell] # Missing =>
       \E Results : \E results \in [1 .. Pipelines -> Results] : BatchStandsOn(cell, results)

MetaInv == FitsStand /\ JournalStands /\ RequestsStand /\ ParsedStands /\ BatchesStand

(* A nonempty set of numbers has a least element.                           *)
LEMMA LeastOf ==
  ASSUME NEW T, T \subseteq Nat, T # {} PROVE Min(T) \in T /\ \A m \in T : Min(T) <= m
<1> DEFINE below == {p \in Nat \X Nat : p[1] < p[2]}
<1>1. IsWellFoundedOn(below, Nat)
  BY NatLessThanWellFounded DEF OpToRel
<1>2. PICK n \in T : \A m \in T : ~(<<m, n>> \in below)
  BY <1>1, WFMin
<1>3. ASSUME NEW m \in T PROVE n <= m
  <2>1. ~(<<m, n>> \in Nat \X Nat /\ <<m, n>>[1] < <<m, n>>[2])
    BY <1>2
  <2> QED BY <2>1
<1> QED BY <1>3 DEF Min

(* Nothing is wrong with a reply only if there is one and it answers the    *)
(* request.                                                                *)
LEMMA CleanAnswers ==
  ASSUME NEW reply, NEW request, Extract(reply, request) = "NONE"
  PROVE  reply # Missing /\ reply.request = request
<1> DEFINE checks == ReplyFailures(reply, request)
           failed == {i \in DOMAIN checks : checks[i][1]}
<1>1. reply # Missing /\ FirstFailure(checks) = "NONE"
  BY DEF Extract
<1>2. DOMAIN checks = 1 .. 6 /\ \A i \in 1 .. 6 : checks[i][2] # "NONE"
  BY DEF ReplyFailures
<1>3. checks[1][1] = (reply.request # request)
  BY DEF ReplyFailures
<1>4. failed # {} => Min(failed) \in failed
  BY <1>2, LeastOf
<1>5. failed = {}
  BY <1>1, <1>2, <1>4 DEF FirstFailure
<1>6. ~checks[1][1]
  BY <1>2, <1>5
<1> QED BY <1>1, <1>3, <1>6

(* A node is its kind, cell and pipeline.                                   *)
LEMMA NodesAre ==
  /\ \A n \in MetaNodes : /\ n = MetaNode(n.kind, n.cell, n.index)
                          /\ n.kind \in {"DIAGNOSIS", "PROPOSAL"}
                          /\ n.cell \in DOMAIN Cells /\ n.index \in 1 .. Pipelines
  /\ \A kind \in {"DIAGNOSIS", "PROPOSAL"}, c \in DOMAIN Cells, p \in 1 .. Pipelines :
       MetaNode(kind, c, p) \in MetaNodes
  /\ \A n \in FitNodes : n.kind = "PARENT_FIT"
<1>1. DOMAIN MetaKinds = {1, 2} /\ MetaKinds[1] = "DIAGNOSIS" /\ MetaKinds[2] = "PROPOSAL"
  BY DEF MetaKinds
<1> QED BY <1>1 DEF MetaNodes, FitNodes, MetaNode

\* In one batch, every clean pipeline or its like is admitted, once.
BatchCloses(batch) ==
  LET Admitted == {p \in 1 .. Pipelines : batch[p].admitted # Missing}
  IN  \A p \in 1 .. Pipelines :
        Admissible(batch[p].result) =>
          \E q \in Admitted :
            /\ batch[q].result.said = batch[p].result.said /\ q <= p
            /\ \A other \in Admitted :
                 batch[other].result.said = batch[p].result.said => other = q
            /\ q # p => batch[p].duplicateOf = q

(* The first of the admissible pipelines with a mutation keeps it.          *)
LEMMA ResolvedCloses ==
  ASSUME NEW Results, NEW results \in [1 .. Pipelines -> Results],
         \A p \in 1 .. Pipelines : Valid(results[p]) => results[p].batch # Missing,
         NEW batch, batch = Resolved(results)
  PROVE  BatchCloses(batch)
<1> DEFINE Admitted == {p \in 1 .. Pipelines : batch[p].admitted # Missing}
<1>0. Pipelines \in Nat
  BY MetaAssumption DEF MetaAssumption
<1>1. \A p \in 1 .. Pipelines :
        /\ batch[p].result = results[p]
        /\ batch[p].duplicateOf = IF Disposition(results, p) = "DUPLICATE"
                                  THEN Min(Earlier(results, p)) ELSE Missing
        /\ batch[p].admitted = IF Disposition(results, p) = "VALID" THEN results[p].batch
                               ELSE Missing
  BY DEF Resolved
<1>2. \A p \in 1 .. Pipelines :
        /\ Disposition(results, p) = "VALID" <=> Admissible(results[p]) /\ Earlier(results, p) = {}
        /\ Admissible(results[p]) /\ Earlier(results, p) # {} => Disposition(results, p) = "DUPLICATE"
  BY DEF Disposition
<1>3. \A p \in 1 .. Pipelines :
        p \in Admitted <=> Admissible(results[p]) /\ Earlier(results, p) = {}
  BY <1>1, <1>2 DEF Admissible
<1> HIDE DEF Admitted
<1>4. \A p \in 1 .. Pipelines, q \in 1 .. Pipelines :
        q \in Earlier(results, p) <=>
          q < p /\ Admissible(results[q]) /\ results[q].said = results[p].said
  BY <1>0 DEF Earlier
<1>5. \A p \in 1 .. Pipelines : Earlier(results, p) \subseteq 1 .. Pipelines
  BY <1>0 DEF Earlier
<1>6. \A p, q \in Admitted : p \in 1 .. Pipelines /\ q \in 1 .. Pipelines
                             /\ (results[p].said = results[q].said => p = q)
  <2>1. \A p \in Admitted : p \in 1 .. Pipelines
    BY DEF Admitted
  <2> QED BY <1>0, <1>3, <1>4, <2>1
<1>7. ASSUME NEW p \in 1 .. Pipelines, Admissible(results[p])
      PROVE  \E q \in Admitted :
               /\ results[q].said = results[p].said /\ q <= p
               /\ \A other \in Admitted : results[other].said = results[p].said => other = q
               /\ q # p => batch[p].duplicateOf = q
  <2>1. CASE Earlier(results, p) = {}
    BY <1>0, <1>3, <1>6, <1>7, <2>1
  <2>2. CASE Earlier(results, p) # {}
    <3> DEFINE q == Min(Earlier(results, p))
    <3>1. q \in Earlier(results, p) /\ \A m \in Earlier(results, p) : q <= m
      BY <1>0, <1>5, <2>2, LeastOf
    <3>2. batch[p].duplicateOf = q
      BY <1>1, <1>2, <1>7, <2>2
    <3> HIDE DEF q
    <3>3. q \in 1 .. Pipelines /\ q < p /\ Admissible(results[q]) /\ results[q].said = results[p].said
      BY <1>4, <1>5, <3>1
    <3>4. Earlier(results, q) = {}
      <4>1. \A m \in Earlier(results, q) : m \in Earlier(results, p) /\ m < q
        BY <1>0, <1>4, <1>5, <3>3
      <4> QED BY <1>0, <1>5, <3>1, <3>3, <4>1
    <3>5. q \in Admitted
      BY <1>3, <3>3, <3>4
    <3>6. \A other \in Admitted : results[other].said = results[p].said => other = q
      BY <1>6, <3>3, <3>5
    <3> QED BY <1>0, <3>2, <3>3, <3>5, <3>6
  <2> QED BY <2>1, <2>2
<1>8. \A q \in Admitted : batch[q].result = results[q]
  BY <1>1, <1>6
<1>9. \A p \in 1 .. Pipelines :
        Admissible(batch[p].result) =>
          \E q \in Admitted :
            /\ batch[q].result.said = batch[p].result.said /\ q <= p
            /\ \A other \in Admitted :
                 batch[other].result.said = batch[p].result.said => other = q
            /\ q # p => batch[p].duplicateOf = q
  BY <1>1, <1>7, <1>8
<1> USE DEF Admitted
<1> QED BY <1>9 DEF BatchCloses

(* The invariant holds the whole chain of a proposal.                       *)
LEMMA ChainStands == ASSUME MetaInv PROVE ProposalsStand
<1> USE DEF MetaInv
<1>1. ASSUME NEW cell \in DOMAIN Cells, batches[cell] # Missing
      PROVE  \E Results : \E results \in [1 .. Pipelines -> Results] :
               BatchStandsOn(cell, results)
  BY <1>1 DEF BatchesStand
<1>2. DuplicatesClosed
  <2>1. ASSUME NEW cell \in DOMAIN Cells, batches[cell] # Missing
        PROVE  BatchCloses(batches[cell])
    <3>1. PICK Results : \E results \in [1 .. Pipelines -> Results] : BatchStandsOn(cell, results)
      BY <1>1, <2>1
    <3>2. PICK results \in [1 .. Pipelines -> Results] : BatchStandsOn(cell, results)
      BY <3>1
    <3>3. /\ batches[cell] = Resolved(results)
          /\ \A p \in 1 .. Pipelines : Valid(results[p]) => results[p].batch # Missing
      BY <3>2 DEF BatchStandsOn, OfferStands
    <3> QED BY <3>3, ResolvedCloses
  <2> QED BY <2>1 DEF DuplicatesClosed, BatchCloses
<1>3. FeedbackIsOwn
  <2>1. ASSUME NEW cell \in DOMAIN Cells, batches[cell] # Missing,
               NEW p \in 1 .. Pipelines, batches[cell][p].admitted # Missing,
               batches[cell][p].result.request.runtime = "LIVE"
        PROVE  LET proposal == journal[MetaNode("PROPOSAL", cell, p)]
                   diagnosis == journal[MetaNode("DIAGNOSIS", cell, p)]
                   result == batches[cell][p].result
               IN  /\ result.request.node = MetaNode("PROPOSAL", cell, p)
                   /\ {MetaNode("PROPOSAL", cell, p), MetaNode("DIAGNOSIS", cell, p)} \subseteq Answered
                   /\ proposal.response # Missing /\ diagnosis.response # Missing
                   /\ result.said = proposal.response.shape.said
                   /\ proposal.request.payload =
                        [failure |-> "NONE", said |-> diagnosis.response.shape.said]
                   /\ diagnosis.request.evidence =
                        [t \in 1 .. Tasks |-> fits[MetaNode("PARENT_FIT", cell, t)]]
    <3> DEFINE asked == MetaNode("PROPOSAL", cell, p)
               first == MetaNode("DIAGNOSIS", cell, p)
               result == batches[cell][p].result
    <3>0. PICK Results : \E results \in [1 .. Pipelines -> Results] : BatchStandsOn(cell, results)
      BY <1>1, <2>1
    <3>1. PICK results \in [1 .. Pipelines -> Results] : BatchStandsOn(cell, results)
      BY <3>0
    <3>2. /\ result = results[p] /\ Admissible(result)
      <4>1. batches[cell] = Resolved(results)
        BY <3>1 DEF BatchStandsOn
      <4>2. /\ batches[cell][p].result = results[p]
            /\ batches[cell][p].admitted = IF Disposition(results, p) = "VALID"
                                           THEN results[p].batch ELSE Missing
        BY <4>1 DEF Resolved
      <4>3. Disposition(results, p) = "VALID"
        BY <2>1, <4>2
      <4> QED BY <4>2, <4>3 DEF Disposition
    <3>3. result \in parsed /\ result.request.node = asked
      BY <2>1, <3>1, <3>2 DEF BatchStandsOn, OfferStands
    <3>4. /\ asked \in MetaNodes /\ asked.kind = "PROPOSAL" /\ Diagnosis(asked) = first
          /\ first \in MetaNodes /\ first.kind = "DIAGNOSIS" /\ first.cell = cell
      BY NodesAre DEF Diagnosis, MetaNode
    <3> HIDE DEF asked, first, result
    <3>5. /\ Valid(result) /\ requests[asked] # Missing /\ result.request = requests[asked]
          /\ asked \in Answered /\ journal[asked].response # Missing
          /\ result.said = journal[asked].response.shape.said
      BY <3>2, <3>3 DEF ParsedStands, ResultStands, Admissible
    <3> DEFINE told == requests[asked].diagnosis
    <3>6. /\ told \in parsed /\ told.request.node = first /\ Valid(told)
          /\ requests[asked].payload = ProposalPayload(told)
      BY <3>2, <3>4, <3>5 DEF RequestsStand, ProposalRequestStands, Admissible
    <3> HIDE DEF told
    <3>7. /\ requests[first] # Missing
          /\ first \in Answered /\ journal[first].response # Missing
          /\ told.said = journal[first].response.shape.said
      BY <3>6 DEF ParsedStands, ResultStands
    <3>8. requests[first].evidence = [t \in 1 .. Tasks |-> fits[MetaNode("PARENT_FIT", cell, t)]]
      BY <3>4, <3>7 DEF RequestsStand, DiagnosisRequestStands
    <3>9. journal[asked].request = requests[asked] /\ journal[first].request = requests[first]
      <4>1. \A n \in Answered : journal[n].request = requests[n]
        <5>1. \A n \in Answered :
                journal[n] = MetaEvent(n, requests[n], journal[n].response, Missing)
          BY DEF JournalStands
        <5>2. \A node, request, response, grade :
                MetaEvent(node, request, response, grade).request = request
          BY DEF MetaEvent
        <5> QED BY <5>1, <5>2
      <4> QED BY <3>5, <3>7, <4>1
    <3>10. requests[asked].payload = [failure |-> "NONE", said |-> journal[first].response.shape.said]
      BY <3>6, <3>7 DEF ProposalPayload, Valid
    <3> USE DEF asked, first, result
    <3> QED BY <3>3, <3>5, <3>7, <3>8, <3>9, <3>10
  <2> QED BY <2>1 DEF FeedbackIsOwn
<1> QED BY <1>2, <1>3 DEF ProposalsStand

(* A batch stands on what else is parsed.                                   *)
LEMMA BatchesKept ==
  ASSUME BatchesStand, batches' = batches, parsed \subseteq parsed' PROVE BatchesStand'
<1>1. ASSUME NEW cell, NEW Results, NEW results \in [1 .. Pipelines -> Results],
             BatchStandsOn(cell, results)
      PROVE  BatchStandsOn(cell, results)'
  <2>1. \A p \in 1 .. Pipelines : OfferStands(results[p])'
    BY <1>1 DEF BatchStandsOn, OfferStands
  <2>2. /\ batches'[cell] = Resolved(results)
        /\ \A p \in 1 .. Pipelines :
             results[p].request.node = MetaNode("PROPOSAL", cell, p)
    BY <1>1 DEF BatchStandsOn
  <2> QED BY <2>1, <2>2 DEF BatchStandsOn
<1>2. ASSUME NEW cell \in DOMAIN Cells, batches'[cell] # Missing
      PROVE  \E Results : \E results \in [1 .. Pipelines -> Results] :
               BatchStandsOn(cell, results)'
  <2>1. \E Results : \E results \in [1 .. Pipelines -> Results] : BatchStandsOn(cell, results)
    BY <1>2 DEF BatchesStand
  <2> QED BY <1>1, <2>1
<1> QED BY <1>2 DEF BatchesStand

(* A request that stands is materialized once.                              *)
LEMMA RequestSet ==
  ASSUME MetaInv, NEW node \in MetaNodes, requests[node] = Missing,
         NEW request, Materialized(node, request),
         request = [node |-> node, runtime |-> "LIVE", evidence |-> request.evidence,
                    payload |-> request.payload, diagnosis |-> request.diagnosis],
         node.kind = "DIAGNOSIS" =>
           request.evidence = [t \in 1 .. Tasks |-> fits[MetaNode("PARENT_FIT", node.cell, t)]],
         node.kind = "PROPOSAL" =>
           /\ request.diagnosis \in parsed /\ request.diagnosis.request.node = Diagnosis(node)
           /\ request.payload = ProposalPayload(request.diagnosis)
  PROVE  MetaInv'
<1> USE DEF MetaInv
<1>1. /\ requests' = [requests EXCEPT ![node] = request]
      /\ UNCHANGED <<fits, journal, parsed, batches>>
  BY DEF Materialized
<1>2. /\ DOMAIN requests' = MetaNodes /\ requests'[node] = request
      /\ \A n \in MetaNodes : n # node => requests'[n] = requests[n]
  BY <1>1 DEF RequestsStand
<1>3. Answered' = Answered /\ Answered \subseteq MetaNodes
  BY <1>1 DEF Answered
<1>4. FitsStand' /\ BatchesStand'
  BY <1>1, BatchesKept DEF FitsStand
<1>5. JournalStands'
  BY <1>1, <1>2, <1>3 DEF JournalStands
<1>6. RequestsStand'
  <2>1. ASSUME NEW n \in MetaNodes, requests'[n] # Missing
        PROVE  /\ requests'[n] = [node |-> n, runtime |-> "LIVE", evidence |-> requests'[n].evidence,
                                  payload |-> requests'[n].payload,
                                  diagnosis |-> requests'[n].diagnosis]
               /\ n.kind = "DIAGNOSIS" => DiagnosisRequestStands(n)'
               /\ n.kind = "PROPOSAL" => ProposalRequestStands(n)'
    <3>1. CASE n = node
      BY <1>1, <1>2, <3>1 DEF DiagnosisRequestStands, ProposalRequestStands
    <3>2. CASE n # node
      BY <1>1, <1>2, <2>1, <3>2 DEF RequestsStand, DiagnosisRequestStands, ProposalRequestStands
    <3> QED BY <3>1, <3>2
  <2> QED BY <1>2, <2>1 DEF RequestsStand
<1>7. ParsedStands'
  BY <1>1, <1>2, <1>3 DEF ParsedStands, ResultStands
<1> QED BY <1>4, <1>5, <1>6, <1>7

(* A diagnosis is asked over exactly the cell's own calls.                  *)
LEMMA DiagnosisAsked ==
  ASSUME MetaInv, NEW node \in MetaNodes, MaterializeDiagnosis(node)
  PROVE  MetaInv'
<1>0. PICK events \in [1 .. Tasks -> {e \in OfferedEvents : e.node.kind = "PARENT_FIT"}] :
        \E request :
          /\ EvidenceOf(node, events)
          /\ request = MetaRequest(node, events, DiagnosisPayload(node, events), Missing)
          /\ Materialized(node, request)
  BY DEF MaterializeDiagnosis
<1>1. PICK request :
        /\ EvidenceOf(node, events)
        /\ request = MetaRequest(node, events, DiagnosisPayload(node, events), Missing)
        /\ Materialized(node, request)
  BY <1>0
<1>2. node.kind = "DIAGNOSIS" /\ requests[node] = Missing
  BY DEF MaterializeDiagnosis
<1>3. ASSUME NEW t \in 1 .. Tasks
      PROVE  events[t] = fits[MetaNode("PARENT_FIT", node.cell, t)]
  <2> DEFINE source == MetaNode("PARENT_FIT", node.cell, t)
             e == events[t]
  <2>1. e \in OfferedEvents /\ e.node.kind = "PARENT_FIT"
    OBVIOUS
  <2>2. e.node = source /\ e.runtime = "LIVE"
    <3>1. AllowedEvidence(node) = [i \in 1 .. Tasks |-> MetaNode("PARENT_FIT", node.cell, i)]
      BY <1>2 DEF AllowedEvidence
    <3>2. DOMAIN events = 1 .. Tasks
      OBVIOUS
    <3> QED BY <1>1, <3>1, <3>2 DEF EvidenceOf, ValidSource
  <2>3. e \in {fits[n] : n \in FitNodes} \cup {journal[n] : n \in Answered}
    <3>1. CASE e \in {[thing EXCEPT !.runtime = "STALE"] :
                        thing \in {fits[n] : n \in FitNodes} \cup {journal[n] : n \in Answered}}
      <4>1. PICK thing \in {fits[n] : n \in FitNodes} \cup {journal[n] : n \in Answered} :
              e = [thing EXCEPT !.runtime = "STALE"]
        BY <3>1
      <4>2. \E n, request1, response, grade : thing = MetaEvent(n, request1, response, grade)
        BY <4>1 DEF MetaInv, FitsStand, JournalStands
      <4>3. e.runtime = "STALE"
        BY <4>1, <4>2 DEF MetaEvent
      <4> QED BY <2>2, <4>3
    <3> QED BY <2>1, <3>1 DEF OfferedEvents, Both
  <2>4. CASE e \in {journal[n] : n \in Answered}
    <3>1. PICK n \in Answered : e = journal[n]
      BY <2>4
    <3>2. e.node = n
      <4>1. e = MetaEvent(n, requests[n], journal[n].response, Missing)
        BY <3>1 DEF MetaInv, JournalStands
      <4> HIDE DEF e
      <4> QED BY <4>1 DEF MetaEvent
    <3> QED BY <2>1, <3>2, NodesAre DEF Answered
  <2>5. CASE e \in {fits[n] : n \in FitNodes}
    BY <2>2, <2>5 DEF MetaInv, FitsStand
  <2> QED BY <2>3, <2>4, <2>5
<1>4. events = [t \in 1 .. Tasks |-> fits[MetaNode("PARENT_FIT", node.cell, t)]]
  BY <1>3
<1>5. request = [node |-> node, runtime |-> "LIVE", evidence |-> request.evidence,
                 payload |-> request.payload, diagnosis |-> request.diagnosis]
      /\ request.evidence = events
  BY <1>1 DEF MetaRequest
<1> QED BY <1>1, <1>2, <1>4, <1>5, RequestSet

(* A proposal is asked over what was parsed of the pipeline's own diagnosis. *)
LEMMA ProposalAsked ==
  ASSUME MetaInv, NEW node \in MetaNodes, MaterializeProposal(node)
  PROVE  MetaInv'
<1>1. node.kind = "PROPOSAL" /\ requests[node] = Missing
  BY DEF MaterializeProposal
<1>2. PICK told, event, request :
        /\ told \in parsed
        /\ AllowedEvidence(node) = <<told.request.node>>
        /\ request = MetaRequest(node, <<event>>, ProposalPayload(told), told)
        /\ Materialized(node, request)
  BY DEF MaterializeProposal
<1>3. told.request.node = Diagnosis(node)
  BY <1>1, <1>2 DEF AllowedEvidence, Diagnosis
<1>4. /\ request = [node |-> node, runtime |-> "LIVE", evidence |-> request.evidence,
                    payload |-> request.payload, diagnosis |-> request.diagnosis]
      /\ request.diagnosis = told /\ request.payload = ProposalPayload(told)
  BY <1>2 DEF MetaRequest
<1> QED BY <1>1, <1>2, <1>3, <1>4, RequestSet

(* The one provider attempt of a node answers its own request.              *)
LEMMA AnswerStep ==
  ASSUME MetaInv, NEW node \in MetaNodes, Answer(node) PROVE MetaInv'
<1> USE DEF MetaInv
<1>1. PICK response :
        /\ journal' = [journal EXCEPT ![node] = MetaEvent(node, requests[node], response, Missing)]
        /\ response # Missing => response.request = requests[node]
  <2>1. PICK shape \in Shapes \cup {Missing} :
          journal' = [journal EXCEPT ![node] =
            MetaEvent(node, requests[node],
                      IF shape = Missing THEN Missing ELSE Reply(requests[node], shape),
                      Missing)]
    BY DEF Answer
  <2> DEFINE response == IF shape = Missing THEN Missing ELSE Reply(requests[node], shape)
  <2>2. response # Missing => response.request = requests[node]
    BY DEF Reply
  <2>3. journal' = [journal EXCEPT ![node] = MetaEvent(node, requests[node], response, Missing)]
    BY <2>1
  <2> HIDE DEF response
  <2> QED BY <2>2, <2>3
<1>2. /\ requests[node] # Missing /\ node \notin Answered
      /\ UNCHANGED <<fits, requests, parsed, batches>>
  BY DEF Answer, Turn
<1> DEFINE event == MetaEvent(node, requests[node], response, Missing)
<1>3. /\ DOMAIN journal' = MetaNodes /\ journal'[node] = event
      /\ \A n \in MetaNodes : n # node => journal'[n] = journal[n]
  BY <1>1 DEF JournalStands
<1>4. event.response = response
  BY DEF MetaEvent
<1> HIDE DEF event
<1>5. /\ Answered \subseteq Answered' /\ Answered' \subseteq Answered \cup {node}
      /\ \A n \in Answered : n # node /\ n \in MetaNodes
  BY <1>2, <1>3 DEF Answered
<1>6. JournalStands'
  <2>1. ASSUME NEW n \in Answered'
        PROVE  /\ requests'[n] # Missing
               /\ journal'[n] = MetaEvent(n, requests'[n], journal'[n].response, Missing)
               /\ journal'[n].response # Missing => journal'[n].response.request = requests'[n]
    <3>1. CASE n = node
      BY <1>1, <1>2, <1>3, <1>4, <3>1 DEF event
    <3>2. CASE n \in Answered
      BY <1>2, <1>3, <1>5, <3>2 DEF JournalStands
    <3> QED BY <1>5, <3>1, <3>2
  <2> QED BY <1>3, <2>1 DEF JournalStands
<1>7. ParsedStands'
  BY <1>2, <1>3, <1>5 DEF ParsedStands, ResultStands
<1>8. RequestsStand'
  BY <1>2 DEF RequestsStand, DiagnosisRequestStands, ProposalRequestStands
<1>9. FitsStand' /\ BatchesStand'
  BY <1>2, BatchesKept DEF FitsStand
<1> QED BY <1>6, <1>7, <1>8, <1>9

(* What is parsed of a reply, whosever it is, stands.                       *)
LEMMA ParseStep ==
  ASSUME MetaInv, NEW node \in MetaNodes, requests[node] # Missing,
         NEW source \in Answered, NEW reply \in {journal[source].response, Missing},
         Parse(node, source, reply)
  PROVE  MetaInv'
<1> USE DEF MetaInv
<1>1. PICK result :
        /\ result = IF node.kind = "DIAGNOSIS" THEN ParsedDiagnosis(requests[node], reply)
                    ELSE ParsedProposal(requests[node], reply)
        /\ parsed' = parsed \cup {result}
        /\ UNCHANGED <<fits, journal, requests, batches>>
  BY DEF Parse
<1>2. PICK failure, batch :
        /\ result = Result(requests[node], reply, failure, batch)
        /\ failure = "NONE" => Extract(reply, requests[node]) = "NONE"
        /\ failure = "NONE" /\ node.kind = "PROPOSAL" => batch # Missing
  <2>1. CASE node.kind = "DIAGNOSIS"
    BY <1>1, <2>1 DEF ParsedDiagnosis
  <2>2. CASE node.kind = "PROPOSAL"
    <3> DEFINE extracted == Extract(reply, requests[node])
               failure == CASE extracted # "NONE" -> extracted
                   [] extracted = "NONE" /\ reply.shape.said \notin Mutations ->
                        "UNKNOWN_CATALOGUE_ID"
                   [] OTHER -> IF BatchStands(RuntimeBatch(reply.shape.said)) THEN "NONE"
                               ELSE "MATERIALIZATION_INVALID"
               batch == IF failure = "NONE" THEN RuntimeBatch(reply.shape.said) ELSE Missing
    <3>1. result = Result(requests[node], reply, failure, batch)
      BY <1>1, <2>2 DEF ParsedProposal
    <3>2. failure = "NONE" => extracted = "NONE" /\ reply.shape.said \in Mutations
      OBVIOUS
    <3>3. failure = "NONE" => batch # Missing
      BY <3>2, BatchAssumption DEF BatchAssumption
    <3> HIDE DEF failure, batch
    <3> QED BY <3>1, <3>2, <3>3
  <2> QED BY <2>1, <2>2, NodesAre
<1>3. /\ result.request = requests[node] /\ result.failure = failure
      /\ result.said = IF failure = "NONE" THEN reply.shape.said ELSE Missing
      /\ result.batch = IF failure = "NONE" THEN batch ELSE Missing
  BY <1>2 DEF Result
<1>4. requests[node].node = node
  BY DEF RequestsStand
<1>5. ASSUME failure = "NONE"
      PROVE  node \in Answered /\ reply = journal[node].response /\ reply # Missing
  <2>1. reply # Missing /\ reply.request = requests[node]
    BY <1>2, <1>5, CleanAnswers
  <2>2. reply = journal[source].response /\ reply.request = requests[source]
        /\ source \in MetaNodes /\ requests[source] # Missing
    BY <2>1 DEF JournalStands, Answered
  <2>3. requests[source].node = source
    BY <2>2 DEF RequestsStand
  <2> QED BY <1>4, <2>1, <2>2, <2>3
<1>6. ResultStands(result)
  BY <1>2, <1>3, <1>4, <1>5 DEF ResultStands, Valid
<1>7. Answered' = Answered
  BY <1>1 DEF Answered
<1>8. ParsedStands'
  BY <1>1, <1>6, <1>7 DEF ParsedStands, ResultStands
<1>9. JournalStands' /\ FitsStand' /\ RequestsStand'
  BY <1>1, <1>7 DEF JournalStands, FitsStand, RequestsStand, DiagnosisRequestStands,
     ProposalRequestStands
<1>10. BatchesStand'
  BY <1>1, BatchesKept
<1> QED BY <1>8, <1>9, <1>10

(* A proposal that nothing is wrong with has its runtime batch.             *)
LEMMA ProposalHasBatch ==
  ASSUME NEW request, NEW reply, Valid(ParsedProposal(request, reply))
  PROVE  ParsedProposal(request, reply).batch # Missing
<1> DEFINE extracted == Extract(reply, request)
           failure == CASE extracted # "NONE" -> extracted
               [] extracted = "NONE" /\ reply.shape.said \notin Mutations ->
                    "UNKNOWN_CATALOGUE_ID"
               [] OTHER -> IF BatchStands(RuntimeBatch(reply.shape.said)) THEN "NONE"
                           ELSE "MATERIALIZATION_INVALID"
           batch == IF failure = "NONE" THEN RuntimeBatch(reply.shape.said) ELSE Missing
<1>1. ParsedProposal(request, reply) = Result(request, reply, failure, batch)
  BY DEF ParsedProposal
<1>2. failure = "NONE" => reply.shape.said \in Mutations
  OBVIOUS
<1>3. failure = "NONE" => batch # Missing
  BY <1>2, BatchAssumption DEF BatchAssumption
<1> HIDE DEF failure, batch
<1>4. /\ Result(request, reply, failure, batch).failure = failure
      /\ failure = "NONE" => Result(request, reply, failure, batch).batch = batch
  BY DEF Result
<1> QED BY <1>1, <1>3, <1>4 DEF Valid

(* Another runtime's result is of a pipeline here, and is not of this one.  *)
LEMMA ForeignStands ==
  ASSUME MetaInv, NEW result \in ForeignProposals
  PROVE  /\ result.request.node \in MetaNodes /\ result.request.node.kind = "PROPOSAL"
         /\ OfferStands(result)
<1>1. PICK request \in OfferedRequests, shape \in Shapes :
        /\ request.node.kind = "PROPOSAL" /\ request.runtime = "STALE"
        /\ result = ParsedProposal(request, Reply(request, shape))
  BY DEF ForeignProposals
<1>2. result.request = request
  BY <1>1 DEF ParsedProposal, Result
<1>3. request.node \in MetaNodes
  <2>1. ASSUME NEW n \in MetaNodes, requests[n] # Missing
        PROVE  requests[n].node = n /\ [requests[n] EXCEPT !.runtime = "STALE"].node = n
    <3>1. requests[n] = [node |-> n, runtime |-> "LIVE", evidence |-> requests[n].evidence,
                         payload |-> requests[n].payload, diagnosis |-> requests[n].diagnosis]
      BY <2>1 DEF MetaInv, RequestsStand
    <3> QED BY <3>1
  <2>2. PICK thing \in {requests[n] : n \in {m \in MetaNodes : requests[m] # Missing}} :
          request = thing \/ request = [thing EXCEPT !.runtime = "STALE"]
    BY DEF OfferedRequests, Both
  <2>3. PICK n \in MetaNodes : requests[n] # Missing /\ thing = requests[n]
    BY <2>2
  <2>4. request.node = n
    BY <2>1, <2>2, <2>3
  <2> QED BY <2>3, <2>4
<1>4. Valid(result) => result.batch # Missing
  BY <1>1, ProposalHasBatch
<1> QED BY <1>1, <1>2, <1>3, <1>4 DEF OfferStands

(* A resolved batch is one cell's, pipeline by pipeline.                    *)
LEMMA ResolveStep ==
  ASSUME MetaInv, NEW cell \in DOMAIN Cells, Resolve(cell) PROVE MetaInv'
<1> USE DEF MetaInv
<1> DEFINE Offered == OwnProposals \cup ForeignProposals
<1>1. PICK results \in [1 .. Pipelines -> Offered] :
        /\ OneBatch(results) /\ results[1].request.node.cell = cell
        /\ batches' = [batches EXCEPT ![cell] = Resolved(results)]
  BY DEF Resolve
<1>2. UNCHANGED <<fits, journal, requests, parsed>>
  BY DEF Resolve
<1>3. \A result \in Offered :
        /\ result.request.node \in MetaNodes /\ result.request.node.kind = "PROPOSAL"
        /\ OfferStands(result)
  <2>1. ASSUME NEW result \in OwnProposals
        PROVE  /\ result.request.node \in MetaNodes /\ result.request.node.kind = "PROPOSAL"
               /\ OfferStands(result)
    BY DEF OwnProposals, ParsedStands, ResultStands, OfferStands
  <2> QED BY <2>1, ForeignStands
<1> HIDE DEF Offered
<1>4. \A p \in 1 .. Pipelines : results[p].request.node = MetaNode("PROPOSAL", cell, p)
  <2>1. ASSUME NEW p \in 1 .. Pipelines
        PROVE  results[p].request.node = MetaNode("PROPOSAL", cell, p)
    <3>1. /\ results[p].request.node \in MetaNodes
          /\ results[p].request.node.kind = "PROPOSAL"
      BY <1>3
    <3>2. DOMAIN results = 1 .. Pipelines
      OBVIOUS
    <3>3. results[p].request.node.index = p /\ results[p].request.node.cell = cell
      BY <1>1, <3>2 DEF OneBatch
    <3> QED BY <3>1, <3>3, NodesAre
  <2> QED BY <2>1
<1>5. BatchesStand'
  <2>1. DOMAIN batches' = DOMAIN Cells /\ batches'[cell] = Resolved(results)
    BY <1>1 DEF BatchesStand
  <2>2. \A p \in 1 .. Pipelines : OfferStands(results[p])
    BY <1>3
  <2>3. BatchStandsOn(cell, results)'
    BY <1>2, <1>4, <2>1, <2>2 DEF BatchStandsOn, OfferStands
  <2>4. ASSUME NEW other \in DOMAIN Cells, batches'[other] # Missing
        PROVE  \E Results : \E kept \in [1 .. Pipelines -> Results] :
                 BatchStandsOn(other, kept)'
    <3>1. CASE other = cell
      BY <2>3, <3>1
    <3>2. CASE other # cell
      <4>1. batches'[other] = batches[other]
        BY <1>1, <3>2 DEF BatchesStand
      <4>2. PICK Results : \E kept \in [1 .. Pipelines -> Results] : BatchStandsOn(other, kept)
        BY <2>4, <4>1 DEF BatchesStand
      <4>3. PICK kept \in [1 .. Pipelines -> Results] : BatchStandsOn(other, kept)
        BY <4>2
      <4>4. BatchStandsOn(other, kept)'
        BY <1>2, <4>1, <4>3 DEF BatchStandsOn, OfferStands
      <4> QED BY <4>4
    <3> QED BY <3>1, <3>2
  <2> QED BY <2>1, <2>4 DEF BatchesStand
<1>6. Answered' = Answered
  BY <1>2 DEF Answered
<1>7. JournalStands' /\ FitsStand' /\ RequestsStand' /\ ParsedStands'
  BY <1>2, <1>6 DEF JournalStands, FitsStand, RequestsStand, DiagnosisRequestStands,
     ProposalRequestStands, ParsedStands, ResultStands
<1> QED BY <1>5, <1>7

(* At the start the parent-FIT calls are journaled and nothing else is.     *)
LEMMA MetaStarts == ASSUME MetaInit PROVE MetaInv
<1>1. FitsStand
  <2>1. ASSUME NEW n \in FitNodes
        PROVE  fits[n].node = n
               /\ \E outcome : fits[n] = MetaEvent(n, n, outcome.response, outcome.grade)
    <3>1. fits[n] \in FitEvents /\ fits[n].node = n
      BY DEF MetaInit
    <3>2. PICK m \in FitNodes, outcome \in FitOutcomes :
            fits[n] = MetaEvent(m, m, outcome.response, outcome.grade)
      BY <3>1 DEF FitEvents
    <3>3. m = n
      BY <3>1, <3>2 DEF MetaEvent
    <3> QED BY <3>1, <3>2, <3>3
  <2> QED BY <2>1 DEF FitsStand
<1>2. Answered = {}
  BY DEF MetaInit, Answered
<1> QED BY <1>1, <1>2
        DEF MetaInit, MetaInv, JournalStands, RequestsStand, ParsedStands, BatchesStand

(* Whatever pairings a caller makes and whatever the provider replies, an   *)
(* admitted mutation that was parsed under this runtime rests on its own    *)
(* pipeline's diagnosis of its own cell's calls; and whatever runtimes the  *)
(* results are of, a repeated mutation is kept by the lowest pipeline       *)
(* (bfcl_v4_public_v2_meta_runtime.py).                                    *)
THEOREM ProposalsAreOwn == MetaSpec => []ProposalsStand
<1>1. MetaInit => MetaInv
  BY MetaStarts
<1>2. MetaInv /\ [MetaNext]_metaVars => MetaInv'
  <2>1. ASSUME MetaInv, MetaNext PROVE MetaInv'
    BY <2>1, DiagnosisAsked, ProposalAsked, AnswerStep, ParseStep, ResolveStep DEF MetaNext
  <2>2. ASSUME MetaInv, UNCHANGED metaVars PROVE MetaInv'
    <3>1. Answered' = Answered
      BY <2>2 DEF metaVars, Answered
    <3>2. BatchesStand'
      BY <2>2, BatchesKept DEF metaVars, MetaInv
    <3> QED BY <2>2, <3>1, <3>2 DEF metaVars, MetaInv, JournalStands, FitsStand, RequestsStand,
       DiagnosisRequestStands, ProposalRequestStands, ParsedStands, ResultStands
  <2> QED BY <2>1, <2>2
<1>3. MetaInv => ProposalsStand
  BY ChainStands
<1> QED BY <1>1, <1>2, <1>3, PTL DEF MetaSpec
=============================================================================
