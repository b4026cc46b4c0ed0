---------------------------- MODULE PublicCampaign ----------------------------
(***************************************************************************)
(* The frozen public BFCL v2 campaign and what a journal of it must say:   *)
(* benchmark/bfcl_v4_public_development_v2_call_plan.py lays its nodes out *)
(* stage by stage, experiments/bfcl_v4_public_v2_executor_replay.py        *)
(* recomputes every nomination, decision and executed variant from the     *)
(* events before it and accepts an event only if it says the same.         *)
(*                                                                         *)
(* An event stands at the position of its node, and a prefix of events     *)
(* stands for its hash chain.                                              *)
(***************************************************************************)
EXTENDS Naturals, Sequences, FiniteSets, SequencesExt

CONSTANTS Nodes,      \* the frozen node sequence
          Responses,  \* canonical responses that tell graded calls apart
          Absent

Kinds == {"PARENT_FIT", "DIAGNOSIS", "PROPOSAL", "CANDIDATE_FIT", "NOMINATION",
          "GATE", "GATE_DECISION", "HOLDOUT", "PURE_AT_B_SAMPLE"}
ControlKinds == {"NOMINATION", "GATE_DECISION"}
GradableKinds == {"PARENT_FIT", "CANDIDATE_FIT", "GATE", "HOLDOUT"}
EvaluationKinds == {"HOLDOUT", "PURE_AT_B_SAMPLE"}
AdaptiveArms == {"score", "full"}
ShadowVariants == {"parent", "revert", "negative-control"}
GateVariants == ShadowVariants \cup {"nominated-candidate"}

Slots == DOMAIN Nodes
Arms == AdaptiveArms \cup {"pure", "static", "pure-at-b"}

\* The slots of a kind within an arm; a constant, so tables.
SlotTable == [kind \in Kinds |-> [arm \in Arms |->
                {s \in Slots : Nodes[s].kind = kind /\ Nodes[s].arm = arm}]]
SlotsOf(kind, arm) == SlotTable[kind][arm]
ControlSlot == [kind \in ControlKinds |-> [arm \in AdaptiveArms |->
                  CHOOSE s \in SlotTable[kind][arm] : TRUE]]
SlotOf(kind, arm) == ControlSlot[kind][arm]
IsCall(s) == Nodes[s].kind \notin ControlKinds
IsEvaluation(s) == Nodes[s].kind \in EvaluationKinds
EvaluationSlots == {s \in Slots : IsEvaluation(s)}
FirstEvaluation == CHOOSE s \in EvaluationSlots : \A t \in EvaluationSlots : s <= t

Stage == [PARENT_FIT |-> 1, DIAGNOSIS |-> 2, PROPOSAL |-> 3, CANDIDATE_FIT |-> 4,
          NOMINATION |-> 5, GATE |-> 6, GATE_DECISION |-> 7, HOLDOUT |-> 8,
          PURE_AT_B_SAMPLE |-> 8]

\* What _build_drafts fixes of the order and of the nodes of an arm.
StageMajor ==
  /\ \A s, t \in Slots : s <= t => Stage[Nodes[s].kind] <= Stage[Nodes[t].kind]
  /\ EvaluationSlots # {}
  /\ \A s \in Slots : ~IsEvaluation(s) => Nodes[s].arm \in AdaptiveArms
  /\ \A s \in Slots : Nodes[s].arm \in AdaptiveArms =>
       /\ Cardinality(SlotsOf("NOMINATION", Nodes[s].arm)) = 1
       /\ Cardinality(SlotsOf("GATE_DECISION", Nodes[s].arm)) = 1
  /\ \A s \in Slots : /\ Nodes[s].kind = "PROPOSAL" => Nodes[s].candidate \in Nat
                      /\ Nodes[s].kind = "GATE" => Nodes[s].variant \in GateVariants
  /\ \A s \in Slots : Nodes[s].kind = "CANDIDATE_FIT" =>
       \E p \in SlotsOf("PROPOSAL", Nodes[s].arm) : Nodes[p].candidate = Nodes[s].candidate

ASSUME CampaignAssumption ==
  /\ Nodes \in Seq([kind : Kinds, arm : Arms, cell : Nat, candidate : Nat \cup {Absent},
                    variant : GateVariants \cup {Absent}])
  /\ StageMajor
  /\ Absent \notin Nat \cup Responses \cup GateVariants

Candidates == {Nodes[s].candidate : s \in {t \in Slots : Nodes[t].kind = "PROPOSAL"}}
Proposals(arm) == {Nodes[s].candidate : s \in SlotsOf("PROPOSAL", arm)}
ProposalSlot(arm, c) == CHOOSE s \in SlotsOf("PROPOSAL", arm) : Nodes[s].candidate = c
FitTable == [arm \in AdaptiveArms |-> [c \in Candidates |->
               {s \in SlotsOf("CANDIDATE_FIT", arm) : Nodes[s].candidate = c}]]
CandidateFitSlots(arm, c) == FitTable[arm][c]
GateSlots(arm, variant) == {s \in SlotsOf("GATE", arm) : Nodes[s].variant = variant}

Dispositions == {"SUCCEEDED", "PROVIDER_FAILURE", "CRASH_RECOVERY_BURN"}
ProposalDispositions == {"VALID", "INVALID", "PROVIDER_FAILURE"}

\* The authority of an evaluation call stands for the prefix it was issued on.
CallEvent(disposition, response, grade, proposal, executed, unlock) ==
  [disposition |-> disposition, response |-> response, grade |-> grade,
   proposal |-> proposal, executed |-> executed, unlock |-> unlock, control |-> Absent]
ControlEvent(value) ==
  [CallEvent(Absent, Absent, Absent, Absent, Absent, Absent) EXCEPT !.control = value]

\* The harnesses a call may run, events under an unlock, and what a journal holds.
Executions == {<<"parent">>, <<"static-frozen">>, <<"bare">>, <<"controller">>}
              \cup {<<variant>> : variant \in ShadowVariants}
              \cup {"typed-candidate"} \X Nat
EventUnder(unlocks) ==
  [disposition : Dispositions \cup {Absent}, response : Responses \cup {Absent},
   grade : BOOLEAN \cup {Absent}, proposal : ProposalDispositions \cup {Absent},
   executed : Executions \cup {Absent}, unlock : unlocks \cup {Absent},
   control : Nat \cup {"promote", Absent}]
Barriers == Seq(EventUnder({}))
Reservations == [slot : Slots, unlock : Barriers \cup {Absent}]
Snapshots == [events : Seq(EventUnder(Barriers)), pending : Reservations \cup {Absent}]

\* Nothing a journal records is the absence of it.
ASSUME AbsentAssumption ==
  /\ Absent \notin Dispositions \cup ProposalDispositions \cup {"promote"}
  /\ Absent \notin BOOLEAN /\ Absent \notin Executions
  /\ Absent \notin Barriers /\ Absent \notin Reservations /\ Absent \notin Snapshots

-----------------------------------------------------------------------------
(* Deterministic controls                                                  *)

Succeeded(event) == event.disposition = "SUCCEEDED"
Graded(events, slots) == Cardinality({s \in slots : events[s].grade = TRUE})

\* candidate_event_is_valid
ValidCandidate(events, arm, c) ==
  LET event == events[ProposalSlot(arm, c)]
  IN  Succeeded(event) /\ event.proposal = "VALID"

\* Most graded FIT calls, then the lowest slot, among the valid candidates;
\* Absent is the parent.
Nominated(events, arm) ==
  LET valid == {c \in Proposals(arm) : ValidCandidate(events, arm, c)}
      Correct(c) == Graded(events, CandidateFitSlots(arm, c))
  IN  IF valid = {} THEN Absent
      ELSE CHOOSE c \in valid :
             \A d \in valid : \/ Correct(c) > Correct(d)
                              \/ Correct(c) = Correct(d) /\ c <= d

\* The arm's calls its decision looks at.
Evidence(arm, c) ==
  SlotsOf("PARENT_FIT", arm) \cup CandidateFitSlots(arm, c) \cup SlotsOf("GATE", arm)

\* parent, revert and negative control answered alike on every gate cell.
ShadowExact(events, arm) ==
  \A s, t \in SlotsOf("GATE", arm) :
    (/\ Nodes[s].cell = Nodes[t].cell
     /\ Nodes[s].variant \in ShadowVariants /\ Nodes[t].variant \in ShadowVariants)
      => /\ events[s].response = events[t].response
         /\ events[s].grade = events[t].grade

\* Mutant: a failed or burned call only counts as a wrong answer.
PromotedOnScores(events, arm) ==
  LET c == events[SlotOf("NOMINATION", arm)].control
  IN  /\ c # Absent
      /\ ShadowExact(events, arm)
      /\ Graded(events, CandidateFitSlots(arm, c)) >= Graded(events, SlotsOf("PARENT_FIT", arm))
      /\ Graded(events, GateSlots(arm, "nominated-candidate"))
           > Graded(events, GateSlots(arm, "parent"))

Promoted(events, arm) ==
  LET c == events[SlotOf("NOMINATION", arm)].control
  IN  /\ c # Absent
      /\ ValidCandidate(events, arm, c)
      /\ \A s \in Evidence(arm, c) : Succeeded(events[s])
      /\ ShadowExact(events, arm)
      /\ Graded(events, CandidateFitSlots(arm, c)) >= Graded(events, SlotsOf("PARENT_FIT", arm))
      /\ Graded(events, GateSlots(arm, "nominated-candidate"))
           > Graded(events, GateSlots(arm, "parent"))

\* _build_control_event: the value the events before slot s determine.
ControlAt(events, s) ==
  IF Nodes[s].kind = "NOMINATION" THEN ControlEvent(Nominated(events, Nodes[s].arm))
  ELSE ControlEvent(IF Promoted(events, Nodes[s].arm) THEN "promote" ELSE Absent)

Typed(c) == IF c = Absent THEN <<"parent">> ELSE <<"typed-candidate", c>>

\* The harness a call runs, from the events before it.
ExecutedVariant(events, s) ==
  LET node == Nodes[s]
      nominee == events[SlotOf("NOMINATION", node.arm)].control
      promoted == events[SlotOf("GATE_DECISION", node.arm)].control = "promote"
  IN  CASE node.kind = "CANDIDATE_FIT" /\ ValidCandidate(events, node.arm, node.candidate) ->
             Typed(node.candidate)
        [] node.kind = "GATE" /\ node.variant = "nominated-candidate" -> Typed(nominee)
        [] node.kind = "GATE" /\ node.variant # "nominated-candidate" -> <<node.variant>>
        [] node.kind = "HOLDOUT" /\ node.arm \in AdaptiveArms ->
             IF promoted THEN Typed(nominee) ELSE <<"parent">>
        [] node.kind \in EvaluationKinds /\ node.arm = "static" -> <<"static-frozen">>
        [] node.kind \in EvaluationKinds /\ node.arm \in {"pure", "pure-at-b"} -> <<"bare">>
        [] node.kind \in {"DIAGNOSIS", "PROPOSAL"} -> <<"controller">>
        [] OTHER -> <<"parent">>

-----------------------------------------------------------------------------
(* The verification of a journal                                           *)

Unlocks(events) == {events[s].unlock : s \in DOMAIN events} \ {Absent}

\* _validate_call_event
ValidCall(events, s, event) ==
  LET kind == Nodes[s].kind
  IN  /\ event.control = Absent /\ event.disposition \in Dispositions
      /\ event.executed = ExecutedVariant(events, s)
      /\ Succeeded(event) <=> event.response # Absent
      /\ kind \in GradableKinds <=> event.grade # Absent
      /\ kind \in GradableKinds /\ ~Succeeded(event) => event.grade = FALSE
      /\ IsEvaluation(s) <=> event.unlock # Absent
      /\ Unlocks(events) \subseteq {event.unlock}
      /\ IF kind = "PROPOSAL"
         THEN event.proposal \in IF Succeeded(event) THEN {"VALID", "INVALID"}
                                 ELSE {"PROVIDER_FAILURE"}
         ELSE event.proposal = Absent

ValidEvent(events, event) ==
  LET s == Len(events) + 1
  IN  /\ s \in Slots
      /\ IF IsCall(s) THEN ValidCall(events, s, event) ELSE event = ControlAt(events, s)

\* replay_bfcl_v4_public_v2_journal, without require_complete
Replays(snapshot) ==
  /\ \A s \in DOMAIN snapshot.events :
       ValidEvent(SubSeq(snapshot.events, 1, s - 1), snapshot.events[s])
  /\ snapshot.pending # Absent =>
       LET s == Len(snapshot.events) + 1
       IN  s \in Slots /\ IsCall(s) /\ snapshot.pending.slot = s
=============================================================================
