------------------------------ MODULE SearchReplay ------------------------------
(***************************************************************************)
(* experiments/search.py: the linked events of one search and the replay   *)
(* that turns them back into a snapshot.  The rules of a search are        *)
(* written twice: a controller operation checks the snapshot before it     *)
(* appends its event, and SearchJournal._replay_semantics checks the event *)
(* against what the events before it lead to.                              *)
(*                                                                         *)
(* Run coordinates, links and signatures always match here: the events are *)
(* those of one controller.  A nomination, a pool, a report or a packet    *)
(* that is only a reference is left out of its event.                      *)
(***************************************************************************)
EXTENDS SearchJournal, SequencesExt

VARIABLE events      \* the journal from its root to the tail

NoIndex == -1

Shape(from, to, at, next) == [from |-> from, to |-> to, at |-> at, next |-> next]
InRound(at, next) == Shape("SEARCHING", "SEARCHING", at, next)

\* _EVENT_SHAPES: the transition each kind declares; an invalidation declares
\* the state and the stage it finds.
Shapes ==
  [FROZEN |-> Shape("NONE", "FROZEN", "NONE", "NONE"),
   SEARCH_STARTED |-> Shape("FROZEN", "SEARCHING", "NONE", "NONE"),
   ROUND_OPENED |-> InRound("NONE", "ROUND_OPEN"),
   EVIDENCE_RECORDED |-> InRound("ROUND_OPEN", "EVIDENCE_READY"),
   CANDIDATE_POOL_RECORDED |-> InRound("EVIDENCE_READY", "CANDIDATE_POOL_READY"),
   SCREEN_RECORDED |-> InRound("CANDIDATE_POOL_READY", "SCREENED"),
   CANDIDATE_NOMINATED |-> InRound("SCREENED", "NOMINATED"),
   NO_CANDIDATE_RECORDED |-> InRound("SCREENED", "NO_CANDIDATE"),
   NOMINATED_ROUND_COMPLETED |-> InRound("NOMINATED", "ROUND_COMPLETE"),
   EMPTY_ROUND_COMPLETED |-> InRound("NO_CANDIDATE", "ROUND_COMPLETE"),
   SELECTION_CLOSED |-> Shape("SEARCHING", "SELECTION_CLOSED", "NONE", "NONE")]

Kinds == DOMAIN Shapes \cup {"INVALIDATED"}
RoundKinds == {kind \in DOMAIN Shapes : Shapes[kind].at # Shapes[kind].next}

\* SearchSelectionClosure and the payload of an event that carries none.
Closure(s) == [champion |-> s.champion, rounds |-> s.count.completed,
               nominations |-> s.count.nominations]
NoPayload == [pool |-> {}, declined |-> FALSE, eligible |-> {}, nominated |-> Absent,
              terminal |-> Absent, disclosure |-> Absent, closure |-> Absent,
              reasons |-> {}]

Snapshot == [state |-> state, round |-> round, count |-> count, champion |-> champion,
             disclosed |-> disclosed]
Unwritten == [state |-> "NONE", round |-> NoRound, count |-> NothingCounted,
              champion |-> Seed, disclosed |-> <<>>]

-----------------------------------------------------------------------------
(* SearchController._append                                                *)

\* The round an operation on a snapshot belongs to.
ActiveRound(s) == IF s.round.stage = "NONE" THEN NoIndex ELSE s.count.completed

ShapeOf(kind, s) ==
  IF kind = "INVALIDATED" THEN Shape(s.state, "INVALIDATED", s.round.stage, "NONE")
  ELSE Shapes[kind]

IndexOf(kind, s) ==
  CASE kind = "ROUND_OPENED" -> s.count.completed
    [] kind \in RoundKinds \cup {"INVALIDATED"} -> ActiveRound(s)
    [] OTHER -> NoIndex

Event(kind, index, before, after, shape, payload) ==
  [kind |-> kind, index |-> index, before |-> before, after |-> after,
   shape |-> shape, payload |-> payload]

EventFor(kind, s, after, payload) ==
  Event(kind, IndexOf(kind, s), s.champion, after, ShapeOf(kind, s), payload)

AppendEvent(kind, after, payload) ==
  events' = Append(events, EventFor(kind, Snapshot, after, payload))
AppendPlain(kind) == AppendEvent(kind, champion, NoPayload)

\* One controller operation with its event; the authorizations are those the
\* experiment can verify.
Operation(authorizations) ==
  \/ FreezeSearch /\ AppendPlain("FROZEN")
  \/ StartSearch /\ AppendPlain("SEARCH_STARTED")
  \/ OpenRound /\ AppendPlain("ROUND_OPENED")
  \/ RecordEvidence /\ AppendPlain("EVIDENCE_RECORDED")
  \/ \E pool \in SUBSET Candidates, declined \in BOOLEAN :
       /\ RecordPool(pool, declined)
       /\ AppendEvent("CANDIDATE_POOL_RECORDED", champion,
                  [NoPayload EXCEPT !.pool = pool, !.declined = declined])
  \/ \E eligible \in SUBSET round.pool :
       /\ RecordScreen(eligible)
       /\ AppendEvent("SCREEN_RECORDED", champion, [NoPayload EXCEPT !.eligible = eligible])
  \/ \E c \in Candidates :
       /\ Nominate(c)
       /\ AppendEvent("CANDIDATE_NOMINATED", champion, [NoPayload EXCEPT !.nominated = c])
  \/ RecordNoCandidate /\ AppendPlain("NO_CANDIDATE_RECORDED")
  \/ \E authorization \in authorizations :
       /\ CompleteNominated(authorization)
       /\ AppendEvent("NOMINATED_ROUND_COMPLETED", champion',
                  [NoPayload EXCEPT !.nominated = round.nominated,
                                    !.terminal = authorization,
                                    !.disclosure = disclosed'[Len(disclosed')]])
  \/ CompleteEmpty /\ AppendPlain("EMPTY_ROUND_COMPLETED")
  \/ /\ CloseSearch
     /\ AppendEvent("SELECTION_CLOSED", champion,
                [NoPayload EXCEPT !.closure = Closure(Snapshot), !.reasons = StopReasons])
  \/ InvalidateSearch /\ AppendPlain("INVALIDATED")

-----------------------------------------------------------------------------
(* SearchJournalEventContent: events that can be stored at all             *)

Carries(payload, fields) ==
  \A field \in DOMAIN NoPayload \ fields : payload[field] = NoPayload[field]

CarriesItsPayload(e) ==
  CASE e.kind = "CANDIDATE_POOL_RECORDED" ->
         Carries(e.payload, {"pool", "declined"}) /\ (e.payload.declined => e.payload.pool = {})
    [] e.kind = "SCREEN_RECORDED" -> Carries(e.payload, {"eligible"})
    [] e.kind = "CANDIDATE_NOMINATED" ->
         Carries(e.payload, {"nominated"}) /\ e.payload.nominated # Absent
    [] e.kind = "NOMINATED_ROUND_COMPLETED" ->
         /\ Carries(e.payload, {"nominated", "terminal", "disclosure"})
         /\ Absent \notin {e.payload.nominated, e.payload.terminal, e.payload.disclosure}
    [] e.kind = "SELECTION_CLOSED" ->
         /\ Carries(e.payload, {"closure", "reasons"})
         /\ e.payload.closure # Absent /\ e.payload.reasons # {}
    [] OTHER -> Carries(e.payload, {})

WellShaped(e) ==
  /\ IF e.kind = "INVALIDATED"
     THEN /\ e.shape.from \in {"FROZEN", "SEARCHING", "SELECTION_CLOSED"}
          /\ e.shape.to = "INVALIDATED" /\ e.shape.next = "NONE"
          /\ (e.index = NoIndex) <=> (e.shape.at = "NONE")
     ELSE e.shape = Shapes[e.kind] /\ ((e.index # NoIndex) <=> (e.kind \in RoundKinds))
  /\ CarriesItsPayload(e)
  /\ e.kind # "NOMINATED_ROUND_COMPLETED" => e.after = e.before

-----------------------------------------------------------------------------
(* SearchJournal._replay_semantics                                         *)

\* Guards and effects of the journal are stated over the replayed snapshot.
At(s) == INSTANCE SearchJournal WITH
           state <- s.state, round <- s.round, count <- s.count,
           champion <- s.champion, disclosed <- s.disclosed

\* _require_round_join
Joins(s, e) == e.index # NoIndex /\ e.index = ActiveRound(s) /\ e.shape.at = s.round.stage
Idle(s) == s.round.stage = "NONE"

\* Mutant: a candidate the screen turned down may be nominated.
PooledIn(s, c) == c \in s.round.pool

EligibleIn(s, c) == c \in s.round.eligible

Takes(s, e) ==
  CASE e.kind = "FROZEN" -> s = Unwritten
    [] e.kind = "SEARCH_STARTED" -> Idle(s)
    [] e.kind = "ROUND_OPENED" ->
         At(s)!StopReasons = {} /\ Idle(s) /\ e.index = s.count.completed
    [] e.kind = "SCREEN_RECORDED" ->
         Joins(s, e) /\ e.payload.eligible \subseteq s.round.pool
    [] e.kind = "CANDIDATE_NOMINATED" ->
         /\ Joins(s, e) /\ EligibleIn(s, e.payload.nominated)
         /\ s.count.nominations < manifest.nominations
    [] e.kind = "NO_CANDIDATE_RECORDED" -> Joins(s, e) /\ s.round.eligible = {}
    [] e.kind = "NOMINATED_ROUND_COMPLETED" ->
         /\ Joins(s, e) /\ e.payload.nominated = s.round.nominated
         /\ At(s)!Authorizes(e.payload.terminal)
         /\ e.after = (IF e.payload.terminal.terminal = "PROMOTED" THEN s.round.nominated
                       ELSE s.champion)
         /\ e.payload.disclosure = At(s)!Disclose(e.payload.terminal, e.after)
    [] e.kind = "SELECTION_CLOSED" ->
         Idle(s) /\ e.payload.reasons = At(s)!StopReasons /\ e.payload.closure = Closure(s)
    [] e.kind = "INVALIDATED" -> e.shape.at = s.round.stage /\ e.index = ActiveRound(s)
    [] OTHER -> Joins(s, e)

Stage(s, e) == [s EXCEPT !.round.stage = e.shape.next]

Moves(s, e) ==
  CASE e.kind = "ROUND_OPENED" -> [s EXCEPT !.round = [NoRound EXCEPT !.stage = "ROUND_OPEN"]]
    [] e.kind = "CANDIDATE_POOL_RECORDED" ->
         [Stage(s, e) EXCEPT !.round.pool = e.payload.pool,
                             !.round.declined = e.payload.declined]
    [] e.kind = "SCREEN_RECORDED" ->
         [Stage(s, e) EXCEPT !.round.eligible = e.payload.eligible]
    [] e.kind = "CANDIDATE_NOMINATED" ->
         [Stage(s, e) EXCEPT !.round.nominated = e.payload.nominated,
                             !.count.nominations = @ + 1]
    [] e.kind = "NOMINATED_ROUND_COMPLETED" ->
         [s EXCEPT !.round = NoRound, !.champion = e.after,
                   !.count = At(s)!NominationCounted(e.payload.terminal.terminal = "PROMOTED"),
                   !.disclosed = Append(@, e.payload.disclosure)]
    [] e.kind = "EMPTY_ROUND_COMPLETED" ->
         [s EXCEPT !.round = NoRound, !.count = At(s)!EmptyCounted]
    [] e.kind = "INVALIDATED" -> [s EXCEPT !.round = NoRound]
    [] OTHER -> Stage(s, e)

\* What the replay accepts: the event starts where the events before it end.
Accepts(s, e) ==
  /\ s # Absent
  /\ e.shape.from = s.state /\ e.before = s.champion
  /\ WellShaped(e) /\ Takes(s, e)

Replay(s, e) ==
  IF Accepts(s, e) THEN [Moves(s, e) EXCEPT !.state = e.shape.to] ELSE Absent

Replayed(log) == FoldLeft(Replay, Unwritten, log)

-----------------------------------------------------------------------------
(* Properties                                                              *)

\* Events of one kind that could be signed: any round, any champions, any
\* payload of the kind, whatever the journal has come to.
Payloads(kind, index, after, authorizations) ==
  CASE kind = "CANDIDATE_POOL_RECORDED" ->
         {[NoPayload EXCEPT !.pool = pool, !.declined = declined] :
            pool \in SUBSET Candidates, declined \in BOOLEAN}
    [] kind = "SCREEN_RECORDED" ->
         {[NoPayload EXCEPT !.eligible = eligible] : eligible \in SUBSET Candidates}
    [] kind = "CANDIDATE_NOMINATED" ->
         {[NoPayload EXCEPT !.nominated = c] : c \in Candidates}
    [] kind = "NOMINATED_ROUND_COMPLETED" ->
         {[NoPayload EXCEPT !.nominated = c, !.terminal = a,
             !.disclosure = [round |-> index, candidate |-> c, terminal |-> a.terminal,
                             champion |-> after]] : c \in Candidates, a \in authorizations}
    [] kind = "SELECTION_CLOSED" ->
         {[NoPayload EXCEPT !.closure = [Closure(Snapshot) EXCEPT !.champion = h],
                            !.reasons = reasons] :
            h \in Harnesses,
            reasons \in SUBSET {"STATIC", "MAX_ROUNDS", "MAX_GATE_NOMINATIONS", "PATIENCE",
                               "MAX_CONSECUTIVE_DECLINES"}}
    [] OTHER -> {NoPayload}

Afters(kind, before) ==
  IF kind = "NOMINATED_ROUND_COMPLETED" THEN Harnesses ELSE {before}

ShapesOf(kind) ==
  IF kind = "INVALIDATED"
  THEN {Shape(from, "INVALIDATED", at, "NONE") : from \in States, at \in Stages}
  ELSE {Shapes[kind]}

\* The replay of a controller's journal never refuses an event the controller
\* appended, and gives the snapshot its operations went through: a restart
\* from the tail loses nothing.
ReplayIsSnapshot == Replayed(events) = Snapshot

\* And it takes nothing else: a signed event that the replay would take after
\* these events is one that a controller operation would append to them.
ReplayTakesOnlyAppended(authorizations) ==
  \A kind \in Kinds, index \in -1 .. count.completed + 1, before \in Harnesses :
    \A shape \in ShapesOf(kind), after \in Afters(kind, before) :
     \A payload \in Payloads(kind, index, after, authorizations) :
      LET e == Event(kind, index, before, after, shape, payload)
      IN  Accepts(Snapshot, e)
            => ENABLED (Operation(authorizations) /\ events' = Append(events, e))
=============================================================================
