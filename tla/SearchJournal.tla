----------------------------- MODULE SearchJournal -----------------------------
(***************************************************************************)
(* experiments/search.py: the journal of one search run and the controller *)
(* that appends to it.  A controller operation replays the journal from    *)
(* the tail it holds, checks the state and stage it finds and appends one  *)
(* event, so the variables are the replayed snapshot.                      *)
(*                                                                         *)
(* A candidate's child harness is named by the candidate.  The active      *)
(* round index is the number of completed rounds.                          *)
(***************************************************************************)
EXTENDS Integers, Sequences, FiniteSets

CONSTANTS Candidates,   \* candidate manifests that may be proposed
          Seed,         \* initial champion harness
          Absent,       \* no candidate, no authorization, no result
          Manifests     \* frozen manifests: baseline, stopping counts, budgets

ASSUME SeedAssumption == Seed \notin Candidates /\ Absent \notin Candidates \cup {Seed}
ASSUME CandidatesAssumption == IsFiniteSet(Candidates)

VARIABLES manifest,     \* the frozen manifest of this run
          state,        \* SearchState, "NONE" before the FROZEN root
          round,        \* the active round
          count,        \* counters the stopping rules read
          champion,     \* champion harness of the search
          disclosed     \* aggregate disclosures, one per resolved nomination

searchVars == <<manifest, state, round, count, champion, disclosed>>

States == {"NONE", "FROZEN", "SEARCHING", "SELECTION_CLOSED", "INVALIDATED"}
Stages == {"NONE", "ROUND_OPEN", "EVIDENCE_READY", "CANDIDATE_POOL_READY", "SCREENED",
           "NOMINATED", "NO_CANDIDATE"}
GateOutcomes == {"PROMOTED", "REJECTED", "INCONCLUSIVE"}
Harnesses == Candidates \cup {Seed}

Rounds == [stage : Stages, pool : SUBSET Candidates, eligible : SUBSET Candidates,
           nominated : Candidates \cup {Absent}, declined : BOOLEAN]
NoRound == [stage |-> "NONE", pool |-> {}, eligible |-> {}, nominated |-> Absent,
            declined |-> FALSE]

Counters == [completed : Nat, nominations : Nat, sincePromotion : Nat, declines : Nat]
NothingCounted == [completed |-> 0, nominations |-> 0, sincePromotion |-> 0, declines |-> 0]

Disclosure == [round : Nat, candidate : Candidates, terminal : GateOutcomes,
               champion : Harnesses]

\* _stop_reasons: what authorizes closing, derived from the counters alone.
StopReasons ==
  IF manifest.kind = "STATIC" THEN {"STATIC"}
  ELSE LET met ==
             [MAX_ROUNDS |-> count.completed >= manifest.rounds,
              MAX_GATE_NOMINATIONS |-> count.nominations >= manifest.nominations,
              PATIENCE |-> count.completed > 0 /\ count.sincePromotion >= manifest.patience,
              MAX_CONSECUTIVE_DECLINES |-> count.declines >= manifest.declines]
       IN  {reason \in DOMAIN met : met[reason]}

\* _require_idle_search and _require_active_stage
IdleSearch == state = "SEARCHING" /\ round.stage = "NONE"
Active(stage) == state = "SEARCHING" /\ round.stage = stage

SearchInit ==
  /\ manifest \in Manifests
  /\ state = "NONE"
  /\ round = NoRound
  /\ count = NothingCounted
  /\ champion = Seed
  /\ disclosed = <<>>

FreezeSearch ==
  /\ state = "NONE"
  /\ state' = "FROZEN"
  /\ UNCHANGED <<manifest, round, count, champion, disclosed>>

StartSearch ==
  /\ state = "FROZEN"
  /\ state' = "SEARCHING"
  /\ UNCHANGED <<manifest, round, count, champion, disclosed>>

OpenRound ==
  /\ IdleSearch
  /\ StopReasons = {}
  /\ round' = [NoRound EXCEPT !.stage = "ROUND_OPEN"]
  /\ UNCHANGED <<manifest, state, count, champion, disclosed>>

RecordEvidence ==
  /\ Active("ROUND_OPEN")
  /\ round' = [round EXCEPT !.stage = "EVIDENCE_READY"]
  /\ UNCHANGED <<manifest, state, count, champion, disclosed>>

RecordPool(pool, declined) ==
  /\ Active("EVIDENCE_READY")
  /\ declined => pool = {}
  /\ round' = [round EXCEPT !.stage = "CANDIDATE_POOL_READY", !.pool = pool,
                            !.declined = declined]
  /\ UNCHANGED <<manifest, state, count, champion, disclosed>>

RecordScreen(eligible) ==
  /\ Active("CANDIDATE_POOL_READY")
  /\ eligible \subseteq round.pool
  /\ round' = [round EXCEPT !.stage = "SCREENED", !.eligible = eligible]
  /\ UNCHANGED <<manifest, state, count, champion, disclosed>>

\* Mutant: the nomination is not counted.
NominateUncounted(c) ==
  /\ Active("SCREENED")
  /\ c \in round.eligible
  /\ count.nominations < manifest.nominations
  /\ round' = [round EXCEPT !.stage = "NOMINATED", !.nominated = c]
  /\ UNCHANGED <<manifest, state, count, champion, disclosed>>

Nominate(c) ==
  /\ Active("SCREENED")
  /\ c \in round.eligible
  /\ count.nominations < manifest.nominations
  /\ round' = [round EXCEPT !.stage = "NOMINATED", !.nominated = c]
  /\ count' = [count EXCEPT !.nominations = @ + 1]
  /\ UNCHANGED <<manifest, state, champion, disclosed>>

RecordNoCandidate ==
  /\ Active("SCREENED")
  /\ round.eligible = {}
  /\ round' = [round EXCEPT !.stage = "NO_CANDIDATE"]
  /\ UNCHANGED <<manifest, state, count, champion, disclosed>>

\* _verify_terminal_authorization: what the experiment decided about the
\* nominated candidate, over the champion both started the round with.
Authorizes(authorization) ==
  /\ authorization # Absent
  /\ authorization.candidate = round.nominated
  /\ authorization.prior = champion
  /\ authorization.parent = champion

\* The replay of a resolved nomination: a promotion restarts patience, and any
\* resolution ends a run of declines.
NominationCounted(promoted) ==
  [count EXCEPT !.completed = @ + 1,
                !.sincePromotion = IF promoted THEN 0 ELSE @ + 1,
                !.declines = 0]

\* _verify_feedback_disclosure: the aggregate the optimizer may see.
Disclose(authorization, next) ==
  [round |-> count.completed, candidate |-> round.nominated,
   terminal |-> authorization.terminal, champion |-> next]

CompleteNominated(authorization) ==
  LET promoted == authorization.terminal = "PROMOTED"
      next == IF promoted THEN round.nominated ELSE champion
  IN  /\ Active("NOMINATED")
      /\ Authorizes(authorization)
      /\ champion' = next
      /\ disclosed' = Append(disclosed, Disclose(authorization, next))
      /\ count' = NominationCounted(promoted)
      /\ round' = NoRound
      /\ UNCHANGED <<manifest, state>>

\* Mutant: a declined round leaves every counter alone.
EmptyUncounted ==
  IF round.declined THEN count
  ELSE [count EXCEPT !.completed = @ + 1, !.sincePromotion = @ + 1, !.declines = 0]

\* The replay of an empty round; one that was not declined ends a run of declines.
EmptyCounted ==
  [count EXCEPT !.completed = @ + 1, !.sincePromotion = @ + 1,
                !.declines = IF round.declined THEN @ + 1 ELSE 0]

CompleteEmpty ==
  /\ Active("NO_CANDIDATE")
  /\ count' = EmptyCounted
  /\ round' = NoRound
  /\ UNCHANGED <<manifest, state, champion, disclosed>>

CloseSearch ==
  /\ IdleSearch
  /\ StopReasons # {}
  /\ state' = "SELECTION_CLOSED"
  /\ UNCHANGED <<manifest, round, count, champion, disclosed>>

\* From any state but INVALIDATED, a closed selection included.
InvalidateSearch ==
  /\ state \notin {"NONE", "INVALIDATED"}
  /\ state' = "INVALIDATED"
  /\ round' = NoRound
  /\ UNCHANGED <<manifest, count, champion, disclosed>>

\* A controller created over the same manifest without a tail.
NewSearch ==
  /\ state' = "NONE"
  /\ round' = NoRound
  /\ count' = NothingCounted
  /\ champion' = Seed
  /\ disclosed' = <<>>
  /\ UNCHANGED manifest
=============================================================================
