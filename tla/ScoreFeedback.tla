------------------------------ MODULE ScoreFeedback ------------------------------
(***************************************************************************)
(* evolution/score_feedback_attestation.py, score_receipt_closure.py,      *)
(* score_candidate_lineage.py and objective_evidence.py: what the SCORE    *)
(* condition may see of a round.  A grader attests one objective over an   *)
(* exploration batch and one over the gate batch of the same candidate; a  *)
(* projector replays both against their live ledgers, takes the parent     *)
(* from the seed or from the attestation of the round before, decides by   *)
(* the performance policy alone and stores the outcome; whoever verifies   *)
(* it later projects the whole chain of rounds again.                      *)
(*                                                                         *)
(* ScheduledBatch models the replay of one batch.  Here a batch replays    *)
(* until its ledger moves: another attempt, another batch or an open       *)
(* reservation on it, or the end of the process that holds its writer.     *)
(*                                                                         *)
(* experiments/matched_v2.py: the two conditions of a matched study, SCORE *)
(* and FULL, share every coordinate but the feedback they are granted.  An *)
(* admission compares what was produced with an expectation that was fixed *)
(* beforehand, and looks at the gate query blocks, each to be asked about  *)
(* one nomination on tasks that no search has seen.  A task has a source   *)
(* and a family; of the exploration tasks the admission compares the names *)
(* alone.  Model, runtime, policies, seeds and the grammar of mutations    *)
(* are one coordinate, setting.                                            *)
(***************************************************************************)
EXTENDS Naturals, Sequences, FiniteSets, Functions, SequencesExt

CONSTANT ExplorationTasks   \* task names of the exploration split

Conditions == {"SCORE", "FULL"}

\* MatchedContrastProfile: the one difference between the conditions.
FeedbackOf == [SCORE |-> {"SCORES"}, FULL |-> {"SCORES", "EVIDENCE"}]

GateTask(task, source, family) == [task |-> task, source |-> source, family |-> family]
QueryBlock(query, tasks) == [query |-> query, tasks |-> tasks]

CoordinatesOf(block, coordinate) == {t[coordinate] : t \in block.tasks}

\* MatchedV2ExecutionCeilings
CeilingsFit(ceilings) ==
  /\ ceilings.proposals <= ceilings.rounds * ceilings.perRound
  /\ ceilings.nominations <= ceilings.rounds
  /\ ceilings.queries = ceilings.nominations

\* MatchedV2SharedCoordinates
SharedValid(shared) ==
  /\ CeilingsFit(shared.ceilings)
  /\ Len(shared.blocks) = shared.ceilings.nominations
  /\ IsInjective(shared.blocks)
  /\ \A b \in DOMAIN shared.blocks : shared.blocks[b].tasks # {}

\* derive_manifest_bound_paired_proposer_seed: both conditions draw alike.
PairedSeed(shared) == <<"paired", shared>>

\* make_matched_v2_run_manifest
MatchedRun(kind, shared) ==
  [kind |-> kind, feedback |-> FeedbackOf[kind], seed |-> PairedSeed(shared),
   shared |-> shared]

\* Mutant: blocks may not share a task, but a source and a family they may.
DistinctTasks(earlier, later) ==
  CoordinatesOf(earlier, "task") \cap CoordinatesOf(later, "task") = {}

Unrelated(earlier, later) ==
  \A coordinate \in {"task", "source", "family"} :
    CoordinatesOf(earlier, coordinate) \cap CoordinatesOf(later, coordinate) = {}

\* Blocks stand in the order of their queries, on tasks not explored.
BlocksFresh(blocks) ==
  \A b \in DOMAIN blocks :
    /\ blocks[b].query = b - 1
    /\ CoordinatesOf(blocks[b], "task") \cap ExplorationTasks = {}
    /\ \A earlier \in 1 .. b - 1 : Unrelated(blocks[earlier], blocks[b])

\* MatchedV2RunManifest
RunShaped(run) ==
  /\ run.kind \in Conditions /\ SharedValid(run.shared)
  /\ run.feedback = FeedbackOf[run.kind] /\ run.seed = PairedSeed(run.shared)

\* Outside the treatment the two runs are equal.
OnlyTreatmentDiffers(study) ==
  study.score.shared = study.full.shared /\ study.score.seed = study.full.seed

\* admit_matched_v2_study
AdmitsStudy(study, expected) ==
  /\ study.expected = expected
  /\ RunShaped(study.score) /\ RunShaped(study.full)
  /\ study.score.kind = "SCORE" /\ study.full.kind = "FULL"
  /\ study.score.shared = expected /\ study.full.shared = expected
  /\ OnlyTreatmentDiffers(study)
  /\ BlocksFresh(expected.blocks)
  /\ study.score.seed = PairedSeed(expected)

-----------------------------------------------------------------------------
(* Feedback                                                                *)

CONSTANTS SharedOptions,    \* coordinates a run may be frozen with
          ProposedAs,       \* the round and the parent every candidate was proposed in
          SeedHarness,
          Measures,         \* what a gate batch may measure
          Unused,           \* no measure, no attestation in progress
          MaxEvaluations,   \* bound: objectives attested
          MaxSlips,         \* bound: objectives over a batch of the wrong kind
          MaxBroken         \* bound: ledgers that move

Proposed == DOMAIN ProposedAs

ASSUME FeedbackAssumption ==
  /\ \A shared \in SharedOptions :
       /\ SharedValid(shared) /\ shared.ceilings.nominations \in Nat
       /\ DOMAIN shared.blocks = 1 .. shared.ceilings.nominations
  /\ SeedHarness \notin Proposed
  /\ \A c \in Proposed : ProposedAs[c].parent \in Proposed \cup {SeedHarness}
  /\ MaxEvaluations \in Nat /\ MaxSlips \in Nat /\ MaxBroken \in Nat

VARIABLES shared,      \* the coordinates of the run
          objectives,  \* attested objectives, each with its batch
          moved,       \* those whose ledger has moved on
          stored,      \* stored attestations, each the chain of its rounds
          returned,    \* those the service returned
          attesting,   \* the attestation being closed
          slips

feedbackVars == <<shared, objectives, moved, stored, returned, attesting, slips>>

-----------------------------------------------------------------------------
(* Objectives                                                              *)

Objective(phase, query, tasks, candidate, measure, settled) ==
  [phase |-> phase, query |-> query, tasks |-> tasks, candidate |-> candidate,
   measure |-> measure, settled |-> settled]

BlockTasks(b) == CoordinatesOf(shared.blocks[b], "task")
Blocks == DOMAIN shared.blocks

\* The batches a candidate is meant to be evaluated with.
Instructed(candidate) ==
  LET query == ProposedAs[candidate].round
  IN  {Objective("EXPLORATION", query + 1, ExplorationTasks, candidate, Unused, TRUE)}
      \cup {Objective("GATE", query, BlockTasks(query + 1), candidate, measure, TRUE) :
              measure \in Measures}

\* Others: of another query or another block, or with a pair that did not settle.
Slipped(candidate) ==
  UNION {{[o EXCEPT !.query = 1 - @], [o EXCEPT !.settled = FALSE],
          [o EXCEPT !.tasks = ExplorationTasks]} \cup
         {[o EXCEPT !.tasks = BlockTasks(b)] : b \in Blocks} : o \in Instructed(candidate)}
  \ Instructed(candidate)

\* TrustedObjectiveAggregateService.attest: the grader signs what it graded; a
\* batch on a ledger that served another batch moves that ledger.
AttestObjective(o, reused) ==
  /\ Cardinality(objectives) < MaxEvaluations /\ o \notin objectives
  /\ objectives' = objectives \cup {o}
  /\ moved' = moved \cup reused
  /\ UNCHANGED <<shared, stored, returned, attesting>>

Evaluate ==
  \E candidate \in Proposed :
    \/ \E o \in Instructed(candidate) : AttestObjective(o, {}) /\ UNCHANGED slips
    \/ /\ slips < MaxSlips /\ slips' = slips + 1
       /\ \/ \E o \in Slipped(candidate) : AttestObjective(o, {})
          \/ \E o \in Instructed(candidate), used \in objectives : AttestObjective(o, {used})

\* Another holder appends to the ledger of a batch, or the process ends and
\* takes every writer with it.
LedgerMoves ==
  /\ Cardinality(moved) < MaxBroken
  /\ \/ \E o \in objectives \ moved : moved' = moved \cup {o}
     \/ objectives # {} /\ moved' = objectives
  /\ UNCHANGED <<shared, objectives, stored, returned, attesting, slips>>

-----------------------------------------------------------------------------
(* The projection                                                          *)

ScheduleMatches(o, phase, query, tasks) ==
  o.phase = phase /\ o.query = query /\ o.tasks = tasks

\* ScoreReceiptReplayCapability.replay: the ledger holds exactly its receipts.
LedgerReplays(o) == o \notin moved

\* verify_score_receipt_closure
ClosureHolds(o, phase, query, tasks) ==
  ScheduleMatches(o, phase, query, tasks) /\ LedgerReplays(o) /\ o.settled

\* verify_score_candidate_lineage
LineageHolds(o, block, parent) ==
  LET proposal == ProposedAs[o.candidate]
  IN  proposal.round = block.query /\ proposal.parent = parent

\* _performance_decision
PerformanceDecision(m) ==
  LET passed == ~m.harms /\ ~m.costly
  IN  IF m.useful /\ passed THEN "PROMOTE"
      ELSE IF ~passed \/ m.hopeless THEN "REJECT"
      ELSE "INCONCLUSIVE"

OutputChampion(round, parent) ==
  IF PerformanceDecision(round.gate.measure) = "PROMOTE" THEN round.gate.candidate
  ELSE parent

\* A round cites its two objectives and its block, and carries the champion
\* it leaves.  authorized_parent_harness_sha256
AuthorizedParent(chain, n) == IF n = 1 THEN SeedHarness ELSE chain[n - 1].champion

BlockInOrder(round, n) ==
  LET block == shared.blocks[round.block]
  IN  block.query = round.block - 1 /\ n = block.query + 1

OneCandidate(round) ==
  /\ round.exploration # round.gate
  /\ round.exploration.candidate = round.gate.candidate

\* _project_content: what the n-th round of a chain must be.
RoundProjects(chain, n) ==
  LET round == chain[n]
      block == shared.blocks[round.block]
      parent == AuthorizedParent(chain, n)
  IN  /\ BlockInOrder(round, n) /\ OneCandidate(round)
      /\ LineageHolds(round.exploration, block, parent)
      /\ ClosureHolds(round.exploration, "EXPLORATION", n, ExplorationTasks)
      /\ ClosureHolds(round.gate, "GATE", block.query, BlockTasks(round.block))
      /\ round.champion = OutputChampion(round, parent)

\* ScoreFeedbackVerificationCapability.verify: every round before is verified.
FeedbackVerifies(chain) == \A n \in DOMAIN chain : RoundProjects(chain, n)

FeedbackRound(exploration, gate, block, parent) ==
  LET round == [exploration |-> exploration, gate |-> gate, block |-> block]
  IN  [exploration |-> exploration, gate |-> gate, block |-> block,
       champion |-> OutputChampion(round, parent)]

\* attest, up to the stored envelope: the chain before is verified, and the
\* new round projects.
StoreAttestation ==
  /\ attesting = Unused
  /\ \E prior \in stored \cup {<<>>}, exploration, gate \in objectives, b \in Blocks :
       LET n == Len(prior) + 1
           parent == IF prior = <<>> THEN SeedHarness ELSE Last(prior).champion
       IN  /\ gate.measure # Unused
           /\ LET chain == Append(prior, FeedbackRound(exploration, gate, b, parent))
              IN  /\ FeedbackVerifies(prior) /\ RoundProjects(chain, n)
                  /\ stored' = stored \cup {chain}
                  /\ attesting' = chain
  /\ UNCHANGED <<shared, objectives, moved, returned, slips>>

\* attest, the closing verification.
CloseAttestation ==
  /\ attesting # Unused
  /\ returned' = IF FeedbackVerifies(attesting) THEN returned \cup {attesting} ELSE returned
  /\ attesting' = Unused
  /\ UNCHANGED <<shared, objectives, moved, stored, slips>>

FeedbackInit ==
  /\ shared \in SharedOptions
  /\ objectives = {} /\ moved = {} /\ stored = {} /\ returned = {}
  /\ attesting = Unused /\ slips = 0

FeedbackNext == Evaluate \/ LedgerMoves \/ StoreAttestation \/ CloseAttestation

FeedbackSpec == FeedbackInit /\ [][FeedbackNext]_feedbackVars

-----------------------------------------------------------------------------
(* Properties                                                              *)

FeedbackTypeOK ==
  /\ shared \in SharedOptions
  /\ moved \subseteq objectives /\ returned \subseteq stored
  /\ attesting \in stored \cup {Unused}

\* The study that frames the run is admitted.
Admitted ==
  AdmitsStudy([expected |-> shared, score |-> MatchedRun("SCORE", shared),
               full |-> MatchedRun("FULL", shared)], shared)

FamiliesOf(round) == CoordinatesOf(shared.blocks[round.block], "family")

\* In an admitted run the champions that returned feedback hands on were won
\* on fresh ground: no two rounds of a chain were gated on tasks of one family,
\* on one batch, or on tasks that were explored, and the champion of a round
\* is the candidate of the last round that promoted.  Chains stay in type.
FeedbackIsFresh ==
  /\ FeedbackTypeOK
  /\ Admitted =>
       \A chain \in returned :
         /\ \A i, j \in DOMAIN chain :
              /\ chain[i].gate.tasks \cap chain[j].exploration.tasks = {}
              /\ i # j => /\ FamiliesOf(chain[i]) \cap FamiliesOf(chain[j]) = {}
                          /\ chain[i].gate # chain[j].gate
         /\ \A n \in DOMAIN chain :
              LET won == {i \in 1 .. n :
                            PerformanceDecision(chain[i].gate.measure) = "PROMOTE"}
              IN  chain[n].champion =
                    (IF won = {} THEN SeedHarness
                     ELSE chain[CHOOSE i \in won : \A j \in won : j <= i].gate.candidate)
=============================================================================
