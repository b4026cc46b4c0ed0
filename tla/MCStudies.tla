---------------------------- MODULE MCStudies ----------------------------
(* The journal of a study with two cells, one of them searched twice; the  *)
(* GATE study of two conditions beside such a journal once it is sealed;   *)
(* the third of three harness comparisons and their verification; and the  *)
(* development runs that propose a repair, and those of four arms; and the *)
(* journal of a public run, with one task of each kind, one GATE variant   *)
(* and two journal objects.                                                *)
EXTENDS BaselineGate, HarnessFaultMechanism, FaultDevelopment, FourArmDevelopment,
        RunJournal, TLC

\* h1 and h2 are two champions, or two journal objects.
CONSTANTS k1, k2, r1, r2, r3, h1, h2, b1, b2, original, edited

MCKeys == {k1, k2}
MCRuns == {r1, r2, r3}
MCKeyOf == (r1 :> k1) @@ (r2 :> k1) @@ (r3 :> k2)
MCChampions == {h1, h2}
MCSymmetry == Permutations({h1, h2})

MCKinds == <<"STATIC", "PROMPT_ONLY">>
MCSchedules == [kind : {"STATIC", "PROMPT_ONLY"}, seed : 1 .. 2] \cup FaultSchedules
MCUsages == {2, 3}
MCBudgets == {2, 3}
MCStudyPlan == [evaluations |-> 5, tokens |-> 8]
MCPlans == {MCStudyPlan, [evaluations |-> 4, tokens |-> 7]}
MCClaims == {[proposals |-> 0, queries |-> 0, calls |-> 0, mutated |-> FALSE,
              evaluations |-> 0, tokens |-> 0],
             [proposals |-> 1, queries |-> 1, calls |-> 1, mutated |-> TRUE,
              evaluations |-> 1, tokens |-> 1]}
MCBoundaries == {b1, b2}
MCBoundaryOf == (r1 :> b1) @@ (r2 :> b2) @@ (r3 :> b1)

MCFamilies == {1, 2}   \* an odd family and an even one, patched by different rules
MCContextOrder == <<"SS", "MM">>
ASSUME AllFamiliesStand == PartitionStands(AllFamilies)

MCBenchmarkOf == <<"bbh", "gsm8k", "gsm8k">>

MCFitTasks == <<"fit">>
MCGateTasks == <<"gate">>
MCHoldoutTasks == <<"holdout">>
MCGateVariants == <<"candidate">>
MCSamples == <<1>>
MCHarnesses == {original, edited}
MCValidityOf == [SCORE |-> BOOLEAN, FULL |-> {FALSE}]

VARIABLE leg   \* which of them is explored, the others stand still
mcVars == <<vars, gateVars, faultVars, devVars, armVars, journalVars, leg>>

ClosedRun(champion) == [search |-> "CLOSED", experiment |-> "SELECTED",
                        followed |-> champion, leader |-> champion, issued |-> TRUE]
RunClosure(r, champion) == [search |-> r, experiment |-> r, loop |-> r,
                            champion |-> champion, opening |-> 1]
SealedBy(r, champion) ==
  /\ run = [s \in Runs |-> IF s \in {r, r3} THEN ClosedRun(champion) ELSE OpenRun]
  /\ journal = <<Plain("FROZEN"), Plain("COLLECTION_STARTED"),
                 Registered(RunClosure(r, champion)), Registered(RunClosure(r3, champion)),
                 Plain("BARRIER_CLOSED"), Plain("SEALED_AUTHORIZED")>>
  /\ live = [k \in Keys |-> RunClosure(IF k = k1 THEN r ELSE r3, champion)]
  /\ call = NoCall /\ opening = 1

\* Two comparisons graded on ledgers with an attempt to spare.
Compared(kind, l) == [schedule |-> [kind |-> kind, seed |-> 0], ledger |-> l,
                      boundary |-> 0, receipts |-> <<1, 2>>, tail |-> 2]
Before == {Compared("MAIN", 1), Compared("REVERT", 2)}
Settled(b) == [budget |-> 3, pending |-> Nobody,
               outcomes |-> [cell \in Cells |-> Outcome(b.schedule, cell,
                               SeedFor(b.schedule, cell), "SETTLED", Ceiling)]]
TwoCompared ==
  /\ ledgers = <<Settled(Compared("MAIN", 1)), Settled(Compared("REVERT", 2))>>
  /\ batch = NoBatch /\ foreign = 0
  /\ runtime = [number |-> 1, events |-> {Request(b.schedule, cell) : b \in Before, cell \in Cells}]
  /\ graded = Before
  /\ mechanism = NoMechanism /\ stood = FALSE /\ evidence = {}

MCInit ==
  /\ DevInit /\ FourArmInit /\ JournalInit
  /\ \/ /\ leg \in {"STUDY", "DEVELOP", "FOURARM", "JOURNAL"}
        /\ Init /\ GateInit /\ FaultInit
     \/ /\ leg = "GATE" /\ GateInit /\ FaultInit
        /\ \E r \in {r1, r2}, champion \in Champions : SealedBy(r, champion)
     \/ /\ leg = "FAULT" /\ Init /\ TwoCompared
        /\ gate = NoGate /\ accepted = {}

MCNext ==
  /\ \/ leg = "STUDY" /\ Next
        /\ UNCHANGED <<gateVars, faultVars, devVars, armVars, journalVars>>
     \/ /\ leg = "GATE" /\ GateNext
        /\ UNCHANGED <<vars, runtime, graded, mechanism, stood, evidence>>
        /\ UNCHANGED <<devVars, armVars, journalVars>>
     \/ leg = "FAULT" /\ FaultNext
        /\ UNCHANGED <<vars, gate, accepted, devVars, armVars, journalVars>>
     \/ leg = "DEVELOP" /\ DevNext
        /\ UNCHANGED <<vars, gateVars, faultVars, armVars, journalVars>>
     \/ leg = "FOURARM" /\ FourArmNext
        /\ UNCHANGED <<vars, gateVars, faultVars, devVars, journalVars>>
     \/ leg = "JOURNAL" /\ JournalNext
        /\ UNCHANGED <<vars, gateVars, faultVars, devVars, armVars>>
  /\ UNCHANGED leg

MCSpec == MCInit /\ [][MCNext]_mcVars

\* Every variable stays in its type, and what the GATE study spends stays within
\* its plan whoever else appends to its ledgers, and is what its reports show.
StudiesInv ==
  /\ TypeOK /\ GateTypeOK /\ FaultTypeOK /\ DevTypeOK
  /\ SpendingWithinPlan /\ ReportsShowCharges
=============================================================================
