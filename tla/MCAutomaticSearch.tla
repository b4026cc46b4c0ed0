--------------------------- MODULE MCAutomaticSearch ---------------------------
(* One policy of each baseline, small enough that every limit is reached;    *)
(* and beside the loop the operations of one search controller with the      *)
(* events they append, over candidates that the experiment decides once; and *)
(* two rounds of the feedback a SCORE search is shown.                       *)
EXTENDS AutomaticSearch, SearchReplay, ScoreFeedback

CONSTANTS c1, c2, o1

Policy(kind, rounds, nominations, patience, declines, diagnoses, proposals, perRound,
       screens) ==
  [kind |-> kind, rounds |-> rounds, nominations |-> nominations, patience |-> patience,
   declines |-> declines, diagnoses |-> diagnoses, proposals |-> proposals,
   perRound |-> perRound, screens |-> screens, screensPerRound |-> perRound]

MCCandidates == {c1, c2}
MCOthers == {o1}
Static == Policy("STATIC", 0, 0, 0, 0, 0, 0, 0, 0)
MCManifests ==
  {Static,
   Policy("RANDOM_VALID", 3, 1, 3, 1, 0, 2, 2, 2),
   Policy("PROMPT_ONLY", 3, 3, 3, 2, 0, 3, 1, 3),
   Policy("EVIDENCE_TARGETED", 3, 2, 2, 2, 2, 2, 1, 1)}
\* Enough for two nominations, two declines and every stopping rule.
MCJournalManifests ==
  {Static, Policy("PROMPT_ONLY", 2, 2, 1, 1, 0, 2, 2, 2),
   Policy("RANDOM_VALID", 2, 2, 2, 2, 0, 2, 1, 2)}
MCAllManifests == MCManifests \cup MCJournalManifests
MCPromptOnly == {Policy("PROMPT_ONLY", 3, 2, 3, 2, 0, 2, 1, 2)}

MCExploration == {"e"}
MCBlock(query, task, family) == QueryBlock(query, {GateTask(task, task, family)})
\* Two rounds of one proposal each, gated on fresh families or on one family.
MCShared ==
  {[blocks |-> <<MCBlock(0, "g1", "f1"), MCBlock(1, "g2", family)>>, setting |-> "s",
    ceilings |-> [rounds |-> 2, perRound |-> 1, proposals |-> 2, nominations |-> 2,
                  queries |-> 2]] : family \in {"f1", "f2"}}
MCProposals == [first |-> [round |-> 0, parent |-> "seed"],
                onFirst |-> [round |-> 1, parent |-> "first"],
                onSeed |-> [round |-> 1, parent |-> "seed"]]
MCMeasures == {[useful |-> TRUE, harms |-> harms, costly |-> FALSE, hopeless |-> FALSE] :
                 harms \in BOOLEAN}

VARIABLE leg   \* LOOP, JOURNAL or FEEDBACK, the others stand still
mcVars == <<vars, events, feedbackVars, leg>>

Known == {authorized[c] : c \in Candidates} \ {Absent}

\* In the journal's leg no loop runs, and pools hold undecided candidates.
JournalOperation ==
  /\ Operation(Known)
  /\ \A c \in round'.pool \ round.pool : authorized[c] = Absent
  /\ UNCHANGED <<loopVars, experimentVars, parent, authorized, result, boundVars>>

\* The experiment decides the nominated candidate over its champion.
ExperimentDecides ==
  LET c == round.nominated
  IN  /\ c # Absent
      /\ authorized[c] = Absent
      /\ \E terminal \in GateOutcomes :
           /\ authorized' = [authorized EXCEPT ![c] =
                               [candidate |-> c, parent |-> leader, prior |-> leader,
                                terminal |-> terminal]]
           /\ IF terminal = "PROMOTED" THEN leader' = c /\ Experiment!Advance
              ELSE UNCHANGED experimentVars
      /\ UNCHANGED <<searchVars, loopVars, parent, result, boundVars, events>>

MCInit ==
  /\ events = <<>>
  /\ \/ /\ leg = "LOOP" /\ Init /\ manifest \notin MCJournalManifests
     \/ /\ leg = "JOURNAL" /\ InitAt("RETURNED") /\ manifest \in MCJournalManifests
     \/ leg = "FEEDBACK" /\ InitAt("RETURNED") /\ manifest = Static
  /\ FeedbackInit
  /\ leg = "FEEDBACK" \/ shared = CHOOSE s \in SharedOptions : TRUE

LoopMoves == leg = "LOOP" /\ LoopStep /\ UNCHANGED <<events, feedbackVars, leg>>

MCNext ==
  \/ leg = "LOOP" /\ Next /\ UNCHANGED <<events, feedbackVars, leg>>
  \/ leg = "JOURNAL" /\ (JournalOperation \/ ExperimentDecides) /\ UNCHANGED <<feedbackVars, leg>>
  \/ leg = "FEEDBACK" /\ FeedbackNext /\ UNCHANGED <<vars, events, leg>>

MCSpec == MCInit /\ [][MCNext]_mcVars
MCLiveSpec == MCSpec /\ WF_mcVars(LoopMoves)

\* A restart loses nothing of a search and adds nothing to it: the replay of
\* its events gives the snapshot, and takes no event but those a controller
\* operation would append.
JournalReplays ==
  leg = "JOURNAL" => ReplayIsSnapshot /\ ReplayTakesOnlyAppended(Known)
=============================================================================
