--------------------------- MODULE SemanticCampaign ---------------------------
(***************************************************************************)
(* experiments/bfcl_v4_public_v2_semantic_campaign.py: two reviewers sort  *)
(* the tasks of the BFCL v2 campaign into families, a third one is asked   *)
(* only where they disagree, and one release is issued over their sessions.*)
(*                                                                         *)
(* A sink keeps each session; a process that dies or raises is started     *)
(* again with the sessions its caller hands over.  The reviewers, the      *)
(* release and its verification are external, modelled from their use.     *)
(***************************************************************************)
EXTENDS Naturals, FiniteSets, FiniteSetsExt

CONSTANTS Settings,      \* reviewer packet, provider origin and secret of a run
          Catalogs,      \* what the provider may advertise, sets of models
          Partitions,    \* how a reviewer may sort the tasks
          Crossing,      \* partitions with a family on both sides of a split
          SessionTokens, \* what a review may cost
          MaxRuns        \* bound: processes started

ReviewRoles == {"PRIMARY_ONE", "PRIMARY_TWO", "ADJUDICATOR"}
Primaries == {"PRIMARY_ONE", "PRIMARY_TWO"}

\* Each role has its own frozen model, named after it.
RequiredModels == ReviewRoles

ASSUME SemanticAssumption ==
  /\ Crossing \subseteq Partitions /\ SessionTokens \subseteq Nat /\ MaxRuns \in Nat

VARIABLES review,   \* the process: where it is, its setting and the sessions it holds
          sink,     \* the sessions persisted; the reviewers gave each of them
          granted,  \* the evidence issued
          runs

semanticVars == <<review, sink, granted, runs>>

\* A session is bound to the setting and the catalog it was made under.
Session(role, setting, catalog, partition, tokens) ==
  [role |-> role, model |-> role, setting |-> setting, catalog |-> catalog,
   partition |-> partition, tokens |-> tokens]

NoReview == [at |-> "DOWN"]
NextRole == [PRIMARY_ONE |-> "PRIMARY_TWO", PRIMARY_TWO |-> "RELEASE", ADJUDICATOR |-> "RELEASE"]
ReviewRaises == review' = NoReview

\* _checked_catalog
CatalogStands(catalog) == RequiredModels \subseteq catalog

\* A caller hands over any of the persisted sessions, one per role.
StartReview ==
  /\ review.at = "DOWN" /\ runs < MaxRuns
  /\ \E setting \in Settings, catalog \in Catalogs, handed \in SUBSET sink :
       /\ CatalogStands(catalog)
       /\ \A s, t \in handed : s.role = t.role => s = t
       /\ review' = [at |-> "PRIMARY_ONE", setting |-> setting, catalog |-> catalog,
                     handed |-> handed, held |-> {}]
  /\ runs' = runs + 1
  /\ UNCHANGED <<sink, granted>>

\* Mutant: a resumed session is taken whatever catalog it was made under.
VerifiesSetting(session, role) ==
  session.role = role /\ session.model = role /\ session.setting = review.setting

\* _verify_resumed_session
Verifies(session, role) ==
  /\ session.role = role /\ session.model = role
  /\ session.setting = review.setting /\ session.catalog = review.catalog

Holds(role, session) ==
  review' = [review EXCEPT !.at = NextRole[role], !.held = @ \cup {session}]

\* A persisted session is verified and never asked for again.
ResumeSession(role) ==
  /\ review.at = role
  /\ \E session \in review.handed :
       /\ session.role = role
       /\ IF Verifies(session, role) THEN Holds(role, session) ELSE ReviewRaises
  /\ UNCHANGED <<sink, granted, runs>>

\* _review: the reviewer or the sink fails, or the sink stores the session and
\* may raise even so.
RunReview(role) ==
  /\ review.at = role
  /\ ~\E session \in review.handed : session.role = role
  /\ \/ ReviewRaises /\ UNCHANGED sink
     \/ \E partition \in Partitions, tokens \in SessionTokens :
          LET session == Session(role, review.setting, review.catalog, partition, tokens) IN
          sink' = sink \cup {session} /\ (ReviewRaises \/ Holds(role, session))
  /\ UNCHANGED <<granted, runs>>

SessionOf(sessions, role) == CHOOSE session \in sessions : session.role = role
HasRole(sessions, role) == \E session \in sessions : session.role = role

Disagree(sessions) ==
  SessionOf(sessions, "PRIMARY_ONE").partition # SessionOf(sessions, "PRIMARY_TWO").partition

\* The review a release rests on, as the issuer of a release takes it.
FinalReview(sessions) ==
  SessionOf(sessions, IF Disagree(sessions) THEN "ADJUDICATOR" ELSE "PRIMARY_ONE")

\* issue_bfcl_v4_public_v2_semantic_development_release: an adjudicator exactly
\* where the primaries disagree, and no family on both sides of a split.
ReleaseStands(sessions) ==
  /\ Disagree(sessions) <=> HasRole(sessions, "ADJUDICATOR")
  /\ FinalReview(sessions).partition \notin Crossing

TokensOf(sessions) == MapThenSumSet(LAMBDA session : session.tokens, sessions)

\* The evidence of a release, whose model checks what it is put together from.
ReviewEvidence(sessions) ==
  [setting |-> review.setting, catalog |-> review.catalog, sessions |-> sessions,
   partition |-> FinalReview(sessions).partition,
   reviewers |-> IF HasRole(sessions, "ADJUDICATOR") THEN 3 ELSE 2,
   tokens |-> TokensOf(sessions)]
ReviewEvidenceCloses(evidence) ==
  /\ Cardinality(evidence.sessions) = evidence.reviewers
  /\ \A session \in evidence.sessions : session.model = session.role
  /\ evidence.tokens = TokensOf(evidence.sessions)

\* Both primaries are in: the release, the adjudicator, or an error.
IssueRelease ==
  /\ review.at = "RELEASE"
  /\ IF Disagree(review.held) /\ ~HasRole(review.held, "ADJUDICATOR")
     THEN /\ review' = [review EXCEPT !.at = "ADJUDICATOR"]
          /\ UNCHANGED granted
     ELSE /\ ReviewRaises
          /\ granted' = IF /\ ReleaseStands(review.held)
                           /\ ~Disagree(review.held) => ~HasRole(review.handed, "ADJUDICATOR")
                           /\ ReviewEvidenceCloses(ReviewEvidence(review.held))
                        THEN granted \cup {ReviewEvidence(review.held)} ELSE granted
  /\ UNCHANGED <<sink, runs>>

\* The process dies between two steps.
ReviewDies ==
  /\ review.at # "DOWN" /\ ReviewRaises
  /\ UNCHANGED <<sink, granted, runs>>

SemanticInit ==
  /\ review = NoReview /\ sink = {} /\ granted = {} /\ runs = 0

SemanticNext ==
  \/ StartReview \/ IssueRelease \/ ReviewDies
  \/ \E role \in ReviewRoles : ResumeSession(role) \/ RunReview(role)

SemanticSpec == SemanticInit /\ [][SemanticNext]_semanticVars

-----------------------------------------------------------------------------
\* Whatever processes died and whatever sessions were handed over, evidence
\* rests on what the frozen reviewers gave, all of them asked in its own setting
\* and under its own catalog; it has an adjudicator exactly where its primaries
\* disagree, whose partition it then is, and shows what those sessions cost.
EvidenceIsOneReview ==
  \A evidence \in granted :
    LET in(role) == {s \in evidence.sessions : s.role = role}
        split == \A s \in in("PRIMARY_ONE"), t \in in("PRIMARY_TWO") : s.partition # t.partition
        final == in(IF split THEN "ADJUDICATOR" ELSE "PRIMARY_ONE")
    IN  /\ evidence.sessions \subseteq sink
        /\ \A s \in evidence.sessions :
             s.setting = evidence.setting /\ s.catalog = evidence.catalog
        /\ \A role \in Primaries : Cardinality(in(role)) = 1
        /\ Cardinality(in("ADJUDICATOR")) = IF split THEN 1 ELSE 0
        /\ \A s \in final : s.partition = evidence.partition
        /\ evidence.partition \notin Crossing
        /\ evidence.tokens = TokensOf(evidence.sessions)
=============================================================================
