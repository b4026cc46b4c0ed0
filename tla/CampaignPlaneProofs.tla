--------------------------- MODULE CampaignPlaneProofs ---------------------------
(***************************************************************************)
(* Theorems about the pilot campaign and about what stands around the v2   *)
(* executor, the semantic review before it and the grading plane beside    *)
(* it, for any plan, reviewers, graders, answers and failing writes.       *)
(***************************************************************************)
EXTENDS SemanticCampaign, TrustedGrading, PilotCampaign, FiniteSetTheorems, SequenceTheorems, TLAPS

-----------------------------------------------------------------------------
(* The semantic review                                                     *)

\* A session the process may hold: of the role's own reviewer, persisted, and
\* made in the setting and under the catalog of the process.
OwnSession(session, role) ==
  /\ session \in sink /\ session.role = role /\ session.model = role
  /\ session.setting = review.setting /\ session.catalog = review.catalog

\* What a process holds at each of its steps: the primaries in order, then an
\* adjudicator where they disagree.
HeldInOrder ==
  \E one, two, third :
    /\ review.at # "PRIMARY_ONE" => OwnSession(one, "PRIMARY_ONE")
    /\ review.at \in {"RELEASE", "ADJUDICATOR"} => OwnSession(two, "PRIMARY_TWO")
    /\ \/ review.at = "PRIMARY_ONE" /\ review.held = {}
       \/ review.at = "PRIMARY_TWO" /\ review.held = {one}
       \/ review.at = "RELEASE" /\ review.held = {one, two}
       \/ /\ review.at = "ADJUDICATOR" /\ review.held = {one, two}
          /\ one.partition # two.partition
       \/ /\ review.at = "RELEASE" /\ review.held = {one, two, third}
          /\ one.partition # two.partition /\ OwnSession(third, "ADJUDICATOR")

ReviewStands ==
  \/ review = NoReview
  \/ /\ review = [at |-> review.at, setting |-> review.setting, catalog |-> review.catalog,
                  handed |-> review.handed, held |-> review.held]
     /\ review.at \in ReviewRoles \cup {"RELEASE"}
     /\ review.handed \subseteq sink
     /\ HeldInOrder

ReviewInv == ReviewStands /\ EvidenceIsOneReview

(* Evidence stays what it is when more sessions are persisted.              *)
LEMMA EvidenceStays ==
  ASSUME EvidenceIsOneReview, sink \subseteq sink', granted' = granted
  PROVE  EvidenceIsOneReview'
BY DEF EvidenceIsOneReview

(* A process keeps what it holds when more sessions are persisted.          *)
LEMMA ReviewStays ==
  ASSUME ReviewStands, sink \subseteq sink', review' = review
  PROVE  ReviewStands'
BY DEF ReviewStands, HeldInOrder, OwnSession, NoReview

(* A session that is the process's own is held, and the next step is due.   *)
LEMMA SessionHeld ==
  ASSUME ReviewStands, review # NoReview, NEW role \in ReviewRoles, review.at = role,
         NEW session, OwnSession(session, role)', Holds(role, session),
         sink \subseteq sink'
  PROVE  ReviewStands'
<1>1. PICK one, two, third :
    /\ review.at # "PRIMARY_ONE" => OwnSession(one, "PRIMARY_ONE")
    /\ review.at \in {"RELEASE", "ADJUDICATOR"} => OwnSession(two, "PRIMARY_TWO")
    /\ \/ review.at = "PRIMARY_ONE" /\ review.held = {}
       \/ review.at = "PRIMARY_TWO" /\ review.held = {one}
       \/ review.at = "RELEASE" /\ review.held = {one, two}
       \/ /\ review.at = "ADJUDICATOR" /\ review.held = {one, two}
          /\ one.partition # two.partition
       \/ /\ review.at = "RELEASE" /\ review.held = {one, two, third}
          /\ one.partition # two.partition /\ OwnSession(third, "ADJUDICATOR")
  BY DEF ReviewStands, HeldInOrder
<1>2. /\ review' = [at |-> NextRole[role], setting |-> review.setting, catalog |-> review.catalog,
                    handed |-> review.handed, held |-> review.held \cup {session}]
      /\ review.handed \subseteq sink
  BY DEF ReviewStands, Holds
<1>3. /\ review'.at = NextRole[role] /\ review'.setting = review.setting
      /\ review'.catalog = review.catalog /\ review'.handed = review.handed
      /\ review'.held = review.held \cup {session}
      /\ NextRole[role] \in ReviewRoles \cup {"RELEASE"}
  BY <1>2 DEF NextRole, ReviewRoles
<1>4. HeldInOrder'
  <2>1. CASE role = "PRIMARY_ONE"
    <3>1. review'.at = "PRIMARY_TWO" /\ review'.held = {session}
      BY <1>1, <1>3, <2>1 DEF NextRole
    <3> QED BY <3>1, <2>1 DEF HeldInOrder
  <2>2. CASE role = "PRIMARY_TWO"
    <3>1. review'.at = "RELEASE" /\ review'.held = {one, session}
      BY <1>1, <1>3, <2>2 DEF NextRole
    <3>2. OwnSession(one, "PRIMARY_ONE")'
      BY <1>1, <1>3, <2>2 DEF OwnSession
    <3> QED BY <3>1, <3>2, <2>2 DEF HeldInOrder
  <2>3. CASE role = "ADJUDICATOR"
    <3>1. review'.at = "RELEASE" /\ review'.held = {one, two, session}
      BY <1>1, <1>3, <2>3 DEF NextRole
    <3>2. /\ OwnSession(one, "PRIMARY_ONE")' /\ OwnSession(two, "PRIMARY_TWO")'
          /\ one.partition # two.partition
      BY <1>1, <1>3, <2>3 DEF OwnSession
    <3> QED BY <3>1, <3>2, <2>3 DEF HeldInOrder
  <2> QED BY <2>1, <2>2, <2>3 DEF ReviewRoles
<1> QED BY <1>2, <1>3, <1>4 DEF ReviewStands

(* What a release is issued over is one review, and so is its evidence.     *)
LEMMA ReleaseIsOneReview ==
  ASSUME ReviewStands, review.at = "RELEASE", ReleaseStands(review.held),
         NEW evidence, evidence = ReviewEvidence(review.held)
  PROVE  LET in(role) == {s \in evidence.sessions : s.role = role}
             split == \A s \in in("PRIMARY_ONE"), t \in in("PRIMARY_TWO") : s.partition # t.partition
             final == in(IF split THEN "ADJUDICATOR" ELSE "PRIMARY_ONE")
         IN  /\ evidence.sessions \subseteq sink
             /\ \A s \in evidence.sessions :
                  s.setting = evidence.setting /\ s.catalog = evidence.catalog
             /\ \A role \in Primaries : Cardinality(in(role)) = 1
             /\ Cardinality(in("ADJUDICATOR")) = IF split THEN 1 ELSE 0
             /\ \A s \in final : s.partition = evidence.partition
             /\ evidence.partition \notin Crossing
             /\ evidence.tokens = TokensOf(evidence.sessions)
<1> DEFINE in(role) == {s \in evidence.sessions : s.role = role}
           split == \A s \in in("PRIMARY_ONE"), t \in in("PRIMARY_TWO") : s.partition # t.partition
           final == in(IF split THEN "ADJUDICATOR" ELSE "PRIMARY_ONE")
<1>1. PICK one, two, third :
    /\ OwnSession(one, "PRIMARY_ONE") /\ OwnSession(two, "PRIMARY_TWO")
    /\ \/ review.held = {one, two}
       \/ /\ review.held = {one, two, third}
          /\ one.partition # two.partition /\ OwnSession(third, "ADJUDICATOR")
  BY DEF ReviewStands, HeldInOrder, NoReview
<1>2. /\ evidence.sessions = review.held /\ evidence.setting = review.setting
      /\ evidence.catalog = review.catalog /\ evidence.tokens = TokensOf(review.held)
      /\ evidence.partition = FinalReview(review.held).partition
  BY DEF ReviewEvidence
<1>3. SessionOf(review.held, "PRIMARY_ONE") = one /\ SessionOf(review.held, "PRIMARY_TWO") = two
  BY <1>1 DEF SessionOf, OwnSession
<1>4. in("PRIMARY_ONE") = {one} /\ in("PRIMARY_TWO") = {two}
  BY <1>1, <1>2 DEF OwnSession
<1>5. split <=> one.partition # two.partition
  BY <1>4
<1>6. split <=> HasRole(review.held, "ADJUDICATOR")
  BY <1>3, <1>5 DEF ReleaseStands, Disagree
<1>7. CASE ~split
  <2>1. in("ADJUDICATOR") = {} /\ final = {one}
    BY <1>2, <1>4, <1>6, <1>7 DEF HasRole
  <2>2. FinalReview(review.held) = one
    BY <1>3, <1>5, <1>7 DEF FinalReview, Disagree
  <2> HIDE DEF split, final, in
  <2>3. Cardinality(in("ADJUDICATOR")) = 0
    BY <2>1, FS_EmptySet
  <2>4. \A role \in Primaries : Cardinality(in(role)) = 1
    BY <1>4, FS_Singleton DEF Primaries
  <2>5. evidence.partition \notin Crossing
    BY <1>2 DEF ReleaseStands
  <2>6. \A s \in evidence.sessions :
          s \in sink /\ s.setting = evidence.setting /\ s.catalog = evidence.catalog
    BY <1>1, <1>2 DEF OwnSession
  <2>7. \A s \in final : s.partition = evidence.partition
    BY <1>2, <2>1, <2>2
  <2>8. Cardinality(in("ADJUDICATOR")) = IF split THEN 1 ELSE 0
    BY <1>7, <2>3
  <2> USE DEF split, final, in
  <2> QED BY <1>2, <2>4, <2>5, <2>6, <2>7, <2>8
<1>8. CASE split
  <2>1. review.held = {one, two, third} /\ OwnSession(third, "ADJUDICATOR")
    BY <1>1, <1>6, <1>8 DEF HasRole, OwnSession
  <2>2. in("ADJUDICATOR") = {third} /\ final = {third}
    BY <1>1, <1>2, <1>8, <2>1 DEF OwnSession
  <2>3. FinalReview(review.held) = third
    BY <1>1, <1>3, <1>5, <1>8, <2>1 DEF FinalReview, Disagree, SessionOf, OwnSession
  <2> HIDE DEF split, final, in
  <2>4. \A role \in Primaries : Cardinality(in(role)) = 1
    BY <1>4, FS_Singleton DEF Primaries
  <2>5. evidence.partition \notin Crossing
    BY <1>2 DEF ReleaseStands
  <2>6. \A s \in evidence.sessions :
          s \in sink /\ s.setting = evidence.setting /\ s.catalog = evidence.catalog
    BY <1>1, <1>2, <2>1 DEF OwnSession
  <2>7. \A s \in final : s.partition = evidence.partition
    BY <1>2, <2>2, <2>3
  <2>8. Cardinality(in("ADJUDICATOR")) = IF split THEN 1 ELSE 0
    BY <1>8, <2>2, FS_Singleton
  <2> USE DEF split, final, in
  <2> QED BY <1>2, <2>4, <2>5, <2>6, <2>7, <2>8
<1> QED BY <1>7, <1>8

(* Every step keeps the process and its evidence in order.                  *)
LEMMA ReviewStep ==
  ASSUME ReviewInv, [SemanticNext]_semanticVars PROVE ReviewInv'
<1>1. CASE StartReview
  <2>1. PICK setting \in Settings, catalog \in Catalogs, given \in SUBSET sink :
          review' = [at |-> "PRIMARY_ONE", setting |-> setting, catalog |-> catalog,
                     handed |-> given, held |-> {}]
    BY <1>1 DEF StartReview
  <2>2. UNCHANGED <<sink, granted>>
    BY <1>1 DEF StartReview
  <2>3. HeldInOrder'
    BY <2>1 DEF HeldInOrder
  <2>4. ReviewStands'
    BY <2>1, <2>2, <2>3 DEF ReviewStands, ReviewRoles
  <2> QED BY <2>2, <2>4, EvidenceStays DEF ReviewInv
<1>2. CASE IssueRelease
  <2>1. CASE Disagree(review.held) /\ ~HasRole(review.held, "ADJUDICATOR")
    <3>1. /\ review' = [review EXCEPT !.at = "ADJUDICATOR"] /\ review.at = "RELEASE"
          /\ UNCHANGED <<sink, granted>> /\ review # NoReview
      BY <1>2, <2>1 DEF IssueRelease, NoReview
    <3>2. PICK one, two, third :
            /\ OwnSession(one, "PRIMARY_ONE") /\ OwnSession(two, "PRIMARY_TWO")
            /\ \/ review.held = {one, two}
               \/ review.held = {one, two, third} /\ OwnSession(third, "ADJUDICATOR")
      BY <3>1 DEF ReviewInv, ReviewStands, HeldInOrder
    <3>3. review.held = {one, two} /\ one.partition # two.partition
      BY <2>1, <3>2 DEF HasRole, Disagree, SessionOf, OwnSession
    <3>4. /\ review' = [at |-> "ADJUDICATOR", setting |-> review.setting,
                        catalog |-> review.catalog, handed |-> review.handed,
                        held |-> review.held]
          /\ review.handed \subseteq sink
      BY <3>1 DEF ReviewInv, ReviewStands
    <3>5. OwnSession(one, "PRIMARY_ONE")' /\ OwnSession(two, "PRIMARY_TWO")'
      BY <3>1, <3>2, <3>4 DEF OwnSession
    <3>6. HeldInOrder'
      BY <3>3, <3>4, <3>5 DEF HeldInOrder
    <3> QED BY <3>1, <3>4, <3>6, EvidenceStays DEF ReviewInv, ReviewStands, ReviewRoles
  <2>2. CASE ~(Disagree(review.held) /\ ~HasRole(review.held, "ADJUDICATOR"))
    <3>1. review' = NoReview /\ sink' = sink /\ review.at = "RELEASE"
      BY <1>2, <2>2 DEF IssueRelease, ReviewRaises
    <3>2. CASE granted' = granted
      BY <3>1, <3>2, EvidenceStays DEF ReviewInv, ReviewStands
    <3>3. CASE /\ granted' = granted \cup {ReviewEvidence(review.held)}
               /\ ReleaseStands(review.held)
      <4> DEFINE new == ReviewEvidence(review.held)
      <4>1. granted' = granted \cup {new} /\ new = ReviewEvidence(review.held)
        BY <3>3
      <4> HIDE DEF new
      <4>2. EvidenceIsOneReview'
        BY <3>1, <3>3, <4>1, ReleaseIsOneReview DEF ReviewInv, EvidenceIsOneReview
      <4> QED BY <3>1, <4>2 DEF ReviewInv, ReviewStands
    <3> QED BY <1>2, <2>2, <3>2, <3>3 DEF IssueRelease
  <2> QED BY <2>1, <2>2
<1>3. CASE ReviewDies \/ UNCHANGED semanticVars
  <2>1. review' \in {review, NoReview} /\ UNCHANGED <<sink, granted>>
    BY <1>3 DEF ReviewDies, ReviewRaises, semanticVars
  <2>2. ReviewStands'
    BY <2>1, ReviewStays DEF ReviewInv, ReviewStands
  <2> QED BY <2>1, <2>2, EvidenceStays DEF ReviewInv
<1>4. ASSUME NEW role \in ReviewRoles, ResumeSession(role) PROVE ReviewInv'
  <2>1. /\ review.at = role /\ review # NoReview /\ UNCHANGED <<sink, granted>>
    BY <1>4 DEF ResumeSession, NoReview, ReviewRoles
  <2>2. CASE ReviewRaises
    BY <2>1, <2>2, EvidenceStays DEF ReviewInv, ReviewStands, ReviewRaises
  <2>3. ASSUME NEW session \in review.handed, Verifies(session, role), Holds(role, session)
        PROVE  ReviewInv'
    <3>1. OwnSession(session, role)'
      <4>1. review'.setting = review.setting /\ review'.catalog = review.catalog
        BY <2>1, <2>3 DEF Holds, ReviewInv, ReviewStands
      <4> QED BY <2>1, <2>3, <4>1 DEF OwnSession, Verifies, ReviewInv, ReviewStands
    <3> QED BY <2>1, <2>3, <3>1, SessionHeld, EvidenceStays DEF ReviewInv
  <2> QED BY <1>4, <2>2, <2>3 DEF ResumeSession
<1>5. ASSUME NEW role \in ReviewRoles, RunReview(role) PROVE ReviewInv'
  <2>1. /\ review.at = role /\ review # NoReview /\ granted' = granted /\ sink \subseteq sink'
    BY <1>5 DEF RunReview, NoReview, ReviewRoles
  <2>2. CASE ReviewRaises
    BY <2>1, <2>2, EvidenceStays DEF ReviewInv, ReviewStands, ReviewRaises
  <2>3. CASE ~ReviewRaises
    <3>1. PICK session :
            /\ session.role = role /\ session.model = role
            /\ session.setting = review.setting /\ session.catalog = review.catalog
            /\ sink' = sink \cup {session} /\ Holds(role, session)
      BY <1>5, <2>3 DEF RunReview, Session
    <3>2. OwnSession(session, role)'
      <4>1. review'.setting = review.setting /\ review'.catalog = review.catalog
        BY <2>1, <3>1 DEF Holds, ReviewInv, ReviewStands
      <4> QED BY <3>1, <4>1 DEF OwnSession
    <3>3. ReviewStands'
      BY <2>1, <3>1, <3>2, SessionHeld DEF ReviewInv
    <3> QED BY <2>1, <3>3, EvidenceStays DEF ReviewInv
  <2> QED BY <2>2, <2>3
<1> QED BY <1>1, <1>2, <1>3, <1>4, <1>5 DEF SemanticNext

(* Whatever processes died and whatever sessions were handed over, issued   *)
(* evidence rests on one review: its own setting and catalog, one session   *)
(* of each primary, an adjudicator exactly where they disagree              *)
(* (bfcl_v4_public_v2_semantic_campaign.py).                               *)
THEOREM ReviewIsOne == SemanticSpec => []EvidenceIsOneReview
<1>1. SemanticInit => ReviewInv
  BY DEF SemanticInit, ReviewInv, ReviewStands, EvidenceIsOneReview
<1>2. ReviewInv /\ [SemanticNext]_semanticVars => ReviewInv'
  BY ReviewStep
<1>3. ReviewInv => EvidenceIsOneReview
  BY DEF ReviewInv
<1> QED BY <1>1, <1>2, <1>3, PTL DEF SemanticSpec

-----------------------------------------------------------------------------
(* The grading plane                                                       *)

Configs == [release : Releases]
CallRecords == [node : GradedNodes, config : Configs, output : Outputs]
Attempts == [at : {"TAKE"}, node : GradedNodes, output : Outputs,
             unlock : DecisionBarriers \cup {NoCall}]

\* An execution of the node under the live configuration gave the output.
Backed(node, output) ==
  [slot |-> NativeSlot(node, live), request |-> NativeRequest(node, live),
   output |-> output] \in executions

\* A record of a call that the live producer issued.
OwnCall(call) == call \in CallRecords /\ call.config = live /\ Backed(call.node, call.output)

\* An attempt names an output and, if at all, an unlock this adapter issued.
OwnAttempt(attempt) == attempt \in Attempts /\ attempt.unlock \in unlocks \cup {NoCall}

\* Before the configuration is frozen nothing is registered, unlocked or graded.
LiveStands ==
  /\ live \in Configs \cup {NoCall}
  /\ IF live = NoCall
     THEN /\ registry = [node \in GradedNodes |-> NoCall] /\ unlocks = {}
          /\ graders = [thread \in GradeThreads |-> Idle] /\ grades = {} /\ pureGrade = NoCall
     ELSE [release |-> live.release, verified |-> TRUE] \in Authorities

ExecutionsKnown ==
  executions \subseteq [slot : [node : GradedNodes, config : Configs],
                        request : [task : GradedNodes, config : Configs],
                        output : Outputs \cup {NoCall}]

RegistryStands ==
  /\ registry \in [GradedNodes -> CallRecords \cup {NoCall}]
  /\ \A node \in GradedNodes :
       registry[node] # NoCall => OwnCall(registry[node]) /\ registry[node].node = node

UnlocksStand == \A unlock \in unlocks : unlock \in DecisionBarriers /\ OwnBarrier(unlock)

\* A grading attempt holds the very call it was started for.
GradersStand ==
  /\ DOMAIN graders = GradeThreads
  /\ \A thread \in GradeThreads :
       \/ graders[thread] = Idle
       \/ OwnAttempt(graders[thread])
       \/ /\ graders[thread] = [at |-> "GRADE", attempt |-> graders[thread].attempt,
                                call |-> graders[thread].call]
          /\ OwnAttempt(graders[thread].attempt) /\ OwnCall(graders[thread].call)
          /\ graders[thread].call.node = graders[thread].attempt.node
          /\ graders[thread].call.output = graders[thread].attempt.output

CountsKnown == registered \in [GradedNodes -> Nat] /\ handed \in [GradedNodes -> Nat]

GradingInv ==
  /\ LiveStands /\ ExecutionsKnown /\ RegistryStands /\ UnlocksStand /\ GradersStand
  /\ CountsKnown /\ GradesAreOwn

(* What the executor may get of a call it holds, if anything, is own.       *)
LEMMA GradeIsOwn ==
  ASSUME GradingInv, NEW thread \in GradeThreads, GradeCall(thread)
  PROVE  GradesAreOwn' /\ GradersStand'
<1> DEFINE attempt == graders[thread].attempt
           call == graders[thread].call
<1>1. /\ graders[thread].at = "GRADE"
      /\ graders' = [graders EXCEPT ![thread] = Idle]
      /\ UNCHANGED <<live, executions, registry, unlocks, pureGrade, registered, handed>>
  BY DEF GradeCall, GradeRaises
<1>2. /\ OwnAttempt(attempt) /\ OwnCall(call)
      /\ call.node = attempt.node /\ call.output = attempt.output
  BY <1>1 DEF GradingInv, GradersStand, Idle, OwnAttempt, Attempts
<1>3. GradersStand'
  BY <1>1 DEF GradingInv, GradersStand, OwnAttempt, OwnCall, Backed
<1>4. CASE grades' = grades
  BY <1>1, <1>3, <1>4 DEF GradingInv, GradesAreOwn, OwnBarrier
<1>5. CASE \E receipt \in Receipts :
             /\ Projects(call, receipt, attempt.unlock)
             /\ grades' = grades \cup
                  {[attempt |-> attempt, call |-> call,
                    correct |-> <<receipt.node, receipt.output>> \in CorrectPairs]}
  <2>1. PICK receipt \in Receipts :
             /\ Projects(call, receipt, attempt.unlock)
             /\ grades' = grades \cup
                  {[attempt |-> attempt, call |-> call,
                    correct |-> <<receipt.node, receipt.output>> \in CorrectPairs]}
    BY <1>5
  <2> DEFINE correct == <<receipt.node, receipt.output>> \in CorrectPairs
             new == [attempt |-> attempt, call |-> call, correct |-> correct]
  <2>2. receipt.node = attempt.node /\ receipt.output = attempt.output
    BY <1>2, <2>1 DEF Projects
  <2>3. new.correct = (<<attempt.node, attempt.output>> \in CorrectPairs)
    BY <2>2
  <2>4. Backed(attempt.node, attempt.output)
    BY <1>2 DEF OwnCall
  <2>5. IF SplitOf[attempt.node] = "HOLDOUT"
        THEN attempt.unlock \in unlocks /\ OwnBarrier(attempt.unlock)
        ELSE attempt.unlock = NoCall
    BY <1>2, <2>1 DEF Projects, UnlockFits, OwnAttempt
  <2>6. new.attempt = attempt /\ grades' = grades \cup {new}
    BY <2>1
  <2> HIDE DEF correct, new, attempt
  <2> QED BY <1>1, <1>3, <2>3, <2>4, <2>5, <2>6 DEF GradingInv, GradesAreOwn, OwnBarrier, Backed
<1> QED BY <1>3, <1>4, <1>5 DEF GradeCall

\* Registrations are handed out or wait.
CountsAgree ==
  \A node \in GradedNodes :
    registered[node] = handed[node] + (IF registry[node] = NoCall THEN 0 ELSE 1)

(* Grades stay own when more is executed and unlocked.                      *)
LEMMA GradesStay ==
  ASSUME GradesAreOwn, executions \subseteq executions', unlocks \subseteq unlocks',
         UNCHANGED <<live, grades, pureGrade>>, CountsAgree'
  PROVE  GradesAreOwn'
<1>1. \A grade \in grades' :
       LET node == grade.attempt.node IN
       /\ [slot |-> NativeSlot(node, live'), request |-> NativeRequest(node, live'),
           output |-> grade.attempt.output] \in executions'
       /\ grade.correct = (<<node, grade.attempt.output>> \in CorrectPairs)
       /\ IF SplitOf[node] = "HOLDOUT"
          THEN /\ grade.attempt.unlock \in unlocks'
               /\ grade.attempt.unlock.decisions = "FROZEN"
               /\ grade.attempt.unlock.release = live'.release
          ELSE grade.attempt.unlock = NoCall
  BY DEF GradesAreOwn, OwnBarrier
<1> QED BY <1>1 DEF GradesAreOwn, OwnBarrier, CountsAgree

(* Freezing the configuration leaves everything else empty.                 *)
LEMMA FreezeStep ==
  ASSUME GradingInv, NEW authority \in Authorities, FreezeLive(authority) PROVE GradingInv'
<1>1. /\ live = NoCall /\ authority.verified /\ live' = Config(authority.release)
      /\ UNCHANGED <<executions, registry, unlocks, graders, grades, pureGrade, registered, handed>>
  BY DEF FreezeLive
<1>2. authority.release \in Releases /\ authority.verified \in BOOLEAN
      /\ authority = [release |-> authority.release, verified |-> authority.verified]
  BY GradingAssumption DEF GradingAssumption
<1>3. [release |-> authority.release, verified |-> TRUE] \in Authorities
  BY <1>1, <1>2
<1>4. live' \in Configs /\ live'.release = authority.release /\ live' # NoCall
  BY <1>1, <1>2, NoCallAssumption DEF Config, Configs, NoCallAssumption
<1>5. LiveStands'
  BY <1>3, <1>4 DEF LiveStands
<1>6. /\ registry' = [node \in GradedNodes |-> NoCall] /\ unlocks' = {}
      /\ graders' = [thread \in GradeThreads |-> Idle] /\ grades' = {} /\ pureGrade' = NoCall
  BY <1>1 DEF GradingInv, LiveStands
<1>7. ExecutionsKnown' /\ RegistryStands' /\ UnlocksStand' /\ GradersStand' /\ CountsKnown'
  BY <1>1, <1>6 DEF GradingInv, ExecutionsKnown, RegistryStands, UnlocksStand, GradersStand,
     CountsKnown
<1>8. GradesAreOwn'
  BY <1>1, <1>3, <1>4, <1>6 DEF GradingInv, GradesAreOwn
<1> QED BY <1>5, <1>7, <1>8 DEF GradingInv

(* Every other step under the frozen configuration keeps the plane in order. *)
LEMMA GradingStep ==
  ASSUME GradingInv, [GradingNext]_gradingVars PROVE GradingInv'
<1> USE DEF GradingInv
<1>1. CASE Execute
  <2>1. /\ executions \subseteq executions' /\ live # NoCall
        /\ UNCHANGED <<live, registry, unlocks, graders, grades, pureGrade, registered, handed>>
    BY <1>1 DEF Execute
  <2>2. ExecutionsKnown'
    BY <1>1 DEF Execute, ExecutionsKnown, NativeSlot, NativeRequest, Config, Configs
  <2>3. \A call : OwnCall(call) => OwnCall(call)'
    BY <2>1 DEF OwnCall, Backed, NativeSlot, NativeRequest
  <2>4. RegistryStands' /\ GradersStand' /\ UnlocksStand' /\ LiveStands' /\ CountsKnown'
    BY <2>1, <2>3 DEF RegistryStands, GradersStand, UnlocksStand, LiveStands, CountsKnown,
       OwnAttempt, OwnBarrier
  <2>5. GradesAreOwn'
    BY <2>1, GradesStay DEF CountsAgree, GradesAreOwn
  <2> QED BY <2>2, <2>4, <2>5
<1>2. ASSUME NEW call \in Issued, RegisterCall(call) PROVE GradingInv'
  <2>1. /\ call.config = live /\ registry[call.node] = NoCall
        /\ registry' = [registry EXCEPT ![call.node] = call]
        /\ registered' = [registered EXCEPT ![call.node] = @ + 1]
        /\ UNCHANGED <<live, executions, unlocks, graders, grades, pureGrade, handed>>
    BY <1>2 DEF RegisterCall, OwnProduct
  <2>2. OwnCall(call)
    <3>1. PICK t \in GradedNodes \X Releases \X executions :
            /\ RecordBinds(t[1], t[2], t[3], Config(t[2]))
            /\ call = [node |-> t[1], config |-> Config(t[2]), output |-> t[3].output]
      BY DEF Issued
    <3>2. /\ t[1] \in GradedNodes /\ t[2] \in Releases /\ t[3] \in executions
          /\ t[3].output \in Outputs
          /\ t[3] = [slot |-> NativeSlot(t[1], Config(t[2])),
                     request |-> NativeRequest(t[1], Config(t[2])), output |-> t[3].output]
      BY <3>1 DEF RecordBinds, ExecutionsKnown
    <3>3. call \in CallRecords
      BY <3>1, <3>2 DEF CallRecords, Config, Configs
    <3>4. live = Config(t[2]) /\ call.node = t[1] /\ call.output = t[3].output
      BY <2>1, <3>1
    <3> QED BY <2>1, <3>2, <3>3, <3>4 DEF OwnCall, Backed
  <2>3. call \in CallRecords /\ call.node \in GradedNodes /\ call # NoCall
    BY <2>2, NoCallAssumption DEF OwnCall, CallRecords, Configs, NoCallAssumption
  <2>4. live # NoCall
    BY <2>1, <2>3, NoCallAssumption DEF CallRecords, Configs, NoCallAssumption
  <2>5. RegistryStands'
    BY <2>1, <2>2, <2>3 DEF RegistryStands, OwnCall, Backed
  <2>6. CountsAgree' /\ CountsKnown'
    BY <2>1, <2>3 DEF CountsAgree, GradesAreOwn, CountsKnown, RegistryStands
  <2>7. /\ ExecutionsKnown' /\ GradersStand' /\ UnlocksStand' /\ LiveStands'
    BY <2>1, <2>4 DEF ExecutionsKnown, GradersStand, UnlocksStand, LiveStands,
       OwnAttempt, OwnBarrier, OwnCall, Backed
  <2> QED BY <2>1, <2>5, <2>6, <2>7, GradesStay
<1>3. ASSUME NEW barrier \in DecisionBarriers, IssueUnlock(barrier) PROVE GradingInv'
  <2>1. /\ live # NoCall /\ OwnBarrier(barrier) /\ unlocks' = unlocks \cup {barrier}
        /\ UNCHANGED <<live, executions, registry, graders, grades, pureGrade, registered, handed>>
    BY <1>3 DEF IssueUnlock
  <2>2. UnlocksStand' /\ LiveStands' /\ ExecutionsKnown' /\ CountsKnown'
    BY <2>1 DEF UnlocksStand, LiveStands, ExecutionsKnown, CountsKnown, OwnBarrier
  <2>3. RegistryStands' /\ GradersStand'
    BY <2>1 DEF RegistryStands, GradersStand, OwnAttempt, OwnCall, Backed
  <2> QED BY <2>1, <2>2, <2>3, GradesStay DEF CountsAgree, GradesAreOwn
<1>4. ASSUME NEW thread \in GradeThreads, StartGrade(thread) PROVE GradingInv'
  <2>1. PICK node \in GradedNodes, output \in Outputs, unlock \in unlocks \cup {NoCall} :
          graders' = [graders EXCEPT ![thread] =
            [at |-> "TAKE", node |-> node, output |-> output, unlock |-> unlock]]
    BY <1>4 DEF StartGrade
  <2>2. /\ live # NoCall
        /\ UNCHANGED <<live, executions, registry, unlocks, grades, pureGrade, registered, handed>>
    BY <1>4 DEF StartGrade
  <2>3. OwnAttempt([at |-> "TAKE", node |-> node, output |-> output, unlock |-> unlock])
    BY DEF OwnAttempt, Attempts, UnlocksStand
  <2>4. GradersStand'
    BY <2>1, <2>2, <2>3 DEF GradersStand, OwnAttempt, OwnCall, Backed
  <2>5. LiveStands' /\ ExecutionsKnown' /\ RegistryStands' /\ UnlocksStand' /\ CountsKnown'
    BY <2>2 DEF LiveStands, ExecutionsKnown, RegistryStands, UnlocksStand, CountsKnown,
       OwnCall, Backed, OwnBarrier
  <2> QED BY <2>2, <2>4, <2>5, GradesStay DEF CountsAgree, GradesAreOwn
<1>5. ASSUME NEW thread \in GradeThreads, Take(thread) PROVE GradingInv'
  <2> DEFINE attempt == graders[thread]
             call == registry[attempt.node]
  <2>1. attempt.at = "TAKE" /\ UNCHANGED <<live, executions, unlocks, grades, pureGrade, registered>>
    BY <1>5 DEF Take
  <2>2. OwnAttempt(attempt) /\ attempt.node \in GradedNodes /\ live # NoCall
    <3>1. OwnAttempt(attempt)
      BY <2>1 DEF GradersStand, Idle
    <3>2. attempt # Idle
      BY <2>1 DEF Idle
    <3> QED BY <3>1, <3>2 DEF OwnAttempt, Attempts, LiveStands
  <2>3. LiveStands' /\ ExecutionsKnown' /\ UnlocksStand'
    BY <2>1, <2>2 DEF LiveStands, ExecutionsKnown, UnlocksStand, OwnBarrier
  <2>4. CASE MatchesCall(call, attempt)
    <3>1. /\ registry' = [registry EXCEPT ![attempt.node] = NoCall]
          /\ handed' = [handed EXCEPT ![attempt.node] = @ + 1]
          /\ graders' = [graders EXCEPT ![thread] =
               [at |-> "GRADE", attempt |-> attempt, call |-> call]]
      BY <1>5, <2>4 DEF Take
    <3>2. /\ call # NoCall /\ OwnCall(call) /\ call.node = attempt.node
          /\ call.output = attempt.output
      BY <2>2, <2>4 DEF MatchesCall, RegistryStands
    <3> HIDE DEF attempt, call
    <3>3. GradersStand'
      BY <2>1, <2>2, <3>1, <3>2 DEF GradersStand, OwnAttempt, OwnCall, Backed
    <3>4. RegistryStands'
      BY <2>1, <2>2, <3>1 DEF RegistryStands, OwnCall, Backed
    <3> USE DEF call
    <3>5. CountsAgree' /\ CountsKnown'
      BY <2>1, <2>2, <3>1, <3>2 DEF CountsAgree, CountsKnown, GradesAreOwn, RegistryStands
    <3> QED BY <2>1, <2>3, <3>3, <3>4, <3>5, GradesStay
  <2>5. CASE ~MatchesCall(call, attempt)
    <3>1. /\ graders' = [graders EXCEPT ![thread] = Idle]
          /\ UNCHANGED <<registry, handed>>
      BY <1>5, <2>5 DEF Take, GradeRaises
    <3>2. GradersStand'
      BY <2>1, <3>1 DEF GradersStand, OwnAttempt, OwnCall, Backed
    <3>3. RegistryStands' /\ CountsKnown'
      BY <2>1, <3>1 DEF RegistryStands, CountsKnown, OwnCall, Backed
    <3> QED BY <2>1, <2>3, <3>1, <3>2, <3>3, GradesStay DEF CountsAgree, GradesAreOwn
  <2> QED BY <2>4, <2>5
<1>6. ASSUME NEW thread \in GradeThreads, GradeCall(thread) PROVE GradingInv'
  <2>1. UNCHANGED <<live, executions, registry, unlocks, pureGrade, registered, handed>>
        /\ graders[thread].at = "GRADE"
    BY <1>6 DEF GradeCall
  <2>2. graders[thread] # Idle
    BY <2>1 DEF Idle
  <2>3. LiveStands' /\ ExecutionsKnown' /\ RegistryStands' /\ UnlocksStand' /\ CountsKnown'
    BY <2>1, <2>2 DEF LiveStands, ExecutionsKnown, RegistryStands, UnlocksStand, CountsKnown,
       OwnCall, Backed, OwnBarrier
  <2> QED BY <1>6, <2>3, GradeIsOwn
<1>7. CASE GradePureBatch
  <2>1. PICK request \in PureRequests, receipt \in PureRequests :
       /\ BatchContext(request)
       /\ \A cell \in PureCells : receipt.cells[cell] = request.cells[cell]
       /\ pureGrade' = [request |-> request,
            correct |-> [cell \in PureCells |-> <<cell, receipt.cells[cell]>> \in CorrectPairs]]
    BY <1>7 DEF GradePureBatch
  <2>2. /\ live # NoCall
        /\ UNCHANGED <<live, executions, registry, unlocks, graders, grades, registered, handed>>
    BY <1>7 DEF GradePureBatch
  <2>3. LiveStands' /\ ExecutionsKnown' /\ RegistryStands' /\ UnlocksStand' /\ CountsKnown'
        /\ GradersStand'
    BY <2>2 DEF LiveStands, ExecutionsKnown, RegistryStands, UnlocksStand, CountsKnown,
       GradersStand, OwnAttempt, OwnCall, Backed, OwnBarrier
  <2>4. \A cell \in PureCells :
          pureGrade'.correct[cell] = (<<cell, pureGrade'.request.cells[cell]>> \in CorrectPairs)
    <3>1. pureGrade'.correct
            = [cell \in PureCells |-> <<cell, receipt.cells[cell]>> \in CorrectPairs]
      BY <2>1
    <3>2. pureGrade'.request = request
      BY <2>1
    <3> QED BY <2>1, <3>1, <3>2
  <2>5. pureGrade'.request.release = live.release /\ OwnBarrier(pureGrade'.request.unlock)
    BY <2>1 DEF BatchContext
  <2> QED BY <2>2, <2>3, <2>4, <2>5 DEF GradesAreOwn, OwnBarrier
<1>8. CASE UNCHANGED gradingVars
  BY <1>8 DEF gradingVars, LiveStands, ExecutionsKnown, RegistryStands, UnlocksStand, CountsKnown,
     GradersStand, OwnAttempt, OwnCall, Backed, OwnBarrier, GradesAreOwn
<1> QED BY <1>1, <1>2, <1>3, <1>4, <1>5, <1>6, <1>7, <1>8, FreezeStep DEF GradingNext

(* A grade is of the very output the executor asked about, given by an      *)
(* execution of that node under the live configuration; only a HOLDOUT      *)
(* grade rests on an unlock, of this adapter's own barrier; a registration  *)
(* is graded at most once (bfcl_v4_public_v2_trusted_adapters.py).          *)
THEOREM GradingStands == GradingSpec => []GradesAreOwn
<1>1. GradingInit => GradingInv
  BY DEF GradingInit, GradingInv, LiveStands, ExecutionsKnown, RegistryStands, UnlocksStand,
     CountsKnown, GradersStand, GradesAreOwn
<1>2. GradingInv /\ [GradingNext]_gradingVars => GradingInv'
  BY GradingStep
<1>3. GradingInv => GradesAreOwn
  BY DEF GradingInv
<1> QED BY <1>1, <1>2, <1>3, PTL DEF GradingSpec

-----------------------------------------------------------------------------
(* The public pilot                                                        *)

Faulty == {"overrun", "drift", "storage", "registration", "terminal", "undiagnosed"}
\* What stops the campaign at once.
Fatal == {"storage", "registration", "undiagnosed"}
Over == {"CLOSING", "DONE", "RAISED"}
Analysing == {"DERIVING", "PUBLISHING_INPUT", "ANALYSING"}
InCampaign == {"REGISTERING", "REPLICATE", "RUNNING", "VERIFYING", "CHECKPOINTING"}

\* The k-th checkpoint holds the first k verified replicates and names the one before.
CheckpointsStand(done, published) ==
  /\ \E S : done \in Seq(S)
  /\ \E S : published \in Seq(S)
  /\ Len(published) <= Len(done)
  /\ \A k \in DOMAIN published :
       published[k] = [completed |-> SubSeq(done, 1, k),
                       previous |-> IF k = 1 THEN None ELSE published[k - 1]]

\* What is analysed is what was verified.
AnalysisStands(done, a) ==
  /\ a = [input |-> a.input, inputRef |-> a.inputRef, output |-> a.output]
  /\ a.inputRef \in {None, AnalysisInput(done)}
  /\ a.output \in {None, Analysis(AnalysisInput(done))}

\* Where the campaign is, and what there may be by then.
PhaseStands ==
  /\ phase \in InCampaign \cup Analysing \cup Over
  /\ phase \in InCampaign => analysis = NoAnalysis
  /\ phase \in {"PUBLISHING_INPUT", "ANALYSING"} => analysis.input = AnalysisInput(completed)
  /\ phase \in InCampaign =>
       Len(completed) = Len(checkpoints) + (IF phase = "CHECKPOINTING" THEN 1 ELSE 0)
  /\ terminal # None => phase \in Over

\* A terminal was composed of what the campaign holds.
TerminalOwn ==
  terminal # None => /\ terminal.completed = completed /\ terminal.checkpoints = checkpoints
                     /\ terminal.analysis = analysis

\* What went wrong outside the answers is remembered where it bites.
TroubleStands ==
  /\ trouble \subseteq Faulty
  /\ "drift" \in trouble => backend = "drifted"
  /\ backend # "frozen" => phase \in {"RUNNING", "VERIFYING"} \cup Over
  /\ trouble \cap Fatal # {} => phase \in Over
  /\ terminal # None /\ terminal.status = "COMPLETE" =>
       backend = "frozen" /\ trouble \cap Fatal = {}

PilotInv ==
  /\ CheckpointsStand(completed, checkpoints) /\ AnalysisStands(completed, analysis)
  /\ PhaseStands /\ TerminalOwn /\ TroubleStands

(* What a reader has recomputed of the checkpoints stays right when another *)
(* replicate is verified.                                                  *)
LEMMA CheckpointsKept ==
  ASSUME NEW done, NEW published, CheckpointsStand(done, published), NEW next
  PROVE  CheckpointsStand(Append(done, next), published) /\ Len(Append(done, next)) = Len(done) + 1
<1> DEFINE more == Append(done, next)
<1>1. PICK S : done \in Seq(S)
  BY DEF CheckpointsStand
<1>2. PICK P : published \in Seq(P)
  BY DEF CheckpointsStand
<1>3. done \in Seq(S \cup {next})
  BY <1>1, SeqMonotonic
<1>4. /\ more \in Seq(S \cup {next}) /\ Len(more) = Len(done) + 1
      /\ \A i \in 1 .. Len(done) : more[i] = done[i]
  BY <1>3, AppendProperties
<1>5. /\ Len(done) \in Nat /\ Len(published) \in Nat /\ DOMAIN published = 1 .. Len(published)
      /\ Len(published) <= Len(done)
  BY <1>2, <1>3, LenProperties DEF CheckpointsStand
<1> HIDE DEF more
<1>6. ASSUME NEW k \in DOMAIN published PROVE SubSeq(more, 1, k) = SubSeq(done, 1, k)
  <2>1. k \in 0 .. Len(done) /\ k \in 0 .. Len(more)
    BY <1>4, <1>5
  <2>2. SubSeq(more, 1, k) = Restrict(more, 1 .. k) /\ SubSeq(done, 1, k) = Restrict(done, 1 .. k)
    BY <1>3, <1>4, <2>1, SubSeqRestrict
  <2>3. \A i \in 1 .. k : more[i] = done[i]
    BY <1>4, <1>5, <2>1
  <2> QED BY <2>2, <2>3 DEF Restrict
<1>7. CheckpointsStand(more, published)
  BY <1>2, <1>4, <1>5, <1>6 DEF CheckpointsStand
<1> QED BY <1>4, <1>7 DEF more

(* The checkpoint of all verified replicates is the next one.               *)
LEMMA CheckpointsGrow ==
  ASSUME NEW done, NEW published, CheckpointsStand(done, published),
         Len(done) = Len(published) + 1
  PROVE  CheckpointsStand(done, Append(published, Checkpoint(done, published)))
         /\ Len(Append(published, Checkpoint(done, published))) = Len(done)
<1> DEFINE new == Checkpoint(done, published)
           more == Append(published, new)
<1>1. PICK S : done \in Seq(S)
  BY DEF CheckpointsStand
<1>2. PICK P : published \in Seq(P)
  BY DEF CheckpointsStand
<1>3. published \in Seq(P \cup {new})
  BY <1>2, SeqMonotonic
<1>4. /\ more \in Seq(P \cup {new}) /\ Len(more) = Len(published) + 1
      /\ \A i \in 1 .. Len(published) : more[i] = published[i]
      /\ more[Len(published) + 1] = new
  BY <1>3, AppendProperties
<1>5. /\ Len(published) \in Nat /\ DOMAIN published = 1 .. Len(published)
      /\ DOMAIN more = 1 .. Len(more) /\ (published = <<>> <=> Len(published) = 0)
  BY <1>2, <1>4, LenProperties, EmptySeq
<1>6. SubSeq(done, 1, Len(done)) = done
  BY <1>1, SubSeqFull
<1>7. new = [completed |-> done,
             previous |-> IF Len(published) = 0 THEN None ELSE published[Len(published)]]
  BY <1>5 DEF Checkpoint
<1> HIDE DEF new, more
<1>8. ASSUME NEW k \in DOMAIN more
      PROVE  more[k] = [completed |-> SubSeq(done, 1, k),
                        previous |-> IF k = 1 THEN None ELSE more[k - 1]]
  <2>1. CASE k \in DOMAIN published
    <3>1. k = 1 \/ k - 1 \in DOMAIN published
      BY <1>5, <2>1
    <3>2. more[k] = published[k] /\ (k # 1 => more[k - 1] = published[k - 1])
      BY <1>4, <1>5, <2>1, <3>1
    <3> QED BY <2>1, <3>2 DEF CheckpointsStand
  <2>2. CASE k \notin DOMAIN published
    <3>1. k = Len(published) + 1 /\ k = Len(done) /\ k - 1 = Len(published)
      BY <1>4, <1>5, <2>2
    <3>2. k # 1 => more[k - 1] = published[Len(published)]
      BY <1>4, <1>5, <3>1
    <3> QED BY <1>4, <1>5, <1>6, <1>7, <3>1, <3>2
  <2> QED BY <2>1, <2>2
<1>9. CheckpointsStand(done, more)
  BY <1>1, <1>4, <1>5, <1>8 DEF CheckpointsStand
<1> QED BY <1>4, <1>9 DEF more, new

(* However a campaign ends, its terminal is composed of what it holds.      *)
LEMMA ComposeStep ==
  ASSUME PilotInv, phase \notin Over, NEW status, NEW failure,
         Compose(Terminal(status, failure, analysis')), UNCHANGED <<completed, checkpoints>>,
         AnalysisStands(completed, analysis'),
         trouble' \subseteq Faulty, "drift" \in trouble' => backend' = "drifted",
         status = "COMPLETE" =>
           backend' = "frozen" /\ trouble' \cap Fatal = {}
  PROVE  PilotInv'
<1> DEFINE t == Terminal(status, failure, analysis')
<1>1. /\ t.completed = completed /\ t.checkpoints = checkpoints /\ t.analysis = analysis'
      /\ t.status = status
  BY DEF Terminal
<1>2. phase' \in {"CLOSING", "RAISED"} /\ terminal' \in {t, None}
  BY DEF Compose
<1> HIDE DEF t
<1>3. PhaseStands' /\ TerminalOwn'
  BY <1>1, <1>2 DEF PhaseStands, TerminalOwn, InCampaign, Analysing, Over
<1>4. TroubleStands'
  BY <1>1, <1>2 DEF TroubleStands, Over
<1>5. CheckpointsStand(completed, checkpoints)' /\ AnalysisStands(completed, analysis)'
  BY DEF PilotInv, CheckpointsStand, AnalysisStands
<1> QED BY <1>3, <1>4, <1>5 DEF PilotInv

(* A stage fails, for trouble of its own or none.                           *)
LEMMA FailureStep ==
  ASSUME PilotInv, phase \notin Over, NEW stage, NEW active, NEW unverified,
         Incomplete(stage, active, unverified),
         trouble' \subseteq Faulty, "drift" \in trouble' => backend' = "drifted"
  PROVE  PilotInv'
<1>1. /\ Compose(Terminal("INCOMPLETE", Failure(stage, active, unverified), analysis'))
      /\ UNCHANGED <<completed, checkpoints, analysis>>
  BY DEF Incomplete
<1>2. AnalysisStands(completed, analysis')
  BY <1>1 DEF PilotInv
<1> QED BY <1>1, <1>2, ComposeStep

(* A step within a replicate, that leaves what was verified alone.          *)
LEMMA ReplicateStep ==
  ASSUME PilotInv, phase \in InCampaign \ {"CHECKPOINTING"},
         phase' \in InCampaign \ {"CHECKPOINTING"},
         UNCHANGED <<completed, checkpoints, analysis, terminal>>,
         trouble' \subseteq Faulty, "drift" \in trouble' => backend' = "drifted",
         trouble' \cap Fatal \subseteq trouble,
         backend' # "frozen" => phase' \in {"RUNNING", "VERIFYING"}
  PROVE  PilotInv'
<1>1. terminal = None /\ trouble \cap Fatal = {}
  BY DEF PilotInv, PhaseStands, TroubleStands, InCampaign, Over
<1>2. PhaseStands' /\ TerminalOwn' /\ TroubleStands'
  BY <1>1 DEF PilotInv, PhaseStands, TerminalOwn, TroubleStands, InCampaign, Over, Analysing
<1>3. CheckpointsStand(completed, checkpoints)' /\ AnalysisStands(completed, analysis)'
  BY DEF PilotInv, CheckpointsStand, AnalysisStands
<1> QED BY <1>2, <1>3 DEF PilotInv

(* A provider call, whatever it answers and whatever became of the backend. *)
LEMMA CallStep ==
  ASSUME PilotInv, CallProvider PROVE PilotInv'
<1>1. phase = "RUNNING" /\ phase \notin Over /\ phase \in InCampaign \ {"CHECKPOINTING"}
  BY DEF CallProvider, Over, InCampaign
<1>2. CASE ExecutionFails /\ UNCHANGED environment
  <2>1. trouble' \subseteq Faulty /\ ("drift" \in trouble' => backend' = "drifted")
    BY <1>2 DEF environment, PilotInv, TroubleStands
  <2> QED BY <1>1, <1>2, <2>1, FailureStep DEF ExecutionFails
<1>3. CASE \E c, slot : Answered(c, slot)
  <2>1. PICK c, slot : Answered(c, slot)
    BY <1>3
  <2>2. PICK answer \in Answers(slot), drifts \in BOOLEAN :
          \E usage \in Reports(answer) :
            /\ backend' = IF drifts THEN "drifted" ELSE backend
            /\ trouble' = trouble \cup {x \in {"drift", "overrun"} :
                            (x = "drift" /\ drifts) \/ (x = "overrun" /\ usage > Ceiling)}
            /\ Continue(AfterCall(c, answer, usage, drifts))
    BY <2>1 DEF Answered
  <2>3. /\ trouble' \subseteq trouble \cup {"drift", "overrun"}
        /\ "drift" \in trouble' => "drift" \in trouble \/ drifts
        /\ backend' = IF drifts THEN "drifted" ELSE backend
    BY <2>2
  <2>4. PICK next : Continue(next)
    BY <2>2
  <2>5. /\ trouble' \subseteq Faulty /\ ("drift" \in trouble' => backend' = "drifted")
        /\ trouble' \cap Fatal \subseteq trouble
    BY <2>3 DEF PilotInv, TroubleStands, Faulty, Fatal
  <2>6. CASE next = None
    BY <1>1, <2>4, <2>5, <2>6, FailureStep DEF Continue, ExecutionFails
  <2>7. CASE next # None
    BY <1>1, <2>4, <2>5, <2>7, ReplicateStep DEF Continue
  <2> QED BY <2>6, <2>7
<1> QED BY <1>2, <1>3 DEF CallProvider

(* An arm with a candidate prompt and no valid diagnosis lets no selection   *)
(* be frozen: its decision names a prompt it may not name.                  *)
LEMMA UndiagnosedRefused ==
  ASSUME NEW r, NEW arm \in Adaptive, Undiagnosed(r.state.done, arm)
  PROVE  AfterSelections(r) = None
<1> DEFINE evidence == Evidence(r.state.done, r.state.freeze)
           d == Decide(evidence)[arm]
<1>1. /\ evidence[arm].admissible = Admissible(r.state.done, arm)
      /\ evidence[arm].proposed = Proposed(r.state.done, arm)
  BY DEF Evidence, ArmEvidence
<1>2. d.forced = ~evidence[arm].admissible /\ d.proposed = evidence[arm].proposed
  BY DEF Decide, ArmDecision
<1>3. d.forced = TRUE /\ d.proposed = TRUE
  BY <1>1, <1>2 DEF Undiagnosed, Proposed, Admissible
<1>4. ~DecisionCloses(d)
  BY <1>3 DEF DecisionCloses
<1> QED BY <1>4 DEF AfterSelections

(* A freeze or the end of a run: an undiagnosed candidate ends it.          *)
LEMMA RunStep ==
  ASSUME PilotInv, FreezeCandidates \/ FreezeSelections \/ FinishRun PROVE PilotInv'
<1>1. phase = "RUNNING" /\ phase \notin Over /\ phase \in InCampaign \ {"CHECKPOINTING"}
  BY DEF FreezeCandidates, FreezeSelections, FinishRun, Over, InCampaign
<1>2. /\ backend' = backend /\ trouble' \subseteq trouble \cup {"undiagnosed"}
      /\ trouble' \cap {"drift"} \subseteq trouble
  BY DEF FreezeCandidates, FreezeSelections, FinishRun, environment
<1>3. trouble' \subseteq Faulty /\ ("drift" \in trouble' => backend' = "drifted")
  BY <1>2 DEF PilotInv, TroubleStands, Faulty, Fatal
<1>4. \/ ExecutionFails
      \/ /\ phase' \in {"RUNNING", "VERIFYING"}
         /\ UNCHANGED <<completed, checkpoints, analysis, terminal>>
  BY <1>1 DEF FreezeCandidates, FreezeSelections, FinishRun, Continue
<1>5. CASE ExecutionFails
  BY <1>1, <1>3, <1>5, FailureStep DEF ExecutionFails
<1>6. CASE ~ExecutionFails
  <2>1. trouble' \subseteq trouble
    <3>1. CASE FreezeSelections
      <4>1. AfterSelections(run) # None
        BY <1>6, <3>1 DEF FreezeSelections, Continue
      <4>2. \A arm \in Adaptive : ~Undiagnosed(run.state.done, arm)
        BY <4>1, UndiagnosedRefused
      <4> QED BY <3>1, <4>2 DEF FreezeSelections
    <3>2. CASE FreezeCandidates \/ FinishRun
      BY <3>2 DEF FreezeCandidates, FinishRun, environment
    <3> QED BY <3>1, <3>2
  <2> QED BY <1>1, <1>3, <1>4, <1>6, <2>1, ReplicateStep DEF InCampaign
<1> QED BY <1>5, <1>6

(* A result is verified over the registered backend, and its checkpoint     *)
(* holds all verified replicates.                                          *)
LEMMA VerifiedStep ==
  ASSUME PilotInv, Verify \/ PublishCheckpoint PROVE PilotInv'
<1>1. phase \in {"VERIFYING", "CHECKPOINTING"} /\ phase \notin Over /\ UNCHANGED environment
  BY DEF Verify, PublishCheckpoint, Over, environment
<1>2. /\ trouble' \subseteq Faulty /\ ("drift" \in trouble' => backend' = "drifted")
      /\ terminal = None /\ trouble \cap Fatal = {}
      /\ analysis = NoAnalysis
  BY <1>1 DEF environment, PilotInv, TroubleStands, PhaseStands, InCampaign
<1>3. CASE VerificationFails
  BY <1>1, <1>2, <1>3, FailureStep DEF VerificationFails
<1>4. CASE Verify /\ ~VerificationFails
  <2>1. /\ phase = "VERIFYING" /\ phase' = "CHECKPOINTING" /\ backend = "frozen"
        /\ completed' = Append(completed, Binding(result))
        /\ UNCHANGED <<checkpoints, analysis, terminal>>
    BY <1>4 DEF Verify
  <2>2. CheckpointsStand(completed', checkpoints) /\ Len(completed') = Len(completed) + 1
    BY <2>1, CheckpointsKept DEF PilotInv
  <2>3. AnalysisStands(completed', analysis)
    BY <1>2 DEF AnalysisStands, NoAnalysis
  <2>4. CheckpointsStand(completed, checkpoints)' /\ AnalysisStands(completed, analysis)'
    BY <2>1, <2>2, <2>3 DEF CheckpointsStand, AnalysisStands
  <2>5. Len(completed) = Len(checkpoints)
    <3>1. \E S : checkpoints \in Seq(S)
      BY DEF PilotInv, CheckpointsStand
    <3>2. Len(checkpoints) \in Nat
      BY <3>1, LenProperties
    <3> QED BY <2>1, <3>2 DEF PilotInv, PhaseStands, InCampaign
  <2>6. PhaseStands'
    BY <1>2, <2>1, <2>2, <2>5 DEF PhaseStands, InCampaign, Analysing, Over
  <2>7. TerminalOwn' /\ TroubleStands'
    BY <1>1, <1>2, <2>1 DEF TerminalOwn, TroubleStands, environment
  <2> QED BY <2>4, <2>6, <2>7 DEF PilotInv
<1>5. CASE PublishCheckpoint
  <2>1. /\ phase = "CHECKPOINTING" /\ phase' \in {"DERIVING", "REPLICATE"}
        /\ checkpoints' = Append(checkpoints, Checkpoint(completed, checkpoints))
        /\ UNCHANGED <<completed, analysis, terminal>>
    BY <1>5 DEF PublishCheckpoint
  <2>2. Len(completed) = Len(checkpoints) + 1
    BY <2>1 DEF PilotInv, PhaseStands, InCampaign
  <2>3. CheckpointsStand(completed, checkpoints') /\ Len(checkpoints') = Len(completed)
    BY <2>1, <2>2, CheckpointsGrow DEF PilotInv
  <2>4. CheckpointsStand(completed, checkpoints)' /\ AnalysisStands(completed, analysis)'
    BY <2>1, <2>3 DEF CheckpointsStand, AnalysisStands, PilotInv
  <2>5. Len(checkpoints') \in Nat
    <3>1. \E S : checkpoints' \in Seq(S)
      BY <2>4 DEF CheckpointsStand
    <3> QED BY <3>1, LenProperties
  <2>6. PhaseStands'
    BY <1>2, <2>1, <2>3, <2>5 DEF PhaseStands, InCampaign, Analysing, Over
  <2>7. backend = "frozen"
    BY <2>1 DEF PilotInv, TroubleStands, Over
  <2>8. TerminalOwn' /\ TroubleStands'
    BY <1>1, <1>2, <2>1, <2>7 DEF TerminalOwn, TroubleStands, environment
  <2> QED BY <2>4, <2>6, <2>8 DEF PilotInv
<1> QED BY <1>3, <1>4, <1>5

(* The analysis is derived from the verified replicates and from nothing    *)
(* else.                                                                   *)
LEMMA AnalysisStep ==
  ASSUME PilotInv, Derive \/ PublishInput \/ Analyse PROVE PilotInv'
<1>1. /\ phase \in Analysing /\ phase \notin Over /\ phase \notin {"RUNNING", "VERIFYING"}
      /\ UNCHANGED environment /\ UNCHANGED <<completed, checkpoints>>
  BY DEF Derive, PublishInput, Analyse, Analysing, Over, environment, AnalysisFails, Incomplete
<1>2. /\ trouble' \subseteq Faulty /\ ("drift" \in trouble' => backend' = "drifted")
      /\ terminal = None /\ trouble' \cap Fatal = {} /\ backend' = "frozen"
  BY <1>1 DEF environment, PilotInv, TroubleStands, PhaseStands
<1>3. CASE AnalysisFails
  BY <1>1, <1>2, <1>3, FailureStep DEF AnalysisFails
<1>4. analysis = [input |-> analysis.input, inputRef |-> analysis.inputRef,
                  output |-> analysis.output]
  BY DEF PilotInv, AnalysisStands
<1>5. CASE (Derive \/ PublishInput) /\ ~AnalysisFails
  <2>1. /\ phase' \in {"PUBLISHING_INPUT", "ANALYSING"} /\ terminal' = terminal
        /\ analysis'.input = AnalysisInput(completed)
        /\ AnalysisStands(completed, analysis')
    <3>1. CASE Derive
      <4>1. /\ phase' = "PUBLISHING_INPUT" /\ terminal' = terminal
            /\ analysis' = [analysis EXCEPT !.input = AnalysisInput(completed)]
        BY <1>5, <3>1 DEF Derive
      <4>2. analysis' = [input |-> AnalysisInput(completed), inputRef |-> analysis.inputRef,
                         output |-> analysis.output]
        BY <1>4, <4>1
      <4> QED BY <4>1, <4>2 DEF PilotInv, AnalysisStands
    <3>2. CASE PublishInput
      <4>1. /\ phase' = "ANALYSING" /\ terminal' = terminal
            /\ analysis' = [analysis EXCEPT !.inputRef = analysis.input]
            /\ analysis.input = AnalysisInput(completed)
        BY <3>2 DEF PublishInput, PilotInv, PhaseStands
      <4>2. analysis' = [input |-> analysis.input, inputRef |-> analysis.input,
                         output |-> analysis.output]
        BY <1>4, <4>1
      <4> QED BY <4>1, <4>2 DEF PilotInv, AnalysisStands
    <3> QED BY <1>5, <3>1, <3>2
  <2>2. CheckpointsStand(completed, checkpoints)' /\ AnalysisStands(completed, analysis)'
    BY <1>1, <2>1 DEF CheckpointsStand, AnalysisStands, PilotInv
  <2>3. PhaseStands' /\ TerminalOwn' /\ TroubleStands'
    BY <1>1, <1>2, <2>1 DEF PhaseStands, TerminalOwn, TroubleStands, InCampaign, Analysing, Over
  <2> QED BY <2>2, <2>3 DEF PilotInv
<1>6. CASE Analyse /\ ~AnalysisFails
  <2> DEFINE output == Analysis(analysis.input)
  <2>1. /\ phase = "ANALYSING" /\ analysis' = [analysis EXCEPT !.output = output]
        /\ Compose(Terminal("COMPLETE", None, analysis'))
    BY <1>6 DEF Analyse
  <2>2. output = Analysis(AnalysisInput(completed))
    BY <2>1 DEF PilotInv, PhaseStands
  <2> HIDE DEF output
  <2>3. analysis' = [input |-> analysis.input, inputRef |-> analysis.inputRef, output |-> output]
    BY <1>4, <2>1
  <2>4. AnalysisStands(completed, analysis')
    BY <2>2, <2>3 DEF AnalysisStands, PilotInv
  <2> QED BY <1>1, <1>2, <2>1, <2>4, ComposeStep
<1> QED BY <1>3, <1>5, <1>6

(* A write fails, in a stage or where nothing catches it.                   *)
LEMMA FaultStep ==
  ASSUME PilotInv, StorageFault PROVE PilotInv'
<1>1. backend' = backend
  BY DEF StorageFault
<1>2. ASSUME NEW what \in {"storage", "registration", "terminal"},
             trouble' = trouble \cup {what}
      PROVE  trouble' \subseteq Faulty /\ ("drift" \in trouble' => backend' = "drifted")
  BY <1>1, <1>2 DEF PilotInv, TroubleStands, Faulty, Fatal
<1>3. ASSUME trouble' = trouble \cup {"storage"}, phase \notin Over,
             NEW stage, NEW active, NEW unverified, Incomplete(stage, active, unverified)
      PROVE  PilotInv'
  BY <1>2, <1>3, FailureStep
<1>4. CASE phase = "REGISTERING" /\ Raise("registration")
  <2>1. /\ phase' = "RAISED" /\ trouble' = trouble \cup {"registration"} /\ terminal = None
        /\ UNCHANGED <<completed, checkpoints, analysis, terminal>>
    BY <1>4 DEF Raise, PilotInv, PhaseStands, Over
  <2>2. CheckpointsStand(completed, checkpoints)' /\ AnalysisStands(completed, analysis)'
    BY <2>1 DEF CheckpointsStand, AnalysisStands, PilotInv
  <2>3. PhaseStands' /\ TerminalOwn' /\ TroubleStands'
    BY <1>2, <2>1 DEF PhaseStands, TerminalOwn, TroubleStands, InCampaign, Analysing, Over
  <2> QED BY <2>2, <2>3 DEF PilotInv
<1>5. CASE phase = "CLOSING" /\ Raise("terminal")
  <2>1. /\ phase' = "RAISED" /\ trouble' = trouble \cup {"terminal"}
        /\ UNCHANGED <<completed, checkpoints, analysis, terminal>>
    BY <1>5 DEF Raise
  <2>2. CheckpointsStand(completed, checkpoints)' /\ AnalysisStands(completed, analysis)'
    BY <2>1 DEF CheckpointsStand, AnalysisStands, PilotInv
  <2>3. PhaseStands' /\ TerminalOwn'
    BY <2>1 DEF PilotInv, PhaseStands, TerminalOwn, InCampaign, Analysing, Over
  <2>4. TroubleStands'
    BY <1>1, <1>2, <2>1 DEF PilotInv, TroubleStands, Over, Fatal
  <2> QED BY <2>2, <2>3, <2>4 DEF PilotInv
<1>6. CASE trouble' = trouble \cup {"storage"} /\ phase \notin Over
            /\ (ExecutionFails \/ VerificationFails \/ CheckpointFails \/ AnalysisFails)
  BY <1>3, <1>6 DEF ExecutionFails, VerificationFails, CheckpointFails, AnalysisFails
<1> QED BY <1>4, <1>5, <1>6 DEF StorageFault, Over

(* Every step of the campaign keeps its invariant.                          *)
LEMMA PilotStep ==
  ASSUME PilotInv, [Next]_vars PROVE PilotInv'
<1>1. CASE Register \/ StartReplicate
  <2>1. /\ phase \in {"REGISTERING", "REPLICATE"} /\ phase \notin Over /\ UNCHANGED environment
        /\ phase \in InCampaign \ {"CHECKPOINTING"}
    BY <1>1 DEF Register, StartReplicate, Over, InCampaign, environment
  <2>2. /\ trouble' \subseteq Faulty /\ ("drift" \in trouble' => backend' = "drifted")
        /\ backend' = "frozen" /\ trouble' \cap Fatal \subseteq trouble
    BY <2>1 DEF environment, PilotInv, TroubleStands, Over
  <2>3. CASE ExecutionFails
    BY <2>1, <2>2, <2>3, FailureStep DEF ExecutionFails
  <2>4. CASE ~ExecutionFails
    <3>1. /\ phase' \in InCampaign \ {"CHECKPOINTING"}
          /\ UNCHANGED <<completed, checkpoints, analysis, terminal>>
      BY <1>1, <2>4 DEF Register, StartReplicate, InCampaign
    <3> QED BY <2>1, <2>2, <3>1, ReplicateStep
  <2> QED BY <2>3, <2>4
<1>2. CASE PublishTerminal \/ UNCHANGED vars
  <2>1. /\ UNCHANGED <<completed, checkpoints, analysis, terminal, backend, trouble>>
        /\ phase' = phase \/ (phase = "CLOSING" /\ phase' = "DONE")
    BY <1>2 DEF PublishTerminal, vars, environment
  <2>2. CheckpointsStand(completed, checkpoints)' /\ AnalysisStands(completed, analysis)'
    BY <2>1 DEF CheckpointsStand, AnalysisStands, PilotInv
  <2>3. PhaseStands' /\ TerminalOwn' /\ TroubleStands'
    BY <2>1 DEF PilotInv, PhaseStands, TerminalOwn, TroubleStands, InCampaign, Analysing, Over
  <2> QED BY <2>2, <2>3 DEF PilotInv
<1> QED BY <1>1, <1>2, CallStep, RunStep, VerifiedStep, AnalysisStep, FaultStep DEF Next

(* Whatever answered, drifted or failed to be written, a terminal is what an *)
(* offline reader recomputes from the replicates it names, and complete only *)
(* over a campaign that nothing but an overrun or its own publication        *)
(* troubled; a proposal that parsed behind a diagnosis that did not is such  *)
(* trouble (bfcl_v4_public_campaign_executor.py).                            *)
THEOREM TerminalsAreExact == Spec => []TerminalIsExact
<1>1. Init => PilotInv
  BY EmptySeq DEF Init, PilotInv, CheckpointsStand, AnalysisStands, PhaseStands, TerminalOwn,
     TroubleStands, NoAnalysis, InCampaign
<1>2. PilotInv /\ [Next]_vars => PilotInv'
  BY PilotStep
<1>3. PilotInv => TerminalIsExact
  <2> SUFFICES ASSUME PilotInv, terminal # None PROVE TerminalIsExact
    BY DEF TerminalIsExact
  <2>1. /\ terminal.completed = completed /\ terminal.checkpoints = checkpoints
        /\ terminal.analysis = analysis
    BY DEF PilotInv, TerminalOwn
  <2>2. CampaignVerifies(terminal)
    <3>1. \A k \in DOMAIN checkpoints :
            /\ checkpoints[k].completed = SubSeq(completed, 1, k)
            /\ checkpoints[k].previous = IF k = 1 THEN None ELSE checkpoints[k - 1]
      <4>1. \A k \in DOMAIN checkpoints :
              checkpoints[k] = [completed |-> SubSeq(completed, 1, k),
                                previous |-> IF k = 1 THEN None ELSE checkpoints[k - 1]]
        BY DEF PilotInv, CheckpointsStand
      <4> QED BY <4>1
    <3> QED BY <2>1, <3>1 DEF CampaignVerifies, PilotInv, AnalysisStands
  <2>3. terminal.status = "COMPLETE" => trouble \subseteq {"overrun", "terminal"}
    BY DEF PilotInv, TroubleStands, Faulty, Fatal
  <2> QED BY <2>2, <2>3 DEF TerminalIsExact
<1> QED BY <1>1, <1>2, <1>3, PTL DEF Spec
=============================================================================
