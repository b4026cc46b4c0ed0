------------------------------- MODULE StudyProofs -------------------------------
(***************************************************************************)
(* Theorems about studies and the scheduled batches they are judged by.    *)
(*                                                                         *)
(* For every plan, every set of runs that move at any time, and any number *)
(* of controllers opened on any prefix of the journal: a sealed            *)
(* authorization stands for one intact run of every cell, and a call that  *)
(* began over a moved run never emits one.  For any schedules, budgets and *)
(* interference by other holders of the ledgers: trusted usage is exact, a *)
(* closed GATE study stands for the calls of every condition and seed and  *)
(* is accepted only behind a sealed study, and mechanism evidence over     *)
(* three ledgers is one picture.                                           *)
(***************************************************************************)
EXTENDS BaselineGate, HarnessFaultMechanism, FiniteSetTheorems, SequenceTheorems, TLAPS

PlainKinds == {"FROZEN", "COLLECTION_STARTED", "BARRIER_CLOSED", "SEALED_AUTHORIZED", "INVALIDATED"}
EarlyKinds == {"FROZEN", "COLLECTION_STARTED", "RUN_REGISTERED"}
IsRegistration(i) == journal[i].kind = "RUN_REGISTERED"

\* Stages of a run are left for good: a closed run is not opened again, and
\* its champions stay.
HasClosed(r) == run[r] # OpenRun
Intact(r) == SearchClosed(r) /\ ExperimentSelected(r)

\* A closed run has selected a champion.
RunsKnown == \A r \in Runs : HasClosed(r) => run[r].followed \in Champions

\* What a registered closure binds: one closed run of a cell, its champion.
Sound(closure) ==
  /\ closure.search = closure.loop /\ closure.experiment = closure.loop
  /\ KeyOf[closure.loop] \in Keys
  /\ HasClosed(closure.loop)
  /\ closure.champion = run[closure.loop].leader

SoundBindings == \A closure \in Bound : Sound(closure)

\* No cell is registered twice.
OncePerKey ==
  \A i, j \in DOMAIN journal :
    IsRegistration(i) /\ IsRegistration(j)
      /\ KeyOf[journal[i].closure.loop] = KeyOf[journal[j].closure.loop] => i = j

\* Nothing is registered behind the barrier, which has every cell before it;
\* so it is in every prefix that a later controller may be opened on.
BarrierStands ==
  /\ \A i, j \in DOMAIN journal :
       i < j /\ journal[j].kind \in EarlyKinds => journal[i].kind \in EarlyKinds
  /\ \A i \in DOMAIN journal :
       journal[i].kind \in {"BARRIER_CLOSED", "SEALED_AUTHORIZED"} =>
         \A k \in Keys : \E j \in DOMAIN journal :
           j < i /\ IsRegistration(j) /\ KeyOf[journal[j].closure.loop] = k

\* An authorization ends the journal, and one controller registered its runs.
AuthorizationStands ==
  \A i \in DOMAIN journal :
    journal[i].kind = "SEALED_AUTHORIZED" =>
      /\ i = Len(journal)
      /\ \A one, other \in Bound : one.opening = other.opening

\* What a call in progress has established.
CallStands ==
  /\ \A closure \in LiveObjects : closure.opening = opening
  /\ call.kind = "NONE" => call = NoCall
  /\ call.kind = "REGISTER" =>
       /\ State = "COLLECTING"
       /\ call.closure \in Closures /\ Sound(call.closure)
       /\ call.closure.opening = opening
       /\ KeyOf[call.closure.loop] \in MissingKeys
  /\ call.kind = "AUTHORIZE" =>
       /\ State = "BARRIER_CLOSED"
       /\ \A closure \in call.checked :
            closure.opening = opening /\ closure.loop \notin call.moved
       /\ \A closure \in Bound : closure.loop \in call.moved => ~Intact(closure.loop)

JournalInv == SoundBindings /\ OncePerKey /\ BarrierStands /\ AuthorizationStands
IInv == TypeOK /\ JournalInv /\ CallStands /\ RunsKnown

-----------------------------------------------------------------------------
(* The journal and what its replay finds                                   *)

BoundOf(s) == {s[i].closure : i \in {j \in DOMAIN s : s[j].kind = "RUN_REGISTERED"}}

(* The bindings of a journal are the closures of its registrations.         *)
LEMMA BoundIs == Bound = BoundOf(journal)
BY DEF Bound, BoundOf, ToSet

(* The same in the next state.                                             *)
LEMMA BoundIsNext == Bound' = BoundOf(journal')
BY DEF Bound, BoundOf, ToSet

(* Every event has one of six kinds.                                       *)
LEMMA EventTyped ==
  ASSUME NEW event \in Events
  PROVE  /\ event.kind \in PlainKinds \cup {"RUN_REGISTERED"}
         /\ event.kind = "RUN_REGISTERED" => event.closure \in Closures
BY DEF Events, Plain, Registered, PlainKinds

(* The state is that of the last event.                                    *)
LEMMA StateIs ==
  ASSUME journal \in Seq(Events)
  PROVE  /\ State = "NONE" <=> Len(journal) = 0
         /\ Len(journal) \in Nat
         /\ DOMAIN journal = 1 .. Len(journal)
         /\ \A i \in 1 .. Len(journal) : journal[i] \in Events
         /\ Len(journal) > 0 => State = StateAfter[journal[Len(journal)].kind]
<1>1. Len(journal) \in Nat /\ DOMAIN journal = 1 .. Len(journal)
      /\ \A i \in 1 .. Len(journal) : journal[i] \in Events
  OBVIOUS
<1>2. CASE Len(journal) = 0
  <2>1. journal = <<>>
    BY <1>2, EmptySeq
  <2> QED BY <1>1, <1>2, <2>1 DEF State
<1>3. CASE Len(journal) > 0
  <2>1. journal # <<>>
    BY <1>3, EmptySeq
  <2>2. State = StateAfter[journal[Len(journal)].kind]
    BY <2>1 DEF State, Last
  <2>3. journal[Len(journal)].kind \in PlainKinds \cup {"RUN_REGISTERED"}
    BY <1>1, <1>3, EventTyped
  <2>4. State # "NONE"
    BY <2>2, <2>3 DEF StateAfter, PlainKinds
  <2> QED BY <1>1, <1>3, <2>2, <2>4
<1> QED BY <1>1, <1>2, <1>3

(* An event that is appended is the last one, and binds its closure only.   *)
LEMMA AppendIs ==
  ASSUME journal \in Seq(Events), NEW event \in Events, AppendEvent(event)
  PROVE  /\ journal' \in Seq(Events)
         /\ Len(journal') = Len(journal) + 1 /\ DOMAIN journal' = 1 .. Len(journal) + 1
         /\ \A i \in 1 .. Len(journal) : journal'[i] = journal[i]
         /\ journal'[Len(journal) + 1] = event
         /\ State' = StateAfter[event.kind]
         /\ event.kind = "RUN_REGISTERED" => Bound' = Bound \cup {event.closure}
         /\ event.kind # "RUN_REGISTERED" => Bound' = Bound
<1>1. /\ Len(journal) \in Nat /\ DOMAIN journal = 1 .. Len(journal)
      /\ journal' = Append(journal, event)
  BY DEF AppendEvent
<1>2. /\ journal' \in Seq(Events)
      /\ Len(journal') = Len(journal) + 1 /\ DOMAIN journal' = 1 .. Len(journal) + 1
      /\ \A i \in 1 .. Len(journal) : journal'[i] = journal[i]
      /\ journal'[Len(journal) + 1] = event
  BY <1>1
<1>3. State' = StateAfter[event.kind]
  <2>1. journal' # <<>>
    BY <1>1, <1>2, EmptySeq
  <2> QED BY <1>2, <2>1 DEF State, Last
<1>4. BoundOf(journal') = BoundOf(journal)
        \cup (IF event.kind = "RUN_REGISTERED" THEN {event.closure} ELSE {})
  BY <1>1, <1>2 DEF BoundOf
<1> QED BY <1>2, <1>3, <1>4, BoundIs, BoundIsNext

(* A prefix keeps its events and binds no more.                            *)
LEMMA PrefixIs ==
  ASSUME journal \in Seq(Events), NEW n \in 0 .. Len(journal), journal' = SubSeq(journal, 1, n)
  PROVE  /\ journal' \in Seq(Events)
         /\ Len(journal') = n /\ DOMAIN journal' = 1 .. n
         /\ \A i \in 1 .. n : journal'[i] = journal[i]
         /\ Bound' \subseteq Bound
<1>1. /\ journal' \in Seq(Events) /\ Len(journal') = n /\ DOMAIN journal' = 1 .. n
      /\ \A i \in 1 .. n : journal'[i] = journal[i]
  <2>1. Len(journal) \in Nat /\ \A i \in 1 .. n : journal[i] \in Events
    OBVIOUS
  <2> QED BY <2>1, SubSeqProperties
<1>2. BoundOf(journal') \subseteq BoundOf(journal)
  BY <1>1 DEF BoundOf
<1> QED BY <1>1, <1>2, BoundIs, BoundIsNext

-----------------------------------------------------------------------------
(* The runs                                                                *)

RunsMove == \E r \in Runs : CloseRun(r) \/ MoveRun(r)

(* A run that has closed keeps its champions, and once it has moved it does  *)
(* not come back, whoever holds its objects.                               *)
LEMMA RunsMoveOn ==
  ASSUME TypeOK, [RunsMove]_run
  PROVE  /\ run' \in [Runs -> RunStates]
         /\ \A r \in Runs : HasClosed(r) =>
              /\ HasClosed(r)' /\ run'[r].leader = run[r].leader
              /\ Intact(r)' => Intact(r)
<1>1. run \in [Runs -> RunStates]
  BY DEF TypeOK
<1>2. CASE UNCHANGED run
  BY <1>1, <1>2 DEF HasClosed, Intact, SearchClosed, ExperimentSelected
<1>3. ASSUME NEW r \in Runs, CloseRun(r)
      PROVE  /\ run' \in [Runs -> RunStates]
             /\ \A s \in Runs \ {r} : run'[s] = run[s]
             /\ ~HasClosed(r)
  BY <1>1, <1>3 DEF CloseRun, RunStates, HasClosed
<1>4. ASSUME NEW r \in Runs, MoveRun(r)
      PROVE  /\ run' \in [Runs -> RunStates]
             /\ \A s \in Runs \ {r} : run'[s] = run[s]
             /\ HasClosed(r)' /\ run'[r].leader = run[r].leader
             /\ Intact(r)' => Intact(r)
  <2>1. run[r] \in RunStates
    BY <1>1
  <2>2. CASE run[r].search = "CLOSED" /\ run' = [run EXCEPT ![r].search = "VOID"]
    <3>1. run'[r] = [run[r] EXCEPT !.search = "VOID"] /\ run'[r] \in RunStates
      BY <1>1, <2>1, <2>2 DEF RunStates
    <3>2. run'[r].search = "VOID" /\ run'[r].leader = run[r].leader
      BY <2>1, <3>1 DEF RunStates
    <3> QED BY <1>1, <2>2, <3>1, <3>2 DEF HasClosed, OpenRun, Intact, SearchClosed
  <2>3. CASE run[r].experiment = "SELECTED" /\ run' = [run EXCEPT ![r].experiment = "MOVED"]
    <3>1. run'[r] = [run[r] EXCEPT !.experiment = "MOVED"] /\ run'[r] \in RunStates
      BY <1>1, <2>1, <2>3 DEF RunStates
    <3>2. run'[r].experiment = "MOVED" /\ run'[r].leader = run[r].leader
      BY <2>1, <3>1 DEF RunStates
    <3> QED BY <1>1, <2>3, <3>1, <3>2 DEF HasClosed, OpenRun, Intact, ExperimentSelected
  <2> QED BY <1>4, <2>2, <2>3 DEF MoveRun
<1>5. ASSUME NEW r \in Runs, CloseRun(r) \/ MoveRun(r)
      PROVE  /\ run' \in [Runs -> RunStates]
             /\ \A s \in Runs : HasClosed(s) =>
                  /\ HasClosed(s)' /\ run'[s].leader = run[s].leader
                  /\ Intact(s)' => Intact(s)
  BY <1>3, <1>4, <1>5 DEF HasClosed, Intact, SearchClosed, ExperimentSelected
<1> QED BY <1>2, <1>5 DEF RunsMove

(* A run that closes selects a champion.                                   *)
LEMMA RunsStayKnown ==
  ASSUME TypeOK, RunsKnown, [RunsMove]_run PROVE RunsKnown'
<1>1. run \in [Runs -> RunStates]
  BY DEF TypeOK
<1>2. CASE UNCHANGED run
  BY <1>2 DEF RunsKnown, HasClosed
<1>3. ASSUME NEW r \in Runs, CloseRun(r) PROVE RunsKnown'
  BY <1>1, <1>3 DEF CloseRun, RunStates, HasClosed, RunsKnown
<1>4. ASSUME NEW r \in Runs, MoveRun(r) PROVE RunsKnown'
  <2>1. /\ \A s \in Runs \ {r} : run'[s] = run[s]
        /\ run'[r].followed = run[r].followed /\ HasClosed(r)
    BY <1>1, <1>4 DEF MoveRun, RunStates, HasClosed, OpenRun
  <2> QED BY <2>1 DEF RunsKnown, HasClosed
<1> QED BY <1>2, <1>3, <1>4 DEF RunsMove

(* Only the runs' own steps move them.                                     *)
LEMMA RunsOnlyMove ==
  ASSUME [Next]_vars PROVE [RunsMove]_run
<1>1. CASE \E r \in Runs : CloseRun(r) \/ MoveRun(r)
  BY <1>1 DEF RunsMove
<1>2. CASE \/ Freeze \/ StartCollection \/ RegisterRun \/ CloseSelectionBarrier
           \/ BeginAuthorization \/ AuthorizeSealed \/ CallRaises \/ Invalidate \/ Reopen
           \/ UNCHANGED vars
  BY <1>2 DEF Quiet, vars, Freeze, StartCollection, RegisterRun, CloseSelectionBarrier,
       BeginAuthorization, AuthorizeSealed, CallRaises, Invalidate, Reopen
<1>3. CASE \/ \E search, experiment, loop \in Runs : VerifyRun(search, experiment, loop)
           \/ \E k \in Keys : ReverifyRun(k)
  BY <1>3 DEF Quiet, VerifyRun, ReverifyRun
<1> QED BY <1>1, <1>2, <1>3 DEF Next

(* So what is bound stays sound.                                           *)
LEMMA SoundStays ==
  ASSUME TypeOK, [RunsMove]_run, NEW closure \in Closures, Sound(closure)
  PROVE  Sound(closure)'
BY RunsMoveOn DEF Sound, Closures

(* Closures that are bound or live are closures.                           *)
LEMMA BoundTyped ==
  ASSUME TypeOK PROVE Bound \subseteq Closures /\ LiveObjects \subseteq Bound
<1>1. \A i \in DOMAIN journal : journal[i] \in Events
  BY StateIs DEF TypeOK
<1> QED BY <1>1, BoundIs, EventTyped DEF BoundOf, TypeOK

(* Closures that pass the checks on the live objects bind one intact run.   *)
LEMMA VerifiedIsSound ==
  ASSUME TypeOK, NEW search \in Runs, NEW experiment \in Runs, NEW loop \in Runs,
         Verified(search, experiment, loop), KeyOf[search] \in Keys
  PROVE  /\ search = loop /\ experiment = loop /\ HasClosed(loop) /\ Intact(loop)
         /\ run[loop].followed = run[loop].leader
BY DEF Verified, IssuedOver, HasClosed, OpenRun, Intact, SearchClosed

(* The cells that are bound.                                               *)
LEMMA BoundKeysAre ==
  ASSUME TypeOK, SoundBindings
  PROVE  /\ BoundKeys = {KeyOf[closure.loop] : closure \in Bound}
         /\ BoundKeys \subseteq Keys
         /\ \A k \in BoundKeys : \E j \in DOMAIN journal :
              IsRegistration(j) /\ KeyOf[journal[j].closure.loop] = k
<1>1. BoundKeys = {KeyOf[closure.loop] : closure \in Bound}
  BY DEF BoundKeys, SoundBindings, Sound
<1> QED BY <1>1, BoundIs DEF BoundOf, IsRegistration, SoundBindings, Sound

-----------------------------------------------------------------------------
(* The journal                                                             *)

USE DEF Quiet, Idle

(* What the last event says of those before it.                            *)
LEMMA LastIs ==
  ASSUME TypeOK, JournalInv
  PROVE  /\ State \in {"FROZEN", "COLLECTING"} =>
              \A i \in DOMAIN journal : journal[i].kind \in EarlyKinds
         /\ State = "BARRIER_CLOSED" => BoundKeys = Keys
         /\ State # "SEALED_AUTHORIZED" =>
              \A i \in DOMAIN journal : journal[i].kind # "SEALED_AUTHORIZED"
<1> DEFINE n == Len(journal)
<1>1. /\ n \in Nat /\ DOMAIN journal = 1 .. n /\ \A i \in 1 .. n : journal[i] \in Events
      /\ State = "NONE" <=> n = 0
      /\ n > 0 => State = StateAfter[journal[n].kind]
  BY StateIs DEF TypeOK
<1>2. n > 0 => journal[n].kind \in PlainKinds \cup {"RUN_REGISTERED"}
  BY <1>1, EventTyped
<1>3. /\ State \in {"FROZEN", "COLLECTING"} => journal[n].kind \in EarlyKinds /\ n > 0
      /\ State = "BARRIER_CLOSED" => journal[n].kind = "BARRIER_CLOSED" /\ n > 0
      /\ n > 0 /\ journal[n].kind = "SEALED_AUTHORIZED" => State = "SEALED_AUTHORIZED"
  BY <1>1, <1>2 DEF StateAfter, PlainKinds, EarlyKinds
<1> HIDE DEF n
<1>4. State \in {"FROZEN", "COLLECTING"} => \A i \in DOMAIN journal : journal[i].kind \in EarlyKinds
  BY <1>1, <1>3 DEF JournalInv, BarrierStands
<1>5. State = "BARRIER_CLOSED" => BoundKeys = Keys
  <2>1. SUFFICES ASSUME State = "BARRIER_CLOSED", NEW k \in Keys PROVE k \in BoundKeys
    BY BoundKeysAre DEF JournalInv
  <2>2. PICK j \in DOMAIN journal : IsRegistration(j) /\ KeyOf[journal[j].closure.loop] = k
    BY <1>1, <1>3, <2>1 DEF JournalInv, BarrierStands
  <2>3. journal[j].closure \in Bound
    BY <2>2, BoundIs DEF BoundOf, IsRegistration
  <2> QED BY <2>2, <2>3, BoundKeysAre DEF JournalInv
<1>6. State # "SEALED_AUTHORIZED" =>
        \A i \in DOMAIN journal : journal[i].kind # "SEALED_AUTHORIZED"
  BY <1>1, <1>3 DEF JournalInv, AuthorizationStands, n
<1> QED BY <1>4, <1>5, <1>6

(* Appending an event that binds nothing.                                  *)
LEMMA PlainStep ==
  ASSUME TypeOK, JournalInv, NEW kind \in PlainKinds, AppendEvent(Plain(kind)), UNCHANGED run,
         State # "SEALED_AUTHORIZED",
         kind \in EarlyKinds => State \in {"NONE", "FROZEN", "COLLECTING"},
         kind \in {"BARRIER_CLOSED", "SEALED_AUTHORIZED"} => BoundKeys = Keys,
         kind = "SEALED_AUTHORIZED" => \A one, other \in Bound : one.opening = other.opening
  PROVE  JournalInv'
<1> DEFINE n == Len(journal)
<1>1. Plain(kind) \in Events /\ Plain(kind).kind = kind /\ kind # "RUN_REGISTERED"
  BY DEF Events, Plain, PlainKinds
<1>2. /\ journal' \in Seq(Events) /\ Len(journal') = n + 1 /\ DOMAIN journal' = 1 .. n + 1
      /\ \A i \in 1 .. n : journal'[i] = journal[i]
      /\ journal'[n + 1] = Plain(kind)
      /\ Bound' = Bound
  BY <1>1, AppendIs DEF TypeOK
<1>3. n \in Nat /\ DOMAIN journal = 1 .. n /\ (State = "NONE" <=> n = 0)
  BY StateIs DEF TypeOK
<1> HIDE DEF n
<1>4. SoundBindings'
  BY <1>2 DEF JournalInv, SoundBindings, Sound, HasClosed
<1>5. OncePerKey'
  BY <1>1, <1>2, <1>3 DEF JournalInv, OncePerKey, IsRegistration
<1>6. BarrierStands'
  <2>1. ASSUME NEW i \in DOMAIN journal', NEW j \in DOMAIN journal', i < j,
               journal'[j].kind \in EarlyKinds
        PROVE  journal'[i].kind \in EarlyKinds
    <3>1. CASE j = n + 1
      BY <1>1, <1>2, <1>3, <2>1, <3>1, LastIs
    <3>2. CASE j # n + 1
      BY <1>2, <1>3, <2>1, <3>2 DEF JournalInv, BarrierStands
    <3> QED BY <3>1, <3>2
  <2>2. ASSUME NEW i \in DOMAIN journal', NEW k \in Keys,
               journal'[i].kind \in {"BARRIER_CLOSED", "SEALED_AUTHORIZED"}
        PROVE  \E j \in DOMAIN journal' :
                 j < i /\ IsRegistration(j)' /\ KeyOf[journal'[j].closure.loop] = k
    <3>1. \E j \in DOMAIN journal : j < i /\ IsRegistration(j) /\ KeyOf[journal[j].closure.loop] = k
      <4>1. CASE i = n + 1
        BY <1>1, <1>2, <1>3, <2>2, <4>1, BoundKeysAre DEF JournalInv
      <4>2. CASE i # n + 1
        BY <1>2, <1>3, <2>2, <4>2 DEF JournalInv, BarrierStands
      <4> QED BY <4>1, <4>2
    <3> QED BY <1>2, <1>3, <3>1 DEF IsRegistration
  <2> QED BY <2>1, <2>2 DEF BarrierStands
<1>7. AuthorizationStands'
  BY <1>1, <1>2, <1>3, LastIs DEF AuthorizationStands
<1> QED BY <1>4, <1>5, <1>6, <1>7 DEF JournalInv

(* Registering a verified closure of a cell that was missing.               *)
LEMMA RegisterStep ==
  ASSUME TypeOK, JournalInv, NEW closure \in Closures, AppendEvent(Registered(closure)),
         UNCHANGED run, Sound(closure), KeyOf[closure.loop] \in MissingKeys,
         State = "COLLECTING"
  PROVE  JournalInv'
<1> DEFINE n == Len(journal)
<1>1. /\ Registered(closure) \in Events /\ Registered(closure).kind = "RUN_REGISTERED"
      /\ Registered(closure).closure = closure
  BY DEF Events, Registered
<1>2. /\ journal' \in Seq(Events) /\ Len(journal') = n + 1 /\ DOMAIN journal' = 1 .. n + 1
      /\ \A i \in 1 .. n : journal'[i] = journal[i]
      /\ journal'[n + 1] = Registered(closure)
      /\ Bound' = Bound \cup {closure}
  BY <1>1, AppendIs DEF TypeOK
<1>3. n \in Nat /\ DOMAIN journal = 1 .. n
  BY StateIs DEF TypeOK
<1> HIDE DEF n
<1>4. SoundBindings'
  BY <1>2 DEF JournalInv, SoundBindings, Sound, HasClosed
<1>5. OncePerKey'
  <2>1. \A i \in 1 .. n : IsRegistration(i) =>
          KeyOf[journal[i].closure.loop] # KeyOf[closure.loop]
    BY <1>3, BoundIs, BoundKeysAre DEF BoundOf, IsRegistration, MissingKeys, JournalInv
  <2> QED BY <1>1, <1>2, <1>3, <2>1 DEF JournalInv, OncePerKey, IsRegistration
<1>6. \A i \in 1 .. n : journal[i].kind \in EarlyKinds
  BY <1>3, LastIs
<1>7. BarrierStands'
  BY <1>1, <1>2, <1>3, <1>6 DEF BarrierStands, EarlyKinds
<1>8. AuthorizationStands'
  BY <1>1, <1>2, <1>3, <1>6 DEF AuthorizationStands, EarlyKinds
<1> QED BY <1>4, <1>5, <1>7, <1>8 DEF JournalInv

(* Opening another controller on a prefix.                                 *)
LEMMA ReopenStep ==
  ASSUME TypeOK, JournalInv, Reopen PROVE JournalInv'
<1>1. PICK n \in 0 .. Len(journal) : journal' = SubSeq(journal, 1, n)
  BY DEF Reopen
<1>2. /\ Len(journal') = n /\ DOMAIN journal' = 1 .. n
      /\ \A i \in 1 .. n : journal'[i] = journal[i]
      /\ Bound' \subseteq Bound
  BY <1>1, PrefixIs DEF TypeOK
<1>3. Len(journal) \in Nat /\ DOMAIN journal = 1 .. Len(journal) /\ UNCHANGED run
  BY StateIs DEF TypeOK, Reopen
<1>4. SoundBindings'
  BY <1>2, <1>3 DEF JournalInv, SoundBindings, Sound, HasClosed
<1>5. OncePerKey'
  BY <1>2, <1>3 DEF JournalInv, OncePerKey, IsRegistration
<1>6. BarrierStands'
  <2>1. ASSUME NEW i \in DOMAIN journal', NEW k \in Keys,
               journal'[i].kind \in {"BARRIER_CLOSED", "SEALED_AUTHORIZED"}
        PROVE  \E j \in DOMAIN journal' :
                 j < i /\ IsRegistration(j)' /\ KeyOf[journal'[j].closure.loop] = k
    <3>1. PICK j \in DOMAIN journal :
            j < i /\ IsRegistration(j) /\ KeyOf[journal[j].closure.loop] = k
      BY <1>2, <1>3, <2>1 DEF JournalInv, BarrierStands
    <3> QED BY <1>2, <1>3, <3>1 DEF IsRegistration
  <2> QED BY <1>2, <1>3, <2>1 DEF JournalInv, BarrierStands
<1>7. AuthorizationStands'
  BY <1>2, <1>3 DEF JournalInv, AuthorizationStands
<1> QED BY <1>4, <1>5, <1>6, <1>7 DEF JournalInv

(* The journal keeps its shape in every step.                              *)
LEMMA JournalStep ==
  ASSUME IInv, [Next]_vars PROVE JournalInv'
<1> USE DEF IInv
<1>1. ASSUME UNCHANGED journal, [RunsMove]_run PROVE JournalInv'
  <2>1. Bound' = Bound
    BY <1>1, BoundIs, BoundIsNext
  <2>2. SoundBindings'
    BY <1>1, <2>1, SoundStays, BoundTyped DEF JournalInv, SoundBindings
  <2> QED BY <1>1, <2>1, <2>2
          DEF JournalInv, OncePerKey, BarrierStands, AuthorizationStands, IsRegistration
<1>2. CASE Freeze \/ StartCollection \/ Invalidate
  BY <1>2, PlainStep DEF Freeze, StartCollection, Invalidate, PlainKinds, EarlyKinds
<1>3. CASE CloseSelectionBarrier
  <2>1. BoundKeys = Keys
    BY <1>3, BoundKeysAre DEF CloseSelectionBarrier, MissingKeys, JournalInv
  <2> QED BY <1>3, <2>1, PlainStep DEF CloseSelectionBarrier, PlainKinds, EarlyKinds
<1>4. CASE AuthorizeSealed
  <2>1. State = "BARRIER_CLOSED" /\ BoundKeys = Keys
    BY <1>4, LastIs DEF AuthorizeSealed, CallStands
  <2>2. \A one, other \in Bound : one.opening = other.opening
    BY <1>4 DEF AuthorizeSealed, CallStands
  <2> QED BY <1>4, <2>1, <2>2, PlainStep DEF AuthorizeSealed, PlainKinds, EarlyKinds
<1>5. CASE RegisterRun
  BY <1>5, RegisterStep DEF RegisterRun, CallStands
<1>6. CASE Reopen
  BY <1>6, ReopenStep
<1>7. CASE \E r \in Runs : CloseRun(r) \/ MoveRun(r)
  BY <1>1, <1>7 DEF RunsMove, CloseRun, MoveRun
<1>8. CASE \/ \E search, experiment, loop \in Runs : VerifyRun(search, experiment, loop)
           \/ BeginAuthorization \/ (\E k \in Keys : ReverifyRun(k)) \/ CallRaises
           \/ UNCHANGED vars
  BY <1>1, <1>8 DEF VerifyRun, BeginAuthorization, ReverifyRun, CallRaises, vars
<1> QED BY <1>2, <1>3, <1>4, <1>5, <1>6, <1>7, <1>8 DEF Next

-----------------------------------------------------------------------------
(* Calls                                                                   *)

(* What a call has established stands while it lasts, although the runs     *)
(* move on between its steps.                                              *)
LEMMA CallStep ==
  ASSUME IInv, [Next]_vars PROVE CallStands'
<1> USE DEF IInv
<1>0. /\ live \in [Keys -> Closures \cup {Absent}]
      /\ call.kind \in {"NONE", "REGISTER", "AUTHORIZE"}
      /\ Absent \notin Closures
  BY AbsentAssumption DEF TypeOK, AbsentAssumption
<1>1. CASE \/ Freeze \/ StartCollection \/ CloseSelectionBarrier \/ AuthorizeSealed
           \/ Invalidate
  <2>1. call' = NoCall /\ UNCHANGED <<live, opening>>
    BY <1>1 DEF Freeze, StartCollection, CloseSelectionBarrier, AuthorizeSealed, Invalidate
  <2> QED BY <2>1 DEF CallStands, NoCall, LiveObjects
<1>2. ASSUME NEW search \in Runs, NEW experiment \in Runs, NEW loop \in Runs,
             VerifyRun(search, experiment, loop)
      PROVE  CallStands'
  <2> DEFINE c == [search |-> search, experiment |-> experiment, loop |-> loop,
                   champion |-> run[search].followed, opening |-> opening]
  <2>1. /\ call' = [kind |-> "REGISTER", checked |-> {}, moved |-> {}, closure |-> c]
        /\ UNCHANGED <<journal, live, run, opening>>
        /\ State = "COLLECTING" /\ KeyOf[search] \in MissingKeys
        /\ Verified(search, experiment, loop)
    BY <1>2 DEF VerifyRun
  <2>2. State' = State /\ MissingKeys' = MissingKeys /\ LiveObjects' = LiveObjects
    BY <2>1 DEF State, MissingKeys, BoundKeys, Bound, LiveObjects
  <2>3. /\ search = loop /\ experiment = loop /\ HasClosed(loop)
        /\ run[loop].followed = run[loop].leader /\ KeyOf[loop] \in Keys
    BY <2>1, VerifiedIsSound DEF MissingKeys
  <2>4. run[loop].followed \in Champions
    BY <2>3 DEF RunsKnown
  <2>5. c \in Closures /\ Sound(c)'
    BY <2>1, <2>3, <2>4 DEF Closures, Sound, HasClosed, TypeOK
  <2> QED BY <2>1, <2>2, <2>3, <2>5 DEF CallStands
<1>3. CASE RegisterRun
  <2>1. /\ call' = NoCall /\ opening' = opening
        /\ live' = [live EXCEPT ![KeyOf[call.closure.search]] = call.closure]
        /\ call.closure.opening = opening
    BY <1>3 DEF RegisterRun, CallStands
  <2> QED BY <1>0, <2>1 DEF CallStands, NoCall, LiveObjects
<1>4. CASE BeginAuthorization
  <2>1. /\ call' = [kind |-> "AUTHORIZE", closure |-> Absent, checked |-> {}, moved |-> MovedRuns]
        /\ UNCHANGED <<journal, live, run, opening>> /\ State = "BARRIER_CLOSED"
    BY <1>4 DEF BeginAuthorization
  <2>2. State' = State /\ Bound' = Bound /\ LiveObjects' = LiveObjects
    BY <2>1 DEF State, Bound, LiveObjects
  <2> QED BY <2>1, <2>2
          DEF CallStands, MovedRuns, Intact, SearchClosed, ExperimentSelected
<1>5. ASSUME NEW k \in Keys, ReverifyRun(k) PROVE CallStands'
  <2> DEFINE c == live[k]
  <2>1. /\ call.kind = "AUTHORIZE" /\ c \in Bound
        /\ Verified(c.search, c.experiment, c.loop)
        /\ call' = [call EXCEPT !.checked = @ \cup {c}]
        /\ UNCHANGED <<journal, live, run, opening>>
    BY <1>5 DEF ReverifyRun
  <2>2. State' = State /\ Bound' = Bound /\ LiveObjects' = LiveObjects
    BY <2>1 DEF State, Bound, LiveObjects
  <2>3. c \in Closures /\ c \in LiveObjects
    BY <1>0, <2>1, BoundTyped DEF LiveObjects
  <2>4. Intact(c.loop)
    <3>1. Sound(c)
      BY <2>1 DEF JournalInv, SoundBindings
    <3> QED BY <2>1, <3>1 DEF Sound, Verified, Intact
  <2>5. c.opening = opening /\ c.loop \notin call.moved
    BY <2>1, <2>3, <2>4 DEF CallStands
  <2>6. /\ call'.kind = call.kind /\ call'.moved = call.moved
        /\ call'.checked = call.checked \cup {c}
    BY <2>1 DEF TypeOK
  <2> HIDE DEF c
  <2> QED BY <2>1, <2>2, <2>5, <2>6
          DEF CallStands, Intact, SearchClosed, ExperimentSelected
<1>6. CASE CallRaises \/ UNCHANGED vars
  <2>1. UNCHANGED <<journal, live, run, opening>> /\ call' \in {call, NoCall}
    BY <1>6 DEF CallRaises, vars
  <2>2. State' = State /\ Bound' = Bound /\ LiveObjects' = LiveObjects
        /\ MissingKeys' = MissingKeys
    BY <2>1 DEF State, Bound, LiveObjects, MissingKeys, BoundKeys
  <2> QED BY <2>1, <2>2
          DEF CallStands, NoCall, Sound, HasClosed, Intact, SearchClosed, ExperimentSelected
<1>7. CASE Reopen
  BY <1>7 DEF Reopen, CallStands, NoCall, LiveObjects
<1>8. CASE \E r \in Runs : CloseRun(r) \/ MoveRun(r)
  <2>1. [RunsMove]_run /\ UNCHANGED <<journal, live, call, opening>>
    BY <1>8 DEF RunsMove, CloseRun, MoveRun
  <2>2. State' = State /\ Bound' = Bound /\ LiveObjects' = LiveObjects
        /\ MissingKeys' = MissingKeys
    BY <2>1 DEF State, Bound, LiveObjects, MissingKeys, BoundKeys
  <2>3. call.kind = "REGISTER" => Sound(call.closure)'
    BY <2>1, SoundStays DEF CallStands
  <2>4. \A closure \in Bound : Intact(closure.loop)' => Intact(closure.loop)
    <3>1. \A closure \in Bound : closure.loop \in Runs /\ HasClosed(closure.loop)
      BY BoundTyped DEF Closures, JournalInv, SoundBindings, Sound
    <3> QED BY <2>1, <3>1, RunsMoveOn
  <2> QED BY <2>1, <2>2, <2>3, <2>4 DEF CallStands
<1> QED BY <1>1, <1>2, <1>3, <1>4, <1>5, <1>6, <1>7, <1>8 DEF Next

-----------------------------------------------------------------------------
(* Types                                                                   *)

(* Every step keeps the types, and live objects are bound ones.             *)
LEMMA TypeStep ==
  ASSUME IInv, [Next]_vars PROVE TypeOK'
<1> USE DEF IInv
<1>0. /\ live \in [Keys -> Closures \cup {Absent}] /\ LiveObjects \subseteq Bound
      /\ Bound \subseteq Closures /\ journal \in Seq(Events)
      /\ call \in [kind : {"NONE", "REGISTER", "AUTHORIZE"}, closure : Closures \cup {Absent},
                   checked : SUBSET Closures, moved : SUBSET Runs]
      /\ opening \in 1 .. MaxOpenings
      /\ Absent \notin Closures
  BY BoundTyped, AbsentAssumption DEF TypeOK, AbsentAssumption
<1>1. run' \in [Runs -> RunStates]
  BY RunsOnlyMove, RunsMoveOn
<1>2. NoCall \in [kind : {"NONE", "REGISTER", "AUTHORIZE"}, closure : Closures \cup {Absent},
                  checked : SUBSET Closures, moved : SUBSET Runs]
  BY DEF NoCall
<1>3. \A kind \in PlainKinds : Plain(kind) \in Events /\ Plain(kind).kind # "RUN_REGISTERED"
  BY DEF Plain, Events, PlainKinds
<1>4. CASE \/ Freeze \/ StartCollection \/ CloseSelectionBarrier \/ AuthorizeSealed
           \/ Invalidate
  <2>1. call' = NoCall /\ UNCHANGED <<live, opening>>
    BY <1>4 DEF Freeze, StartCollection, CloseSelectionBarrier, AuthorizeSealed, Invalidate
  <2>2. PICK kind \in PlainKinds : AppendEvent(Plain(kind))
    BY <1>4 DEF Freeze, StartCollection, CloseSelectionBarrier, AuthorizeSealed, Invalidate,
         PlainKinds
  <2>3. journal' \in Seq(Events) /\ Bound' = Bound
    BY <1>0, <1>3, <2>2, AppendIs
  <2>4. LiveObjects' = LiveObjects
    BY <2>1 DEF LiveObjects
  <2> QED BY <1>0, <1>1, <1>2, <2>1, <2>3, <2>4 DEF TypeOK
<1>5. CASE RegisterRun
  <2> DEFINE c == call.closure
  <2>1. /\ AppendEvent(Registered(c)) /\ c \in Closures
        /\ live' = [live EXCEPT ![KeyOf[c.search]] = c] /\ call' = NoCall /\ opening' = opening
    BY <1>5 DEF RegisterRun, CallStands
  <2>2. Registered(c) \in Events /\ Registered(c).kind = "RUN_REGISTERED"
        /\ Registered(c).closure = c
    BY <2>1 DEF Registered, Events
  <2>3. journal' \in Seq(Events) /\ Bound' = Bound \cup {c}
    BY <1>0, <2>1, <2>2, AppendIs
  <2>4. live' \in [Keys -> Closures \cup {Absent}] /\ LiveObjects' \subseteq Bound'
    BY <1>0, <2>1, <2>3 DEF LiveObjects
  <2> QED BY <1>0, <1>1, <1>2, <2>1, <2>3, <2>4 DEF TypeOK
<1>6. CASE Reopen
  <2>1. PICK n \in 0 .. Len(journal) : journal' = SubSeq(journal, 1, n)
    BY <1>6 DEF Reopen
  <2>2. journal' \in Seq(Events)
    BY <1>0, <2>1, PrefixIs
  <2>3. live' = [k \in Keys |-> Absent] /\ LiveObjects' = {}
    BY <1>6 DEF Reopen, LiveObjects
  <2>4. opening' \in 1 .. MaxOpenings /\ call' = NoCall
    BY <1>0, <1>6, StudyAssumption DEF Reopen, StudyAssumption
  <2> QED BY <1>1, <1>2, <2>2, <2>3, <2>4 DEF TypeOK
<1>7. ASSUME UNCHANGED <<journal, live, opening>>,
             call' \in [kind : {"NONE", "REGISTER", "AUTHORIZE"}, closure : Closures \cup {Absent},
                        checked : SUBSET Closures, moved : SUBSET Runs]
      PROVE  TypeOK'
  <2>1. Bound' = Bound /\ LiveObjects' = LiveObjects
    BY <1>7 DEF Bound, LiveObjects
  <2> QED BY <1>0, <1>1, <1>7, <2>1 DEF TypeOK
<1>8. CASE \E search, experiment, loop \in Runs : VerifyRun(search, experiment, loop)
  <2>1. PICK search, experiment, loop \in Runs : VerifyRun(search, experiment, loop)
    BY <1>8
  <2>2. /\ call'.kind = "REGISTER"
        /\ call' = [kind |-> "REGISTER", checked |-> {}, moved |-> {},
                    closure |-> call'.closure]
        /\ UNCHANGED <<journal, live, opening>>
    BY <2>1 DEF VerifyRun
  <2>3. CallStands'
    BY CallStep
  <2>4. call'.closure \in Closures
    BY <2>2, <2>3 DEF CallStands
  <2> QED BY <1>7, <2>2, <2>4
<1>9. CASE BeginAuthorization
  <2>1. MovedRuns \subseteq Runs
    BY DEF MovedRuns
  <2> QED BY <1>7, <1>9, <2>1 DEF BeginAuthorization
<1>10. CASE \E k \in Keys : ReverifyRun(k)
  BY <1>0, <1>7, <1>10 DEF ReverifyRun
<1>11. CASE CallRaises \/ UNCHANGED vars \/ (\E r \in Runs : CloseRun(r) \/ MoveRun(r))
  BY <1>0, <1>2, <1>7, <1>11 DEF CallRaises, vars, CloseRun, MoveRun
<1> QED BY <1>4, <1>5, <1>6, <1>8, <1>9, <1>10, <1>11 DEF Next

-----------------------------------------------------------------------------
(* Theorems                                                                *)

(* A study starts with an empty journal.                                   *)
LEMMA InitHolds == Init => IInv
<1> SUFFICES ASSUME Init PROVE IInv
  OBVIOUS
<1> USE DEF Init
<1>1. /\ journal \in Seq(Events) /\ DOMAIN journal = {} /\ Bound = {} /\ LiveObjects = {}
  <2>1. DOMAIN journal = {}
    OBVIOUS
  <2> QED BY <2>1, BoundIs DEF BoundOf, LiveObjects
<1>2. TypeOK
  BY <1>1, StudyAssumption DEF TypeOK, RunStates, OpenRun, NoCall, StudyAssumption
<1>3. JournalInv
  BY <1>1 DEF JournalInv, SoundBindings, OncePerKey, BarrierStands, AuthorizationStands
<1>4. CallStands /\ RunsKnown
  BY <1>1 DEF CallStands, NoCall, RunsKnown, HasClosed
<1> QED BY <1>2, <1>3, <1>4 DEF IInv

(* The inductive invariant of journal, calls and runs.                      *)
LEMMA BarrierInvariant == Spec => []IInv
<1>1. IInv /\ [Next]_vars => IInv'
  BY TypeStep, JournalStep, CallStep, RunsOnlyMove, RunsStayKnown DEF IInv
<1> QED BY InitHolds, <1>1, PTL DEF Spec

(* One closure is bound for every cell, so there are as many.               *)
LEMMA OneForEach ==
  ASSUME TypeOK, JournalInv, BoundKeys = Keys
  PROVE  Cardinality(Bound) = Cardinality(Keys)
<1> DEFINE cell == [closure \in Bound |-> KeyOf[closure.loop]]
<1>1. cell \in [Bound -> Keys]
  BY DEF JournalInv, SoundBindings, Sound
<1>2. \A one, other \in Bound : cell[one] = cell[other] => one = other
  BY BoundIs DEF BoundOf, JournalInv, OncePerKey, IsRegistration
<1>3. \A k \in Keys : \E closure \in Bound : cell[closure] = k
  BY BoundKeysAre DEF JournalInv
<1> HIDE DEF cell
<1>4. cell \in Bijection(Bound, Keys)
  BY <1>1, <1>2, <1>3 DEF Bijection, Injection, Surjection, IsInjective
<1>5. ExistsBijection(Bound, Keys)
  BY <1>4 DEF ExistsBijection
<1>6. IsFiniteSet(Bound)
  <2>1. cell \in Injection(Bound, Keys)
    BY <1>4 DEF Bijection
  <2> QED BY <2>1, KeysAssumption, FS_Injection DEF KeysAssumption
<1> QED BY <1>5, <1>6, FS_Bijection

(* Every variable keeps its type, and live capabilities are of registered   *)
(* runs, in any study.                                                     *)
THEOREM StudyTypes == Spec => []TypeOK
<1>1. IInv => TypeOK
  BY DEF IInv
<1> QED BY BarrierInvariant, <1>1, PTL

(* A sealed authorization stands for one intact run of every cell of the    *)
(* plan, registered with one controller (study.py, authorize_sealed).       *)
THEOREM AuthorizationIsComplete == Spec => []AuthorizedIsComplete
<1>1. ASSUME IInv, State = "SEALED_AUTHORIZED"
      PROVE  /\ BoundKeys = Keys /\ Cardinality(Bound) = Cardinality(Keys)
             /\ \A closure \in Bound :
                  /\ {closure.search, closure.experiment, closure.loop} = {closure.loop}
                  /\ closure.champion = run[closure.loop].leader
             /\ \A one, other \in Bound : one.opening = other.opening
  <2> USE <1>1 DEF IInv
  <2>1. /\ Len(journal) \in Nat \ {0} /\ DOMAIN journal = 1 .. Len(journal)
        /\ journal[Len(journal)] \in Events
        /\ State = StateAfter[journal[Len(journal)].kind]
    BY StateIs DEF TypeOK
  <2>2. journal[Len(journal)].kind = "SEALED_AUTHORIZED"
    BY <2>1, EventTyped DEF StateAfter, PlainKinds
  <2>3. \A k \in Keys : \E j \in DOMAIN journal :
          IsRegistration(j) /\ KeyOf[journal[j].closure.loop] = k
    BY <2>1, <2>2 DEF JournalInv, BarrierStands
  <2>4. BoundKeys = Keys
    BY <2>3, BoundIs, BoundKeysAre DEF BoundOf, IsRegistration, JournalInv
  <2>5. \A one, other \in Bound : one.opening = other.opening
    BY <2>1, <2>2 DEF JournalInv, AuthorizationStands
  <2>6. \A closure \in Bound : Sound(closure)
    BY DEF JournalInv, SoundBindings
  <2> QED BY <2>4, <2>5, <2>6, OneForEach DEF Sound
<1>2. IInv => AuthorizedIsComplete
  BY <1>1 DEF AuthorizedIsComplete
<1> QED BY BarrierInvariant, <1>2, PTL

(* A call of authorize_sealed that began when a registered run had moved    *)
(* never emits an authorization, although the runs keep moving while it     *)
(* checks them one at a time.                                              *)
THEOREM MovedRunsBlock == Spec => MovedRunBlocks
<1>1. ASSUME IInv, [Next]_vars, State # "SEALED_AUTHORIZED", State' = "SEALED_AUTHORIZED"
      PROVE  \A closure \in Bound : closure.loop \notin call.moved
  <2> USE <1>1 DEF IInv
  <2>1. CASE AuthorizeSealed
    BY <2>1 DEF AuthorizeSealed, CallStands
  <2>2. CASE Freeze \/ StartCollection \/ CloseSelectionBarrier \/ Invalidate \/ RegisterRun
    <3>1. PICK event \in Events : AppendEvent(event) /\ event.kind # "SEALED_AUTHORIZED"
      BY <2>2 DEF Freeze, StartCollection, CloseSelectionBarrier, Invalidate, RegisterRun,
           CallStands, Events, Plain, Registered
    <3>2. State' = StateAfter[event.kind]
      BY <3>1, AppendIs DEF TypeOK
    <3> QED BY <3>1, <3>2, EventTyped DEF StateAfter, PlainKinds
  <2>3. CASE Reopen
    <3>1. PICK n \in 0 .. Len(journal) : journal' = SubSeq(journal, 1, n)
      BY <2>3 DEF Reopen
    <3>2. /\ journal' \in Seq(Events) /\ Len(journal') = n /\ DOMAIN journal' = 1 .. n
          /\ \A i \in 1 .. n : journal'[i] = journal[i]
      BY <3>1, PrefixIs DEF TypeOK
    <3>3. Len(journal) \in Nat /\ DOMAIN journal = 1 .. Len(journal)
      BY StateIs DEF TypeOK
    <3>4. n > 0 /\ State' = StateAfter[journal'[n].kind]
      BY <3>2, EmptySeq DEF State, Last
    <3>5. journal[n].kind # "SEALED_AUTHORIZED" /\ journal[n] \in Events
      BY <3>3, <3>4, LastIs DEF TypeOK
    <3> QED BY <3>2, <3>4, <3>5, EventTyped DEF StateAfter, PlainKinds
  <2>4. CASE UNCHANGED journal
    BY <2>4 DEF State
  <2> QED BY <2>1, <2>2, <2>3, <2>4
          DEF Next, vars, VerifyRun, BeginAuthorization, ReverifyRun, CallRaises, CloseRun, MoveRun
<1>2. IInv /\ [Next]_vars =>
        [State # "SEALED_AUTHORIZED" /\ State' = "SEALED_AUTHORIZED" =>
           \A closure \in Bound : closure.loop \notin call.moved]_vars
  BY <1>1
<1> QED BY BarrierInvariant, <1>2, PTL DEF Spec, MovedRunBlocks

-----------------------------------------------------------------------------
(* Scheduled batches                                                       *)

OutcomeRecord == [owner : Schedules \cup {Other}, cell : Nat,
                  seed : (Schedules \X Nat) \cup {Nobody},
                  disposition : {"SETTLED", "BURNED", "POISONED"}, charged : Nat]
Ledger == [budget : Budgets, pending : Schedules \cup {Nobody, Other},
           outcomes : Seq(OutcomeRecord)]

Open == {"CERTIFIED", "READY", "AUTHORIZED", "CALLING", "ACCOUNTED"}
Complete == {"REPLAYING", "TRUSTED", "PARENT_SIGNED"}
BatchSteps == {"NONE", "HANDED", "FRESH", "FAILED"} \cup Open \cup Complete

BatchTypes ==
  /\ ledgers \in Seq(Ledger) /\ foreign \in 0 .. MaxForeign
  /\ batch \in [step : BatchSteps, schedule : Schedules \cup {Nobody}, ledger : Nat,
                boundary : Nat, expected : Nat, receipts : Seq(Nat), final : Nat]
  /\ IF At("NONE") THEN batch = NoBatch
     ELSE batch.ledger \in DOMAIN ledgers /\ batch.schedule \in Schedules

\* A ledger never holds more attempts than its budget.
WithinBudget ==
  \A l \in DOMAIN ledgers :
    /\ LedgerTail(l) <= ledgers[l].budget
    /\ ledgers[l].pending # Nobody => LedgerTail(l) < ledgers[l].budget

\* The first n attempts behind the boundary are the cells of the schedule.
Accounted(l, schedule, boundary, n) ==
  /\ boundary + n <= LedgerTail(l)
  /\ \A i \in 1 .. n : LET outcome == ledgers[l].outcomes[boundary + i]
                       IN  /\ outcome.owner = schedule /\ outcome.cell = i
                           /\ outcome.seed = SeedFor(schedule, i)

Received == Len(batch.receipts)

\* Receipts are the attempts behind the boundary, one for each cell, and the
\* attempt in progress is the next.
ReceiptsInv ==
  batch.step \in Open \cup Complete =>
    /\ Received <= RequiredAttempts
    /\ \A i \in 1 .. Received : batch.receipts[i] = batch.boundary + i
    /\ Accounted(batch.ledger, batch.schedule, batch.boundary, Received)

ProgressInv ==
  /\ batch.step \in {"HANDED", "FRESH", "CERTIFIED"} => batch.receipts = <<>>
  /\ At("READY") /\ Received > 0 => batch.expected = batch.boundary + Received
  /\ batch.step \in {"AUTHORIZED", "CALLING"} =>
       Received < RequiredAttempts /\ batch.expected = batch.boundary + Received
  /\ At("CALLING") =>
       /\ ledgers[batch.ledger].pending = batch.schedule
       /\ LedgerTail(batch.ledger) = batch.expected
  /\ At("ACCOUNTED") =>
       /\ Received < RequiredAttempts /\ batch.expected = batch.boundary + Received + 1
       /\ Accounted(batch.ledger, batch.schedule, batch.boundary, Received + 1)
  /\ batch.step \in Complete =>
       Received = RequiredAttempts /\ batch.final <= LedgerTail(batch.ledger)
  /\ batch.step \in {"TRUSTED", "PARENT_SIGNED"} =>
       batch.final = batch.boundary + RequiredAttempts

BatchInv == BatchTypes /\ WithinBudget /\ ReceiptsInv /\ ProgressInv

-----------------------------------------------------------------------------
(* The ledgers                                                             *)

\* Ledgers are opened and written to, and nothing on them is taken back.
LedgersGrow ==
  /\ ledgers' \in Seq(Ledger) /\ Len(ledgers) <= Len(ledgers')
  /\ \A l \in DOMAIN ledgers :
       /\ l \in DOMAIN ledgers' /\ ledgers'[l].budget = ledgers[l].budget
       /\ LedgerTail(l) <= LedgerTail(l)'
       /\ \A i \in 1 .. LedgerTail(l) : ledgers'[l].outcomes[i] = ledgers[l].outcomes[i]
       /\ ledgers[l].pending # Nobody =>
            \/ ledgers'[l] = ledgers[l]
            \/ LedgerTail(l)' > LedgerTail(l)

(* What the constants are.                                                 *)
LEMMA Constants ==
  /\ RequiredAttempts \in Nat \ {0} /\ Budgets \subseteq Nat \ {0} /\ Usages \subseteq Nat
  /\ Ceiling \in Nat /\ Nobody \notin Schedules /\ Other \notin Schedules /\ Nobody # Other
  /\ MaxForeign \in Nat
BY BatchAssumption DEF BatchAssumption, RequiredAttempts

(* The fields of a ledger.                                                 *)
LEMMA LedgerTyped ==
  ASSUME BatchTypes, NEW l \in DOMAIN ledgers
  PROVE  /\ ledgers[l] \in Ledger /\ LedgerTail(l) \in Nat /\ ledgers[l].budget \in Nat
         /\ DOMAIN ledgers = 1 .. Len(ledgers) /\ Len(ledgers) \in Nat
         /\ \A i \in 1 .. LedgerTail(l) : ledgers[l].outcomes[i] \in OutcomeRecord
<1>1. /\ ledgers[l] \in Ledger /\ DOMAIN ledgers = 1 .. Len(ledgers) /\ Len(ledgers) \in Nat
  <2> HIDE DEF Ledger
  <2> QED BY DEF BatchTypes
<1>2. ledgers[l].outcomes \in Seq(OutcomeRecord) /\ ledgers[l].budget \in Budgets
  <2> HIDE DEF OutcomeRecord
  <2> QED BY <1>1 DEF Ledger
<1>3. LedgerTail(l) \in Nat /\ \A i \in 1 .. LedgerTail(l) : ledgers[l].outcomes[i] \in OutcomeRecord
  <2> HIDE DEF OutcomeRecord
  <2> QED BY <1>2 DEF LedgerTail
<1> QED BY <1>1, <1>2, <1>3, Constants

(* A reservation changes what is open on one ledger.                       *)
LEMMA ReserveEffect ==
  ASSUME BatchTypes, WithinBudget, NEW l \in DOMAIN ledgers,
         NEW owner \in Schedules \cup {Other}, Reserve(l, owner)
  PROVE  /\ LedgersGrow /\ WithinBudget' /\ DOMAIN ledgers' = DOMAIN ledgers
         /\ ledgers[l].pending = Nobody /\ LedgerTail(l) < ledgers[l].budget
         /\ ledgers'[l].pending = owner /\ ledgers'[l].outcomes = ledgers[l].outcomes
         /\ \A k \in DOMAIN ledgers : k # l => ledgers'[k] = ledgers[k]
<1>1. /\ ledgers[l].pending = Nobody /\ LedgerTail(l) < ledgers[l].budget
      /\ ledgers' = [ledgers EXCEPT ![l].pending = owner]
  BY DEF Reserve, CanReserve
<1>2. /\ ledgers[l] \in Ledger /\ DOMAIN ledgers = 1 .. Len(ledgers) /\ Len(ledgers) \in Nat
  BY LedgerTyped
<1>3. [ledgers[l] EXCEPT !.pending = owner] \in Ledger
  BY <1>2 DEF Ledger
<1>4. /\ ledgers' = [ledgers EXCEPT ![l] = [ledgers[l] EXCEPT !.pending = owner]]
      /\ ledgers \in Seq(Ledger)
  BY <1>1 DEF BatchTypes
<1>5. /\ ledgers' \in Seq(Ledger) /\ Len(ledgers') = Len(ledgers)
      /\ DOMAIN ledgers' = DOMAIN ledgers
      /\ ledgers'[l] = [ledgers[l] EXCEPT !.pending = owner]
      /\ \A k \in DOMAIN ledgers : k # l => ledgers'[k] = ledgers[k]
  <2> HIDE DEF Ledger
  <2> QED BY <1>2, <1>3, <1>4
<1>6. /\ ledgers'[l].pending = owner /\ ledgers'[l].budget = ledgers[l].budget
      /\ ledgers'[l].outcomes = ledgers[l].outcomes
  BY <1>2, <1>5 DEF Ledger
<1>7. \A k \in DOMAIN ledgers : LedgerTail(k)' = LedgerTail(k) /\ LedgerTail(k) \in Nat
                                /\ ledgers'[k].budget = ledgers[k].budget
  BY <1>5, <1>6, LedgerTyped DEF LedgerTail
<1>8. WithinBudget'
  BY <1>1, <1>5, <1>7 DEF WithinBudget
<1>9. LedgersGrow
  BY <1>1, <1>2, <1>5, <1>6, <1>7 DEF LedgersGrow
<1> QED BY <1>1, <1>5, <1>6, <1>8, <1>9

(* Consuming the open reservation appends its outcome.                     *)
LEMMA ConsumeEffect ==
  ASSUME BatchTypes, WithinBudget, NEW l \in DOMAIN ledgers,
         NEW outcome \in OutcomeRecord, Consume(l, outcome), ledgers[l].pending # Nobody
  PROVE  /\ LedgersGrow /\ WithinBudget' /\ DOMAIN ledgers' = DOMAIN ledgers
         /\ ledgers'[l].pending = Nobody
         /\ ledgers'[l].outcomes = Append(ledgers[l].outcomes, outcome)
         /\ LedgerTail(l)' = LedgerTail(l) + 1
         /\ ledgers'[l].outcomes[LedgerTail(l) + 1] = outcome
         /\ \A k \in DOMAIN ledgers : k # l => ledgers'[k] = ledgers[k]
<1> DEFINE next == [ledgers[l] EXCEPT !.outcomes = Append(@, outcome), !.pending = Nobody]
<1>1. /\ ledgers[l] \in Ledger /\ DOMAIN ledgers = 1 .. Len(ledgers) /\ Len(ledgers) \in Nat
  BY LedgerTyped
<1>2. /\ ledgers[l].outcomes \in Seq(OutcomeRecord)
      /\ Append(ledgers[l].outcomes, outcome) \in Seq(OutcomeRecord)
  BY <1>1 DEF Ledger
<1>3. /\ next \in Ledger /\ next.pending = Nobody /\ next.budget = ledgers[l].budget
      /\ next.outcomes = Append(ledgers[l].outcomes, outcome)
  <2> HIDE DEF OutcomeRecord
  <2> QED BY <1>1, <1>2 DEF Ledger
<1>4. /\ ledgers' = [ledgers EXCEPT ![l] = next] /\ ledgers \in Seq(Ledger)
  BY DEF Consume, BatchTypes
<1>5. /\ ledgers' \in Seq(Ledger) /\ Len(ledgers') = Len(ledgers)
      /\ DOMAIN ledgers' = DOMAIN ledgers /\ ledgers'[l] = next
      /\ \A k \in DOMAIN ledgers : k # l => ledgers'[k] = ledgers[k]
  <2> HIDE DEF next, Ledger
  <2> QED BY <1>1, <1>3, <1>4
<1>6. /\ ledgers'[l].outcomes = Append(ledgers[l].outcomes, outcome)
      /\ ledgers'[l].pending = Nobody /\ ledgers'[l].budget = ledgers[l].budget
  BY <1>3, <1>5
<1>7. /\ LedgerTail(l)' = LedgerTail(l) + 1
      /\ ledgers'[l].outcomes[LedgerTail(l) + 1] = outcome
      /\ \A i \in 1 .. LedgerTail(l) : ledgers'[l].outcomes[i] = ledgers[l].outcomes[i]
  <2> HIDE DEF OutcomeRecord
  <2> QED BY <1>2, <1>6 DEF LedgerTail
<1>8. \A k \in DOMAIN ledgers : /\ LedgerTail(k) \in Nat /\ ledgers[k].budget \in Nat
                                /\ k # l => LedgerTail(k)' = LedgerTail(k)
  BY <1>5, LedgerTyped DEF LedgerTail
<1>9. WithinBudget'
  <2>1. LedgerTail(l) < ledgers[l].budget
    BY DEF WithinBudget
  <2>2. /\ LedgerTail(l)' <= ledgers'[l].budget
        /\ ledgers'[l].pending # Nobody => LedgerTail(l)' < ledgers'[l].budget
    BY <1>6, <1>7, <1>8, <2>1
  <2>3. \A k \in DOMAIN ledgers : k # l =>
          /\ LedgerTail(k)' <= ledgers'[k].budget
          /\ ledgers'[k].pending # Nobody => LedgerTail(k)' < ledgers'[k].budget
    BY <1>5, <1>8 DEF WithinBudget
  <2> QED BY <1>5, <2>2, <2>3 DEF WithinBudget
<1>10. LedgersGrow
  <2>1. ledgers'[l].budget = ledgers[l].budget /\ LedgerTail(l)' > LedgerTail(l)
    BY <1>6, <1>7, <1>8
  <2>2. \A k \in DOMAIN ledgers : k # l =>
          /\ ledgers'[k] = ledgers[k] /\ LedgerTail(k)' = LedgerTail(k) /\ LedgerTail(k) \in Nat
          /\ \A i \in 1 .. LedgerTail(k) : ledgers'[k].outcomes[i] = ledgers[k].outcomes[i]
    BY <1>5, <1>8
  <2>3. \A k \in DOMAIN ledgers :
          /\ ledgers'[k].budget = ledgers[k].budget /\ LedgerTail(k) <= LedgerTail(k)'
          /\ \A i \in 1 .. LedgerTail(k) : ledgers'[k].outcomes[i] = ledgers[k].outcomes[i]
          /\ ledgers[k].pending # Nobody =>
               ledgers'[k] = ledgers[k] \/ LedgerTail(k)' > LedgerTail(k)
    BY <1>7, <1>8, <2>1, <2>2
  <2> QED BY <1>1, <1>5, <2>3 DEF LedgersGrow
<1> QED BY <1>5, <1>6, <1>7, <1>9, <1>10

(* What was accounted for stays where it is.                               *)
LEMMA AccountedStays ==
  ASSUME LedgersGrow, BatchTypes, NEW l \in DOMAIN ledgers, NEW schedule,
         NEW boundary \in Nat, NEW n \in Nat, Accounted(l, schedule, boundary, n)
  PROVE  Accounted(l, schedule, boundary, n)'
<1>1. LedgerTail(l) \in Nat /\ LedgerTail(l)' >= LedgerTail(l) /\ boundary + n <= LedgerTail(l)
  BY LedgerTyped DEF LedgersGrow, Accounted
<1>2. LedgerTail(l)' \in Int
  <2>1. ledgers' \in Seq(Ledger) /\ l \in DOMAIN ledgers'
    BY DEF LedgersGrow
  <2>2. ledgers'[l] \in Ledger
    <3> HIDE DEF Ledger
    <3> QED BY <2>1
  <2>3. ledgers'[l].outcomes \in Seq(OutcomeRecord)
    <3> HIDE DEF OutcomeRecord
    <3> QED BY <2>2 DEF Ledger
  <2> QED BY <2>3 DEF LedgerTail
<1>3. \A i \in 1 .. n : boundary + i \in 1 .. LedgerTail(l)
  BY <1>1
<1>4. \A i \in 1 .. n : ledgers'[l].outcomes[boundary + i] = ledgers[l].outcomes[boundary + i]
  BY <1>3 DEF LedgersGrow
<1> QED BY <1>1, <1>2, <1>4 DEF Accounted

(* Nothing happens to the ledgers.                                         *)
LEMMA NothingGrows ==
  ASSUME BatchTypes, UNCHANGED ledgers PROVE LedgersGrow
<1>1. ledgers \in Seq(Ledger) /\ Len(ledgers) \in Nat
  BY DEF BatchTypes
<1>2. \A l \in DOMAIN ledgers : LedgerTail(l) \in Nat /\ LedgerTail(l)' = LedgerTail(l)
  BY LedgerTyped DEF LedgerTail
<1> QED BY <1>1, <1>2 DEF LedgersGrow

-----------------------------------------------------------------------------
(* The steps of a batch                                                    *)

(* The fields of the batch in progress.                                    *)
LEMMA BatchTyped ==
  ASSUME BatchTypes
  PROVE  /\ batch.boundary \in Nat /\ batch.expected \in Nat /\ batch.final \in Nat
         /\ batch.receipts \in Seq(Nat) /\ Received \in Nat /\ batch.step \in BatchSteps
         /\ ~At("NONE") => batch.ledger \in DOMAIN ledgers /\ batch.schedule \in Schedules
                           /\ LedgerTail(batch.ledger) \in Nat
<1>1. batch.receipts \in Seq(Nat)
  BY DEF BatchTypes
<1> QED BY <1>1, LedgerTyped DEF BatchTypes, Received

(* A ledger is certified, its tail is read, an attempt is authorized.      *)
LEMMA StartSteps ==
  ASSUME BatchInv, Certify \/ ReadTail \/ AuthorizeAttempt PROVE BatchInv'
<1> USE DEF BatchInv, At, Goto, Calm
<1>1. /\ UNCHANGED <<ledgers, foreign>> /\ batch.ledger \in DOMAIN ledgers
      /\ LedgerTail(batch.ledger) \in Nat /\ batch.schedule \in Schedules
      /\ batch.boundary \in Nat /\ batch.expected \in Nat /\ Received \in Nat
      /\ batch.receipts \in Seq(Nat)
  BY BatchTyped DEF Certify, ReadTail, AuthorizeAttempt
<1>2. WithinBudget'
  BY <1>1 DEF WithinBudget, LedgerTail
<1>3. CASE Certify
  <2>1. batch' = [batch EXCEPT !.step = "CERTIFIED", !.boundary = LedgerTail(batch.ledger)]
        /\ batch.receipts = <<>> /\ Received = 0
    BY <1>3 DEF Certify, ProgressInv, Received
  <2>2. /\ batch'.step = "CERTIFIED" /\ batch'.boundary = LedgerTail(batch.ledger)
        /\ batch'.receipts = <<>> /\ batch'.ledger = batch.ledger /\ Received' = 0
    BY <2>1 DEF BatchTypes, Received
  <2>3. BatchTypes'
    BY <1>1, <2>1 DEF BatchTypes, BatchSteps, Open, Complete
  <2>4. ReceiptsInv'
    BY <1>1, <2>2, Constants DEF ReceiptsInv, Accounted, LedgerTail
  <2>5. ProgressInv'
    BY <1>1, <2>2 DEF ProgressInv, Complete
  <2> QED BY <1>2, <2>3, <2>4, <2>5
<1>4. CASE ReadTail
  <2>1. batch' = [batch EXCEPT !.step = "READY", !.expected = LedgerTail(batch.ledger)]
        /\ batch.receipts = <<>> /\ Received = 0 /\ batch.step = "CERTIFIED"
    BY <1>4 DEF ReadTail, ProgressInv, Received
  <2>2. /\ batch'.step = "READY" /\ batch'.boundary = batch.boundary
        /\ batch'.receipts = <<>> /\ batch'.ledger = batch.ledger /\ Received' = 0
        /\ batch'.schedule = batch.schedule
    BY <2>1 DEF BatchTypes, Received
  <2>3. BatchTypes'
    BY <1>1, <2>1 DEF BatchTypes, BatchSteps, Open, Complete
  <2>4. ReceiptsInv'
    BY <1>1, <2>1, <2>2 DEF ReceiptsInv, Accounted, LedgerTail, Open
  <2>5. ProgressInv'
    BY <1>1, <2>2 DEF ProgressInv, Complete
  <2> QED BY <1>2, <2>3, <2>4, <2>5
<1>5. CASE AuthorizeAttempt
  <2>1. batch' = [batch EXCEPT !.step = "AUTHORIZED"] /\ batch.step = "READY"
    BY <1>5 DEF AuthorizeAttempt
  <2>2. /\ batch'.step = "AUTHORIZED" /\ batch'.boundary = batch.boundary
        /\ batch'.receipts = batch.receipts /\ batch'.ledger = batch.ledger
        /\ Received' = Received /\ batch'.schedule = batch.schedule
        /\ batch'.expected = batch.expected
    BY <2>1 DEF BatchTypes, Received
  <2>3. BatchTypes'
    BY <1>1, <2>1 DEF BatchTypes, BatchSteps, Open, Complete
  <2>4. ReceiptsInv'
    BY <1>1, <2>1, <2>2 DEF ReceiptsInv, Accounted, LedgerTail, Open
  <2>5. Received < RequiredAttempts
    BY <1>1, <1>5, Constants DEF AuthorizeAttempt, Cell, Cells, RequiredAttempts, Received
  <2>6. batch.expected = batch.boundary + Received
    <3>1. CASE batch.receipts = <<>>
      <4>1. batch.expected = batch.boundary
        BY <1>5, <3>1 DEF AuthorizeAttempt, ProgressAuthorized
      <4> QED BY <1>1, <3>1, <4>1 DEF Received
    <3>2. CASE batch.receipts # <<>>
      <4>1. Received > 0
        BY <1>1, <3>2, EmptySeq DEF Received
      <4> QED BY <2>1, <4>1 DEF ProgressInv
    <3> QED BY <3>1, <3>2
  <2>7. ProgressInv'
    BY <1>1, <2>2, <2>5, <2>6 DEF ProgressInv, Complete
  <2> QED BY <1>2, <2>3, <2>4, <2>7
<1> QED BY <1>3, <1>4, <1>5

(* The attempt of a cell is reserved at the tail it expects.                *)
LEMMA ReserveStep ==
  ASSUME BatchInv, ReserveCell PROVE BatchInv' /\ LedgersGrow
<1> USE DEF BatchInv, At, Goto
<1>1. /\ batch.ledger \in DOMAIN ledgers /\ batch.schedule \in Schedules
      /\ batch.step = "AUTHORIZED" /\ batch' = [batch EXCEPT !.step = "CALLING"]
      /\ LedgerTail(batch.ledger) = batch.expected /\ UNCHANGED foreign
      /\ Reserve(batch.ledger, batch.schedule)
      /\ batch.boundary \in Nat /\ Received \in Nat /\ LedgerTail(batch.ledger) \in Nat
  BY BatchTyped DEF ReserveCell
<1>2. /\ LedgersGrow /\ WithinBudget' /\ DOMAIN ledgers' = DOMAIN ledgers
      /\ ledgers'[batch.ledger].pending = batch.schedule
      /\ ledgers'[batch.ledger].outcomes = ledgers[batch.ledger].outcomes
  BY <1>1, ReserveEffect
<1>3. /\ batch'.step = "CALLING" /\ batch'.boundary = batch.boundary
      /\ batch'.receipts = batch.receipts /\ batch'.ledger = batch.ledger
      /\ Received' = Received /\ batch'.schedule = batch.schedule
      /\ batch'.expected = batch.expected /\ LedgerTail(batch.ledger)' = LedgerTail(batch.ledger)
  BY <1>1, <1>2 DEF BatchTypes, Received, LedgerTail
<1>4. BatchTypes'
  BY <1>1, <1>2 DEF BatchTypes, BatchSteps, Open, Complete, LedgersGrow
<1>5. ReceiptsInv'
  BY <1>1, <1>2, <1>3 DEF ReceiptsInv, Accounted, LedgerTail, Open
<1>6. ProgressInv'
  BY <1>1, <1>2, <1>3 DEF ProgressInv, Complete, LedgerTail
<1> QED BY <1>2, <1>4, <1>5, <1>6

(* What a call leaves behind is an outcome of its cell.                     *)
LEMMA TerminalTyped ==
  ASSUME BatchTypes, ~At("NONE"), NEW used \in Usages
  PROVE  \A outcome \in Terminal(batch.schedule, Cell, CellSeed, used)
                        \cup {Outcome(batch.schedule, Cell, CellSeed, "BURNED", Ceiling)} :
           /\ outcome \in OutcomeRecord /\ outcome.owner = batch.schedule
           /\ outcome.cell = Cell /\ outcome.seed = SeedFor(batch.schedule, Cell)
<1>1. /\ batch.schedule \in Schedules /\ Cell \in Nat /\ used \in Nat /\ Ceiling \in Nat
  BY BatchTyped, Constants DEF Cell, Received
<1>2. Coordinate(Cell) \in Nat
  BY <1>1 DEF Coordinate
<1>3. CellSeed \in Schedules \X Nat /\ CellSeed = SeedFor(batch.schedule, Cell)
  BY <1>1, <1>2 DEF CellSeed, SeedFor
<1>4. \A disposition \in {"SETTLED", "BURNED", "POISONED"}, charged \in {used, Ceiling} :
        LET outcome == Outcome(batch.schedule, Cell, CellSeed, disposition, charged)
        IN  /\ outcome \in OutcomeRecord /\ outcome.owner = batch.schedule
            /\ outcome.cell = Cell /\ outcome.seed = CellSeed
  BY <1>1, <1>3 DEF Outcome, OutcomeRecord
<1> QED BY <1>3, <1>4 DEF Terminal

(* A call returns a record, or loses it.                                   *)
LEMMA CallSteps ==
  ASSUME BatchInv, (\E used \in Usages : ReturnRecord(used)) \/ LoseRecord
  PROVE  BatchInv' /\ LedgersGrow
<1> USE DEF BatchInv, At, Goto
<1>1. /\ batch.ledger \in DOMAIN ledgers /\ batch.schedule \in Schedules
      /\ batch.step = "CALLING" /\ UNCHANGED foreign
      /\ batch.boundary \in Nat /\ Received \in Nat /\ LedgerTail(batch.ledger) \in Nat
      /\ ledgers[batch.ledger].pending # Nobody /\ LedgerTail(batch.ledger) = batch.expected
      /\ Received < RequiredAttempts /\ batch.expected = batch.boundary + Received
      /\ RequiredAttempts \in Nat /\ Cell = Received + 1
  BY BatchTyped, Constants DEF ReturnRecord, LoseRecord, ProgressInv, Cell, Received
<1>2. Accounted(batch.ledger, batch.schedule, batch.boundary, Received)
  BY <1>1 DEF ReceiptsInv, Open
<1>3. ASSUME NEW used \in Usages, ReturnRecord(used) PROVE BatchInv' /\ LedgersGrow
  <2>1. PICK outcome \in Terminal(batch.schedule, Cell, CellSeed, used) :
          Consume(batch.ledger, outcome)
    BY <1>3 DEF ReturnRecord
  <2>2. /\ outcome \in OutcomeRecord /\ outcome.owner = batch.schedule
        /\ outcome.cell = Received + 1 /\ outcome.seed = SeedFor(batch.schedule, Received + 1)
    BY <1>1, TerminalTyped
  <2>3. /\ LedgersGrow /\ WithinBudget' /\ DOMAIN ledgers' = DOMAIN ledgers
        /\ Len(ledgers'[batch.ledger].outcomes) = LedgerTail(batch.ledger) + 1
        /\ ledgers'[batch.ledger].outcomes[LedgerTail(batch.ledger) + 1] = outcome
    <3>1. /\ BatchTypes /\ WithinBudget /\ batch.ledger \in DOMAIN ledgers
          /\ outcome \in OutcomeRecord /\ Consume(batch.ledger, outcome)
          /\ ledgers[batch.ledger].pending # Nobody
      BY <1>1, <2>1, <2>2
    <3> QED BY <3>1, ConsumeEffect DEF LedgerTail
  <2>4. /\ batch' = [batch EXCEPT !.step = "ACCOUNTED", !.expected = batch.expected + 1]
    BY <1>3 DEF ReturnRecord
  <2>5. /\ batch'.step = "ACCOUNTED" /\ batch'.boundary = batch.boundary
        /\ batch'.receipts = batch.receipts /\ batch'.ledger = batch.ledger
        /\ Received' = Received /\ batch'.schedule = batch.schedule
        /\ batch'.expected = batch.expected + 1
    BY <2>4 DEF BatchTypes, Received
  <2>6. BatchTypes'
    <3>1. batch.expected + 1 \in Nat
      BY <1>1
    <3> QED BY <1>1, <2>3, <2>4, <3>1 DEF BatchTypes, BatchSteps, Open, Complete, LedgersGrow
  <2>7. Accounted(batch.ledger, batch.schedule, batch.boundary, Received)'
    <3>1. /\ batch.boundary + Received <= Len(ledgers'[batch.ledger].outcomes)
          /\ \A i \in 1 .. Received :
               LET left == ledgers'[batch.ledger].outcomes[batch.boundary + i]
               IN  /\ left.owner = batch.schedule /\ left.cell = i
                   /\ left.seed = SeedFor(batch.schedule, i)
      <4>1. /\ BatchTypes /\ LedgersGrow /\ batch.ledger \in DOMAIN ledgers
            /\ batch.boundary \in Nat /\ Received \in Nat
        BY <1>1, <2>3
      <4> HIDE DEF BatchInv
      <4>2. PICK l \in DOMAIN ledgers, b \in Nat, n \in Nat, schedule \in {batch.schedule} :
              l = batch.ledger /\ b = batch.boundary /\ n = Received /\ schedule = batch.schedule
        BY <4>1
      <4>3. Accounted(l, schedule, b, n)
        BY <1>2, <4>2
      <4>4. Accounted(l, schedule, b, n)'
        BY <4>1, <4>3, AccountedStays
      <4> QED BY <4>2, <4>4 DEF Accounted, LedgerTail
    <3> QED BY <2>5, <3>1 DEF Accounted, LedgerTail
  <2>8. Accounted(batch.ledger, batch.schedule, batch.boundary, Received + 1)'
    <3>1. \A i \in 1 .. Received + 1 : i \in 1 .. Received \/ i = Received + 1
      BY <1>1
    <3>2. batch.boundary + (Received + 1) = LedgerTail(batch.ledger) + 1
      BY <1>1
    <3>3. \A i \in 1 .. Received + 1 :
            LET left == ledgers'[batch.ledger].outcomes[batch.boundary + i]
            IN  /\ left.owner = batch.schedule /\ left.cell = i
                /\ left.seed = SeedFor(batch.schedule, i)
      BY <2>2, <2>3, <2>5, <2>7, <3>1, <3>2 DEF Accounted
    <3> QED BY <1>1, <2>3, <2>5, <3>2, <3>3 DEF Accounted, LedgerTail
  <2>9. ReceiptsInv'
    BY <1>1, <2>5, <2>7 DEF ReceiptsInv, Open
  <2>10. ProgressInv'
    BY <1>1, <2>5, <2>8 DEF ProgressInv, Complete
  <2> QED BY <2>3, <2>6, <2>9, <2>10
<1>4. ASSUME LoseRecord PROVE BatchInv' /\ LedgersGrow
  <2>1. LedgersGrow /\ WithinBudget'
    <3>1. CASE UNCHANGED ledgers
      BY <3>1, NothingGrows DEF WithinBudget, LedgerTail
    <3>2. CASE Consume(batch.ledger, Outcome(batch.schedule, Cell, CellSeed, "BURNED", Ceiling))
      <4>1. /\ CellSeed \in Schedules \X Nat /\ Cell \in Nat /\ Ceiling \in Nat
        BY <1>1, Constants DEF CellSeed, SeedFor, Coordinate
      <4>2. Outcome(batch.schedule, Cell, CellSeed, "BURNED", Ceiling) \in OutcomeRecord
        BY <1>1, <4>1 DEF Outcome, OutcomeRecord
      <4> QED BY <1>1, <3>2, <4>2, ConsumeEffect
    <3> QED BY <1>4, <3>1, <3>2 DEF LoseRecord
  <2>2. batch' = [batch EXCEPT !.step = "FAILED"]
    BY <1>4 DEF LoseRecord
  <2>3. batch'.step = "FAILED" /\ batch'.ledger = batch.ledger
    BY <2>2 DEF BatchTypes
  <2>4. BatchTypes'
    BY <1>1, <2>1, <2>2 DEF BatchTypes, BatchSteps, Open, Complete, LedgersGrow
  <2> QED BY <2>1, <2>3, <2>4 DEF ReceiptsInv, ProgressInv, Open, Complete
<1> QED BY <1>3, <1>4

(* A receipt binds the outcome that was left.                              *)
LEMMA ReceiptStep ==
  ASSUME BatchInv, PublishReceipt PROVE BatchInv'
<1> USE DEF BatchInv, At, Calm
<1>1. /\ UNCHANGED <<ledgers, foreign>> /\ batch.step = "ACCOUNTED"
      /\ batch' = [batch EXCEPT !.step = "READY", !.receipts = Append(batch.receipts, batch.expected)]
      /\ batch.ledger \in DOMAIN ledgers /\ batch.schedule \in Schedules
      /\ batch.boundary \in Nat /\ Received \in Nat /\ batch.receipts \in Seq(Nat)
      /\ Received < RequiredAttempts /\ batch.expected = batch.boundary + Received + 1
      /\ Accounted(batch.ledger, batch.schedule, batch.boundary, Received + 1)
      /\ RequiredAttempts \in Nat
  BY BatchTyped, Constants DEF PublishReceipt, ProgressInv
<1>2. /\ Append(batch.receipts, batch.expected) \in Seq(Nat)
      /\ Len(Append(batch.receipts, batch.expected)) = Received + 1
      /\ \A i \in 1 .. Received : Append(batch.receipts, batch.expected)[i] = batch.receipts[i]
      /\ Append(batch.receipts, batch.expected)[Received + 1] = batch.expected
  <2>1. batch.expected \in Nat
    BY <1>1
  <2> QED BY <1>1, <2>1 DEF Received
<1>3. /\ batch'.step = "READY" /\ batch'.boundary = batch.boundary
      /\ batch'.receipts = Append(batch.receipts, batch.expected)
      /\ batch'.ledger = batch.ledger /\ batch'.schedule = batch.schedule
      /\ batch'.expected = batch.expected /\ Received' = Received + 1
  BY <1>1, <1>2 DEF BatchTypes, Received
<1>4. BatchTypes'
  BY <1>1, <1>2 DEF BatchTypes, BatchSteps, Open, Complete
<1>5. ReceiptsInv'
  <2>1. \A i \in 1 .. Received : batch.receipts[i] = batch.boundary + i
    BY <1>1 DEF ReceiptsInv, Open
  <2>2. \A i \in 1 .. Received + 1 : batch'.receipts[i] = batch.boundary + i
    <3>1. \A i \in 1 .. Received + 1 : i \in 1 .. Received \/ i = Received + 1
      BY <1>1
    <3>2. batch'.receipts[Received + 1] = batch.boundary + (Received + 1)
      BY <1>1, <1>2, <1>3
    <3> QED BY <1>2, <1>3, <2>1, <3>1, <3>2
  <2>3. Accounted(batch.ledger, batch.schedule, batch.boundary, Received)'
    BY <1>1, <1>3 DEF Accounted, LedgerTail
  <2>4. \A i \in 1 .. Received' : batch'.receipts[i] = batch'.boundary + i
    BY <1>3, <2>2
  <2>5. Received' <= RequiredAttempts
    BY <1>1, <1>3
  <2> QED BY <2>3, <2>4, <2>5 DEF ReceiptsInv
<1>6. ProgressInv'
  BY <1>1, <1>3 DEF ProgressInv, Complete
<1>7. WithinBudget'
  BY <1>1 DEF WithinBudget, LedgerTail
<1> QED BY <1>4, <1>5, <1>6, <1>7

(* The replay ends only over exactly what the receipts name.               *)
LEMMA ReplaySteps ==
  ASSUME BatchInv, BeginReplay \/ TrustUsage
  PROVE  /\ BatchInv'
         /\ TrustUsage => /\ LedgerTail(batch.ledger) = batch.boundary + RequiredAttempts
                          /\ batch'.final = batch.boundary + RequiredAttempts
<1> USE DEF BatchInv, At, Goto, Calm
<1>1. /\ UNCHANGED <<ledgers, foreign>> /\ batch.ledger \in DOMAIN ledgers
      /\ LedgerTail(batch.ledger) \in Nat /\ batch.schedule \in Schedules
      /\ batch.boundary \in Nat /\ Received \in Nat /\ batch.final \in Nat
      /\ batch.receipts \in Seq(Nat) /\ RequiredAttempts \in Nat \ {0}
  BY BatchTyped, Constants DEF BeginReplay, TrustUsage
<1>2. WithinBudget'
  BY <1>1 DEF WithinBudget, LedgerTail
<1>3. CASE BeginReplay
  <2>1. batch' = [batch EXCEPT !.step = "REPLAYING", !.final = LedgerTail(batch.ledger)]
        /\ batch.step = "READY"
    BY <1>3 DEF BeginReplay
  <2>2. /\ batch'.step = "REPLAYING" /\ batch'.boundary = batch.boundary
        /\ batch'.receipts = batch.receipts /\ batch'.ledger = batch.ledger
        /\ batch'.schedule = batch.schedule /\ Received' = Received
        /\ batch'.final = LedgerTail(batch.ledger)
    BY <2>1 DEF BatchTypes, Received
  <2>3. BatchTypes'
    BY <1>1, <2>1 DEF BatchTypes, BatchSteps, Open, Complete
  <2>4. ReceiptsInv'
    BY <1>1, <2>1, <2>2 DEF ReceiptsInv, Accounted, LedgerTail, Open
  <2>5. Received = RequiredAttempts
    <3>1. Received <= RequiredAttempts
      BY <2>1 DEF ReceiptsInv, Open
    <3>2. Received + 1 \notin 1 .. RequiredAttempts
      BY <1>3 DEF BeginReplay, Cell, Cells, RequiredAttempts, Received
    <3> QED BY <1>1, <3>1, <3>2
  <2>6. ProgressInv'
    BY <1>1, <2>2, <2>5 DEF ProgressInv, LedgerTail
  <2>7. ~TrustUsage
    BY <2>1 DEF TrustUsage
  <2> QED BY <1>2, <2>3, <2>4, <2>6, <2>7
<1>4. CASE TrustUsage
  <2>1. batch' = [batch EXCEPT !.step = "TRUSTED"] /\ batch.step = "REPLAYING"
        /\ LedgerTail(batch.ledger) = batch.final
    BY <1>4 DEF TrustUsage
  <2>2. /\ batch'.step = "TRUSTED" /\ batch'.boundary = batch.boundary
        /\ batch'.receipts = batch.receipts /\ batch'.ledger = batch.ledger
        /\ batch'.schedule = batch.schedule /\ Received' = Received
        /\ batch'.final = batch.final
    BY <2>1 DEF BatchTypes, Received
  <2>3. BatchTypes'
    BY <1>1, <2>1 DEF BatchTypes, BatchSteps, Open, Complete
  <2>4. ReceiptsInv'
    BY <1>1, <2>1, <2>2 DEF ReceiptsInv, Accounted, LedgerTail, Complete
  <2>5. /\ Received = RequiredAttempts
        /\ \A i \in 1 .. Received : batch.receipts[i] = batch.boundary + i
    BY <2>1 DEF ProgressInv, ReceiptsInv, Complete
  <2>6. batch.boundary + RequiredAttempts <= batch.final
    BY <2>1, <2>5 DEF ReceiptsInv, Accounted, Complete
  <2>7. batch.final = batch.boundary + RequiredAttempts
    <3>1. ToSet(batch.receipts) = batch.boundary + 1 .. batch.final
      BY <1>4 DEF TrustUsage, ReceiptsCover
    <3>2. ToSet(batch.receipts) = {batch.receipts[i] : i \in 1 .. Received}
      BY <1>1 DEF ToSet, Received
    <3>3. batch.final \in batch.boundary + 1 .. batch.final
      BY <1>1, <2>6
    <3>4. PICK i \in 1 .. Received : batch.final = batch.boundary + i
      <4>1. PICK i \in 1 .. Received : batch.final = batch.receipts[i]
        BY <3>1, <3>2, <3>3
      <4> QED BY <2>5, <4>1
    <3> QED BY <1>1, <2>5, <2>6, <3>4
  <2>8. ProgressInv'
    BY <1>1, <2>1, <2>2, <2>5, <2>7 DEF ProgressInv, LedgerTail
  <2> QED BY <1>2, <2>1, <2>2, <2>3, <2>4, <2>7, <2>8
<1> QED BY <1>3, <1>4

(* Attempts of others disturb no batch but by taking its next place.        *)
LEMMA GrowthKeepsBatch ==
  ASSUME BatchInv, LedgersGrow, UNCHANGED batch, WithinBudget', foreign' \in 0 .. MaxForeign,
         At("CALLING") => ledgers'[batch.ledger] = ledgers[batch.ledger]
  PROVE  BatchInv'
<1>1. BatchTypes'
  <2>1. DOMAIN ledgers \subseteq DOMAIN ledgers' /\ ledgers' \in Seq(Ledger)
    BY DEF LedgersGrow
  <2> QED BY <2>1 DEF BatchInv, BatchTypes, At
<1>2. CASE At("NONE")
  BY <1>1, <1>2 DEF BatchInv, At, ReceiptsInv, ProgressInv, Open, Complete
<1>3. CASE ~At("NONE")
  <2>1. /\ batch.ledger \in DOMAIN ledgers /\ batch.boundary \in Nat /\ Received \in Nat
        /\ LedgerTail(batch.ledger) \in Nat /\ Received + 1 \in Nat
        /\ batch.step \in BatchSteps /\ batch.final \in Nat /\ Received' = Received
    BY <1>3, BatchTyped DEF BatchInv, Received
  <2>2. \A n \in Nat : Accounted(batch.ledger, batch.schedule, batch.boundary, n)
                         => Accounted(batch.ledger, batch.schedule, batch.boundary, n)'
    <3>1. ASSUME NEW n \in Nat, Accounted(batch.ledger, batch.schedule, batch.boundary, n)
          PROVE  /\ batch.boundary + n <= Len(ledgers'[batch.ledger].outcomes)
                 /\ \A i \in 1 .. n : LET left == ledgers'[batch.ledger].outcomes[batch.boundary + i]
                                      IN  /\ left.owner = batch.schedule /\ left.cell = i
                                          /\ left.seed = SeedFor(batch.schedule, i)
      <4>1. BatchTypes
        BY DEF BatchInv
      <4>2. batch.ledger \in DOMAIN ledgers /\ batch.boundary \in Nat
        BY <2>1
      <4>3. PICK l \in DOMAIN ledgers : l = batch.ledger
        BY <4>2
      <4>4. PICK b \in Nat, schedule \in {batch.schedule} : b = batch.boundary /\ schedule = batch.schedule
        BY <4>2
      <4>5. Accounted(l, schedule, b, n)
        BY <3>1, <4>3, <4>4
      <4>6. Accounted(l, schedule, b, n)'
        BY <4>1, <4>5, AccountedStays
      <4> QED BY <4>3, <4>4, <4>6 DEF Accounted, LedgerTail
    <3> QED BY <3>1 DEF Accounted, LedgerTail
  <2>3. ReceiptsInv'
    BY <2>1, <2>2 DEF BatchInv, ReceiptsInv
  <2>4. LedgerTail(batch.ledger)' >= LedgerTail(batch.ledger) /\ LedgerTail(batch.ledger)' \in Int
    <3>1. PICK l \in DOMAIN ledgers : l = batch.ledger
      BY <2>1
    <3>2. LedgerTail(l)' >= LedgerTail(l)
      BY <2>1, <3>1 DEF LedgersGrow
    <3>3. ledgers'[l] \in Ledger
      <4> HIDE DEF Ledger
      <4> QED BY DEF LedgersGrow
    <3>4. ledgers'[l].outcomes \in Seq(OutcomeRecord)
      <4> HIDE DEF OutcomeRecord
      <4> QED BY <3>3 DEF Ledger
    <3>5. LedgerTail(l)' \in Int
      BY <3>4 DEF LedgerTail
    <3> QED BY <3>1, <3>2, <3>5 DEF LedgerTail
  <2>5. ProgressInv'
    <3>1. batch.step \in {"HANDED", "FRESH", "CERTIFIED"} => batch.receipts = <<>>
      BY DEF BatchInv, ProgressInv
    <3>2. At("READY") /\ Received > 0 => batch.expected = batch.boundary + Received
      BY DEF BatchInv, ProgressInv
    <3>3. batch.step \in {"AUTHORIZED", "CALLING"} =>
            Received < RequiredAttempts /\ batch.expected = batch.boundary + Received
      BY DEF BatchInv, ProgressInv
    <3>4. At("CALLING")' => /\ ledgers'[batch.ledger].pending = batch.schedule
                            /\ LedgerTail(batch.ledger)' = batch.expected
      BY DEF BatchInv, ProgressInv, At, LedgerTail
    <3>5. At("ACCOUNTED") =>
            /\ Received < RequiredAttempts /\ batch.expected = batch.boundary + Received + 1
            /\ Accounted(batch.ledger, batch.schedule, batch.boundary, Received + 1)'
      BY <2>1, <2>2 DEF BatchInv, ProgressInv
    <3>6. batch.step \in Complete =>
            Received = RequiredAttempts /\ batch.final <= LedgerTail(batch.ledger)'
      BY <2>1, <2>4 DEF BatchInv, ProgressInv
    <3>7. batch.step \in {"TRUSTED", "PARENT_SIGNED"} =>
            batch.final = batch.boundary + RequiredAttempts
      BY DEF BatchInv, ProgressInv
    <3> QED BY <2>1, <3>1, <3>2, <3>3, <3>4, <3>5, <3>6, <3>7 DEF ProgressInv, At
  <2> QED BY <1>1, <2>3, <2>5 DEF BatchInv
<1> QED BY <1>2, <1>3

(* An attempt of another holder is reserved or consumed.                   *)
LEMMA ForeignStep ==
  ASSUME BatchInv, NEW l \in DOMAIN ledgers, ForeignReserve(l) \/ ForeignConsume(l)
  PROVE  BatchInv' /\ LedgersGrow
<1>1. At("CALLING") => ledgers[batch.ledger].pending \in Schedules
  BY BatchTyped DEF BatchInv, ProgressInv, At
<1>2. CASE ForeignReserve(l)
  <2>1. /\ BatchTypes /\ WithinBudget /\ Reserve(l, Other) /\ UNCHANGED batch
        /\ foreign' = foreign + 1 /\ foreign < MaxForeign
    BY <1>2 DEF ForeignReserve, BatchInv
  <2>2. /\ LedgersGrow /\ WithinBudget' /\ ledgers[l].pending = Nobody
        /\ \A k \in DOMAIN ledgers : k # l => ledgers'[k] = ledgers[k]
    BY <2>1, ReserveEffect
  <2>3. At("CALLING") => ledgers'[batch.ledger] = ledgers[batch.ledger]
    BY <1>1, <2>1, <2>2, Constants, BatchTyped DEF At
  <2>4. foreign' \in 0 .. MaxForeign
    BY <2>1, Constants DEF BatchTypes
  <2> QED BY <2>1, <2>2, <2>3, <2>4, GrowthKeepsBatch
<1>3. CASE ForeignConsume(l)
  <2>1. /\ BatchTypes /\ WithinBudget /\ UNCHANGED <<batch, foreign>>
        /\ ledgers[l].pending = Other
        /\ Consume(l, Outcome(Other, 0, Nobody, "SETTLED", Ceiling))
    BY <1>3 DEF ForeignConsume, BatchInv
  <2>2. Outcome(Other, 0, Nobody, "SETTLED", Ceiling) \in OutcomeRecord
    BY Constants DEF Outcome, OutcomeRecord
  <2>3. /\ LedgersGrow /\ WithinBudget'
        /\ \A k \in DOMAIN ledgers : k # l => ledgers'[k] = ledgers[k]
    BY <2>1, <2>2, Constants, ConsumeEffect
  <2>4. At("CALLING") => ledgers'[batch.ledger] = ledgers[batch.ledger]
    BY <1>1, <2>1, <2>3, Constants, BatchTyped DEF At
  <2>5. foreign' \in 0 .. MaxForeign
    BY <2>1 DEF BatchTypes
  <2> QED BY <2>1, <2>3, <2>4, <2>5, GrowthKeepsBatch
<1> QED BY <1>2, <1>3

(* Every step of a batch and of the other holders of the ledgers.           *)
LEMMA BatchStep ==
  ASSUME BatchInv, BatchNext PROVE BatchInv' /\ LedgersGrow
<1>1. CASE Certify \/ ReadTail \/ AuthorizeAttempt \/ PublishReceipt \/ BeginReplay \/ TrustUsage
  <2>1. UNCHANGED ledgers
    BY <1>1 DEF Certify, ReadTail, AuthorizeAttempt, PublishReceipt, BeginReplay, TrustUsage, Calm
  <2>2. LedgersGrow
    BY <2>1, NothingGrows DEF BatchInv
  <2> QED BY <1>1, <2>2, StartSteps, ReceiptStep, ReplaySteps
<1>2. CASE \E l \in DOMAIN ledgers : ForeignReserve(l) \/ ForeignConsume(l)
  BY <1>2, ForeignStep
<1> QED BY <1>1, <1>2, ReserveStep, CallSteps DEF BatchNext

(* Giving a batch up leaves no batch.                                       *)
LEMMA GiveUp ==
  ASSUME BatchInv, batch' = NoBatch, UNCHANGED <<ledgers, foreign>>
  PROVE  BatchInv' /\ LedgersGrow
<1>1. LedgersGrow
  BY NothingGrows DEF BatchInv
<1>2. NoBatch \in [step : BatchSteps, schedule : Schedules \cup {Nobody}, ledger : Nat,
                   boundary : Nat, expected : Nat, receipts : Seq(Nat), final : Nat]
  BY DEF NoBatch, BatchSteps
<1>3. batch'.step = "NONE"
  BY DEF NoBatch
<1>4. BatchTypes'
  BY <1>2, <1>3 DEF BatchInv, BatchTypes, At, NoBatch
<1>5. WithinBudget'
  BY DEF BatchInv, WithinBudget, LedgerTail
<1> QED BY <1>1, <1>3, <1>4, <1>5 DEF BatchInv, ReceiptsInv, ProgressInv, At, Open, Complete

(* Usage is certified only if it is all the ledger did.                     *)
LEMMA TrustIsExact ==
  ASSUME BatchInv, TrustUsage
  PROVE  LET ledger == ledgers'[batch'.ledger]
         IN  /\ ledger.pending = Nobody
             /\ Len(ledger.outcomes) = batch'.boundary + RequiredAttempts
             /\ \A cell \in Cells :
                  /\ ledger.outcomes[batch'.boundary + cell].owner = batch'.schedule
                  /\ ledger.outcomes[batch'.boundary + cell].cell = cell
<1>1. /\ batch' = [batch EXCEPT !.step = "TRUSTED"] /\ UNCHANGED ledgers
      /\ batch.step = "REPLAYING" /\ ledgers[batch.ledger].pending = Nobody
      /\ batch \in [step : BatchSteps, schedule : Schedules \cup {Nobody}, ledger : Nat,
                boundary : Nat, expected : Nat, receipts : Seq(Nat), final : Nat]
  BY DEF TrustUsage, At, Goto, Calm, BatchInv, BatchTypes
<1>2. /\ batch'.ledger = batch.ledger /\ batch'.boundary = batch.boundary
      /\ batch'.schedule = batch.schedule
  BY <1>1
<1>3. LedgerTail(batch.ledger) = batch.boundary + RequiredAttempts
  BY ReplaySteps
<1>4. Accounted(batch.ledger, batch.schedule, batch.boundary, RequiredAttempts)
  BY <1>1 DEF BatchInv, ReceiptsInv, ProgressInv, Complete
<1> QED BY <1>1, <1>2, <1>3, <1>4 DEF Accounted, LedgerTail, Cells, RequiredAttempts

OpenedBatch(step, l, schedule) ==
  [NoBatch EXCEPT !.step = step, !.ledger = l, !.schedule = schedule]

(* A schedule is paired with a ledger, a new one or one used before.        *)
LEMMA OpenStep ==
  ASSUME BatchInv, NEW l \in 1 .. Len(ledgers) + 1, NEW budget \in Budgets,
         \/ l \in DOMAIN ledgers /\ ledgers' = ledgers
         \/ l \notin DOMAIN ledgers /\ ledgers' = Append(ledgers, OpenLedger(budget)),
         NEW step \in {"HANDED", "FRESH"}, NEW schedule \in Schedules,
         batch' = OpenedBatch(step, l, schedule),
         UNCHANGED foreign
  PROVE  BatchInv' /\ LedgersGrow
<1>1. ledgers \in Seq(Ledger) /\ Len(ledgers) \in Nat /\ DOMAIN ledgers = 1 .. Len(ledgers)
  BY DEF BatchInv, BatchTypes
<1>2. LedgersGrow /\ WithinBudget' /\ l \in DOMAIN ledgers'
  <2>1. CASE l \in DOMAIN ledgers
    <3>1. UNCHANGED ledgers
      BY <2>1
    <3> QED BY <2>1, <3>1, NothingGrows DEF BatchInv, WithinBudget, LedgerTail
  <2>2. CASE l \notin DOMAIN ledgers
    <3>1. ledgers' = Append(ledgers, OpenLedger(budget)) /\ l = Len(ledgers) + 1
      BY <1>1, <2>2
    <3>2. /\ OpenLedger(budget) \in Ledger /\ OpenLedger(budget).outcomes = <<>>
          /\ OpenLedger(budget).pending = Nobody /\ OpenLedger(budget).budget = budget
      BY DEF OpenLedger, Ledger
    <3>3. /\ ledgers' \in Seq(Ledger) /\ Len(ledgers') = Len(ledgers) + 1
          /\ DOMAIN ledgers' = 1 .. Len(ledgers) + 1
          /\ \A k \in DOMAIN ledgers : ledgers'[k] = ledgers[k]
          /\ ledgers'[Len(ledgers) + 1] = OpenLedger(budget)
      <4>1. PICK opened \in Ledger : opened = OpenLedger(budget)
        BY <3>2
      <4> HIDE DEF Ledger
      <4>2. ledgers' = Append(ledgers, opened)
        BY <3>1, <4>1
      <4>3. /\ ledgers' \in Seq(Ledger) /\ Len(ledgers') = Len(ledgers) + 1
            /\ \A k \in 1 .. Len(ledgers) : ledgers'[k] = ledgers[k]
            /\ ledgers'[Len(ledgers) + 1] = opened
        <5>1. ledgers \in Seq(Ledger)
          BY <1>1
        <5>2. \A s \in Seq(Ledger), e \in Ledger :
                /\ Append(s, e) \in Seq(Ledger) /\ Len(Append(s, e)) = Len(s) + 1
                /\ \A k \in 1 .. Len(s) : Append(s, e)[k] = s[k]
                /\ Append(s, e)[Len(s) + 1] = e
          BY AppendProperties
        <5> QED BY <4>2, <5>1, <5>2
      <4>4. DOMAIN ledgers' = 1 .. Len(ledgers')
        BY <4>3
      <4> QED BY <1>1, <4>1, <4>3, <4>4
    <3>4. \A k \in DOMAIN ledgers : LedgerTail(k)' = LedgerTail(k) /\ LedgerTail(k) \in Nat
      BY <3>3, LedgerTyped DEF LedgerTail, BatchInv
    <3>5. LedgersGrow
      BY <1>1, <3>3, <3>4 DEF LedgersGrow
    <3>6. LedgerTail(l)' = 0 /\ ledgers'[l].pending = Nobody /\ ledgers'[l].budget \in Nat
      BY <3>1, <3>2, <3>3, Constants DEF LedgerTail
    <3>7. \A k \in DOMAIN ledgers' : k \in DOMAIN ledgers \/ k = l
      <4>1. DOMAIN ledgers' = 1 .. Len(ledgers) + 1 /\ l = Len(ledgers) + 1
        BY <3>1, <3>3
      <4> QED BY <1>1, <4>1
    <3>8. WithinBudget'
      <4>1. \A k \in DOMAIN ledgers :
              /\ LedgerTail(k)' <= ledgers'[k].budget
              /\ ledgers'[k].pending # Nobody => LedgerTail(k)' < ledgers'[k].budget
        BY <3>3, <3>4 DEF BatchInv, WithinBudget
      <4>2. /\ LedgerTail(l)' <= ledgers'[l].budget
            /\ ledgers'[l].pending # Nobody => LedgerTail(l)' < ledgers'[l].budget
        BY <3>6
      <4> QED BY <3>7, <4>1, <4>2 DEF WithinBudget
    <3> QED BY <3>1, <3>3, <3>5, <3>8
  <2> QED BY <2>1, <2>2
<1>3. /\ batch'.step = step /\ batch'.ledger = l /\ batch'.schedule = schedule
      /\ batch'.receipts = <<>>
      /\ batch' \in [step : BatchSteps, schedule : Schedules \cup {Nobody}, ledger : Nat,
                     boundary : Nat, expected : Nat, receipts : Seq(Nat), final : Nat]
  <2>1. l \in Nat
    BY <1>1
  <2>2. batch' = [step |-> step, schedule |-> schedule, ledger |-> l, boundary |-> 0,
                  expected |-> 0, receipts |-> <<>>, final |-> 0]
    BY DEF NoBatch, OpenedBatch
  <2>3. step \in BatchSteps /\ <<>> \in Seq(Nat)
    BY DEF BatchSteps
  <2>4. /\ batch'.step = step /\ batch'.ledger = l /\ batch'.schedule = schedule
        /\ batch'.receipts = <<>>
    BY <2>2
  <2>5. batch' \in [step : BatchSteps, schedule : Schedules \cup {Nobody}, ledger : Nat,
                    boundary : Nat, expected : Nat, receipts : Seq(Nat), final : Nat]
    BY <2>1, <2>2, <2>3
  <2> QED BY <2>4, <2>5
<1>4. BatchTypes'
  BY <1>2, <1>3 DEF BatchInv, BatchTypes, At, LedgersGrow
<1>5. ReceiptsInv' /\ ProgressInv'
  BY <1>3 DEF ReceiptsInv, ProgressInv, At, Open, Complete
<1> QED BY <1>2, <1>4, <1>5 DEF BatchInv

-----------------------------------------------------------------------------
(* Mechanism evidence                                                      *)

\* What a graded batch left on its ledger, and what may have followed.
Filed(b) ==
  /\ b.ledger \in DOMAIN ledgers /\ b.boundary \in Nat
  /\ b.tail = b.boundary + RequiredAttempts /\ b.tail <= LedgerTail(b.ledger)
  /\ \A cell \in Cells :
       LET outcome == ledgers[b.ledger].outcomes[b.boundary + cell]
       IN  /\ outcome.owner = b.schedule /\ outcome.cell = cell
           /\ outcome.disposition = "SETTLED"

Moved(b) == LedgerTail(b.ledger) > b.tail \/ ledgers[b.ledger].pending # Nobody

\* The batches of a verification: those replayed are on ledgers of their own,
\* and unless there was an instant at which all stood, one that is still to be
\* looked at has moved and will not be found in place.
VerificationInv ==
  /\ mechanism.step \in {"IDLE", "REPLAYING"} \cup Passes
  /\ mechanism.picked \subseteq graded /\ mechanism.looked \subseteq mechanism.picked
  /\ mechanism.step \in {"IDLE", "REPLAYING"} => mechanism.looked = {}
  /\ ~InMechanism("IDLE") => Cardinality(mechanism.picked) = 3
  /\ \A b, c \in mechanism.picked \ mechanism.left : b.ledger = c.ledger => b = c
  /\ mechanism.step \in Passes =>
       /\ mechanism.left = {}
       /\ {b.schedule.kind : b \in mechanism.picked} = Comparisons
       /\ stood \/ \E b \in mechanism.picked \ mechanism.looked : Moved(b)

MechanismTyped ==
  mechanism \in [step : {"IDLE", "REPLAYING"} \cup Passes, picked : SUBSET graded,
                 left : SUBSET graded, live : SUBSET DOMAIN ledgers, looked : SUBSET graded]

FaultInv ==
  /\ BatchInv /\ IsFiniteSet(graded) /\ \A b \in graded : Filed(b)
  /\ MechanismTyped /\ stood \in BOOLEAN /\ VerificationInv /\ EvidenceIsSnapshot

(* A graded batch stands unless something followed it.                      *)
LEMMA StandsOrMoved ==
  ASSUME BatchInv, NEW b, Filed(b) PROVE Stands(b) \/ Moved(b)
<1>1. LedgerTail(b.ledger) \in Nat /\ b.tail \in Nat
  BY LedgerTyped, Constants DEF Filed, BatchInv
<1> QED BY <1>1 DEF Filed, Stands, Moved, LedgerTail

(* What was filed stays, and what has moved does not come back.             *)
LEMMA FiledStays ==
  ASSUME BatchInv, BatchInv', LedgersGrow, NEW b, Filed(b)
  PROVE  Filed(b)' /\ (Moved(b) => Moved(b)')
<1>1. /\ LedgerTail(b.ledger) \in Nat /\ b.tail \in Nat /\ b.ledger \in DOMAIN ledgers
      /\ b.boundary \in Nat /\ RequiredAttempts \in Nat
  BY LedgerTyped, Constants DEF Filed, BatchInv
<1>2. b.ledger \in DOMAIN ledgers' /\ LedgerTail(b.ledger)' >= LedgerTail(b.ledger)
  BY <1>1 DEF LedgersGrow
<1>3. LedgerTail(b.ledger)' \in Nat
  <2>1. ledgers'[b.ledger] \in Ledger
    <3> HIDE DEF Ledger
    <3> QED BY <1>2 DEF LedgersGrow
  <2>2. ledgers'[b.ledger].outcomes \in Seq(OutcomeRecord)
    <3> HIDE DEF OutcomeRecord
    <3> QED BY <2>1 DEF Ledger
  <2> QED BY <2>2 DEF LedgerTail
<1>4. \A cell \in Cells : b.boundary + cell \in 1 .. LedgerTail(b.ledger)
  <2>1. \A cell \in 1 .. RequiredAttempts : b.boundary + cell \in 1 .. LedgerTail(b.ledger)
    BY <1>1 DEF Filed
  <2> QED BY <2>1 DEF Cells, RequiredAttempts
<1>5. \A cell \in Cells : ledgers'[b.ledger].outcomes[b.boundary + cell]
                            = ledgers[b.ledger].outcomes[b.boundary + cell]
  BY <1>1, <1>4 DEF LedgersGrow
<1>6. Filed(b)'
  BY <1>1, <1>2, <1>3, <1>5 DEF Filed
<1>7. ASSUME Moved(b) PROVE Moved(b)'
  <2>1. CASE LedgerTail(b.ledger) > b.tail
    BY <1>1, <1>2, <1>3, <2>1 DEF Moved
  <2>2. CASE ledgers[b.ledger].pending # Nobody
    <3>1. ledgers'[b.ledger] = ledgers[b.ledger] \/ LedgerTail(b.ledger)' > LedgerTail(b.ledger)
      BY <1>1, <2>2 DEF LedgersGrow
    <3> QED BY <1>1, <1>3, <2>2, <3>1 DEF Moved, Filed
  <2> QED BY <1>7, <2>1, <2>2 DEF Moved
<1> QED BY <1>6, <1>7

(* A batch that is graded is filed.                                        *)
LEMMA GradedIsFiled ==
  ASSUME BatchInv, At("TRUSTED"), EventsDerive(batch), NEW b,
         b.ledger = batch.ledger, b.boundary = batch.boundary,
         b.schedule = batch.schedule, b.tail = batch.final
  PROVE  Filed(b)
<1>1. /\ batch.ledger \in DOMAIN ledgers /\ batch.boundary \in Nat
      /\ batch.final = batch.boundary + RequiredAttempts
      /\ batch.final <= LedgerTail(batch.ledger) /\ Received = RequiredAttempts
      /\ batch.receipts \in Seq(Nat)
  BY BatchTyped DEF BatchInv, ProgressInv, At, Complete
<1>2. /\ Accounted(batch.ledger, batch.schedule, batch.boundary, RequiredAttempts)
      /\ \A i \in 1 .. RequiredAttempts : batch.receipts[i] = batch.boundary + i
  BY <1>1 DEF BatchInv, ReceiptsInv, At, Complete
<1>3. DOMAIN batch.receipts = 1 .. RequiredAttempts
  BY <1>1 DEF Received
<1>4. ASSUME NEW cell \in Cells
      PROVE  LET outcome == ledgers[batch.ledger].outcomes[batch.boundary + cell]
             IN  /\ outcome.owner = batch.schedule /\ outcome.cell = cell
                 /\ outcome.disposition = "SETTLED"
  <2>1. PICK i \in 1 .. RequiredAttempts :
          LET outcome == ledgers[batch.ledger].outcomes[batch.receipts[i]]
          IN  ExecutionBinds(batch.schedule, cell, outcome) /\ outcome.disposition = "SETTLED"
    BY <1>3, <1>4 DEF EventsDerive
  <2>2. /\ ledgers[batch.ledger].outcomes[batch.boundary + i].cell = cell
        /\ ledgers[batch.ledger].outcomes[batch.boundary + i].disposition = "SETTLED"
    BY <1>2, <2>1 DEF ExecutionBinds
  <2>3. i = cell
    BY <1>2, <2>2 DEF Accounted
  <2> QED BY <1>2, <2>2, <2>3 DEF Accounted
<1> QED BY <1>1, <1>4 DEF Filed

(* Whatever happens on the ledgers, a verification that goes on is as good  *)
(* as it was: what has moved is not found in place again.                  *)
LEMMA LedgersMoveOn ==
  ASSUME FaultInv, BatchInv', LedgersGrow, Watch, UNCHANGED <<mechanism, evidence>>,
         graded \subseteq graded', IsFiniteSet(graded'), \A b \in graded' : Filed(b)'
  PROVE  FaultInv'
<1>1. stood' \in BOOLEAN /\ (stood => stood')
  <2>1. ~Mark
    BY DEF Mark
  <2>2. stood' = ((stood /\ ~Mark) \/ \A b \in mechanism'.picked : Stands(b)')
    BY DEF Watch
  <2> QED BY <2>1, <2>2
<1>2. \A b \in mechanism.picked : Filed(b) /\ (Moved(b) => Moved(b)')
  <2>1. \A b \in graded : Moved(b) => Moved(b)'
    BY FiledStays DEF FaultInv
  <2> QED BY <2>1 DEF FaultInv, VerificationInv
<1>3. MechanismTyped'
  <2>1. DOMAIN ledgers \subseteq DOMAIN ledgers'
    BY DEF LedgersGrow
  <2> QED BY <2>1 DEF FaultInv, MechanismTyped
<1>4. VerificationInv'
  <2>1. mechanism.step \in Passes =>
          stood' \/ \E b \in mechanism.picked \ mechanism.looked : Moved(b)'
    BY <1>1, <1>2 DEF FaultInv, VerificationInv
  <2> QED BY <2>1 DEF FaultInv, VerificationInv, InMechanism
<1>5. EvidenceIsSnapshot'
  BY DEF FaultInv, EvidenceIsSnapshot
<1> QED BY <1>1, <1>3, <1>4, <1>5 DEF FaultInv

(* When a mark is set, either all ledgers stand or one has moved.           *)
LEMMA MarkedOrMoved ==
  ASSUME FaultInv, Watch, UNCHANGED <<ledgers, batch, foreign, graded>>,
         mechanism'.picked \subseteq graded
  PROVE  /\ stood' \in BOOLEAN
         /\ stood' \/ \E b \in mechanism'.picked : Moved(b)'
         /\ stood /\ ~Mark => stood'
<1>1. stood' = ((stood /\ ~Mark) \/ \A b \in mechanism'.picked : Stands(b)')
  BY DEF Watch
<1>2. \A b \in graded : Stands(b) \/ Moved(b)
  BY StandsOrMoved DEF FaultInv
<1>3. \A b \in graded : Stands(b)' \/ Moved(b)'
  BY <1>2 DEF Stands, Moved, LedgerTail
<1> QED BY <1>1, <1>3

(* Nothing that is filed or graded changes while a verification goes on.    *)
LEMMA VerificationStands ==
  ASSUME FaultInv, UNCHANGED <<ledgers, batch, foreign, graded>>
  PROVE  /\ BatchInv' /\ IsFiniteSet(graded') /\ \A b \in graded' : Filed(b)'
         /\ \A b : Moved(b)' <=> Moved(b)
<1>1. BatchInv'
  BY DEF FaultInv, BatchInv, BatchTypes, WithinBudget, ReceiptsInv, ProgressInv, Accounted,
     LedgerTail, At, Received
<1>2. \A b : (Moved(b)' <=> Moved(b)) /\ (Filed(b)' <=> Filed(b))
  BY DEF Moved, Filed, LedgerTail
<1> QED BY <1>1, <1>2 DEF FaultInv

(* A verification takes its batches, replays them and looks again.          *)
LEMMA MechanismSteps ==
  ASSUME FaultInv, Watch, MechanismStep, UNCHANGED <<batchVars, runtime, graded, evidence>>
  PROVE  FaultInv'
<1> USE DEF InMechanism, Passes
<1>1. /\ UNCHANGED <<ledgers, batch, foreign, graded, evidence>>
      /\ BatchInv' /\ IsFiniteSet(graded') /\ (\A b \in graded' : Filed(b)')
      /\ \A b : Moved(b)' <=> Moved(b)
  BY VerificationStands DEF batchVars
<1>2. EvidenceIsSnapshot'
  BY <1>1 DEF FaultInv, EvidenceIsSnapshot
<1>3. /\ mechanism.picked \subseteq graded /\ mechanism.left \subseteq graded
      /\ mechanism.looked \subseteq graded /\ mechanism.live \subseteq DOMAIN ledgers
  BY DEF FaultInv, MechanismTyped
<1>4. ASSUME MechanismTyped', VerificationInv' PROVE FaultInv'
  <2>1. mechanism'.picked \subseteq graded
    BY <1>1, <1>4 DEF MechanismTyped
  <2>2. stood' \in BOOLEAN
    BY <1>1, <2>1, MarkedOrMoved
  <2> QED BY <1>1, <1>2, <1>4, <2>2 DEF FaultInv
<1>5. NoMechanism \in [step : {"IDLE", "REPLAYING"} \cup Passes, picked : SUBSET graded,
                 left : SUBSET graded, live : SUBSET DOMAIN ledgers, looked : SUBSET graded]
  BY DEF NoMechanism
<1>6. ASSUME NEW picked \in SUBSET graded, NEW alive \in SUBSET DOMAIN ledgers,
             IndexLedgers(picked, alive)
      PROVE  FaultInv'
  <2>1. /\ mechanism' = [step |-> "REPLAYING", picked |-> picked, left |-> picked,
                         live |-> alive, looked |-> {}]
        /\ Cardinality(picked) = 3
    BY <1>6 DEF IndexLedgers, NoMechanism
  <2>2. MechanismTyped'
    BY <1>1, <2>1 DEF MechanismTyped
  <2>3. VerificationInv'
    BY <1>1, <2>1 DEF VerificationInv
  <2> QED BY <1>4, <2>2, <2>3
<1>7. ASSUME NEW b \in graded, ReplayBatch(b) PROVE FaultInv'
  <2>1. /\ mechanism' = [mechanism EXCEPT !.left = mechanism.left \ {b}]
        /\ mechanism.step = "REPLAYING" /\ b \in mechanism.left
        /\ b.ledger \notin {c.ledger : c \in mechanism.picked \ mechanism.left}
    BY <1>7 DEF ReplayBatch
  <2>2. /\ mechanism'.step = "REPLAYING" /\ mechanism'.picked = mechanism.picked
        /\ mechanism'.left = mechanism.left \ {b} /\ mechanism'.looked = mechanism.looked
    BY <2>1 DEF FaultInv, MechanismTyped
  <2>3. MechanismTyped'
    BY <1>1, <1>3, <2>1 DEF FaultInv, MechanismTyped
  <2>4. \A c, d \in mechanism'.picked \ mechanism'.left : c.ledger = d.ledger => c = d
    <3>1. \A c \in mechanism'.picked \ mechanism'.left :
            c = b \/ c \in mechanism.picked \ mechanism.left
      BY <2>2
    <3> QED BY <2>1, <3>1 DEF FaultInv, VerificationInv
  <2>5. VerificationInv'
    BY <1>1, <2>1, <2>2, <2>4 DEF FaultInv, VerificationInv
  <2> QED BY <1>4, <2>3, <2>5
<1>8. ASSUME NEW b \in graded, LookAgain(b) PROVE FaultInv'
  <2>1. /\ mechanism' = [mechanism EXCEPT !.looked = mechanism.looked \cup {b}]
        /\ mechanism.step \in Passes /\ b \in mechanism.picked
        /\ ledgers[b.ledger].pending = Nobody /\ LedgerTail(b.ledger) = b.tail
    BY <1>8 DEF LookAgain
  <2>2. /\ mechanism'.step = mechanism.step /\ mechanism'.picked = mechanism.picked
        /\ mechanism'.left = mechanism.left /\ mechanism'.looked = mechanism.looked \cup {b}
    BY <2>1 DEF FaultInv, MechanismTyped
  <2>3. MechanismTyped'
    BY <1>1, <1>3, <2>1 DEF FaultInv, MechanismTyped
  <2>4. ~Moved(b)
    <3>1. LedgerTail(b.ledger) \in Nat
      BY LedgerTyped DEF FaultInv, Filed, BatchInv
    <3> QED BY <2>1, <3>1 DEF Moved
  <2>5. stood' \/ \E c \in mechanism'.picked \ mechanism'.looked : Moved(c)'
    <3>1. ~Mark
      BY <2>2 DEF Mark
    <3>2. stood => stood'
      BY <1>1, <1>3, <2>2, <3>1, MarkedOrMoved
    <3>3. stood \/ \E c \in mechanism.picked \ mechanism.looked : Moved(c)
      BY <2>1 DEF FaultInv, VerificationInv
    <3> QED BY <1>1, <2>2, <2>4, <3>2, <3>3
  <2>6. VerificationInv'
    BY <1>1, <2>1, <2>2, <2>5 DEF FaultInv, VerificationInv
  <2> QED BY <1>4, <2>3, <2>6
<1>9. ASSUME AllReplayed PROVE FaultInv'
  <2>1. /\ mechanism' = [mechanism EXCEPT !.step = "REPLAYED"]
        /\ mechanism.step = "REPLAYING" /\ mechanism.left = {}
        /\ {b.schedule.kind : b \in mechanism.picked} = Comparisons
    BY <1>9 DEF AllReplayed
  <2>2. /\ mechanism'.step = "REPLAYED" /\ mechanism'.picked = mechanism.picked
        /\ mechanism'.left = {} /\ mechanism'.looked = {}
    BY <2>1 DEF FaultInv, MechanismTyped, VerificationInv
  <2>3. MechanismTyped'
    BY <1>1, <1>3, <2>1 DEF FaultInv, MechanismTyped
  <2>4. stood' \/ \E b \in mechanism'.picked \ mechanism'.looked : Moved(b)'
    BY <1>1, <1>3, <2>2, MarkedOrMoved
  <2>5. VerificationInv'
    BY <1>1, <2>1, <2>2, <2>4 DEF FaultInv, VerificationInv
  <2> QED BY <1>4, <2>3, <2>5
<1>10. ASSUME SummarizeEvents PROVE FaultInv'
  <2>1. /\ mechanism' = [mechanism EXCEPT !.step = "SUMMARIZED", !.looked = {}]
        /\ mechanism.step = "REPLAYED" /\ mechanism.looked = mechanism.picked
    BY <1>10 DEF SummarizeEvents, PassEnds
  <2>2. /\ mechanism'.step = "SUMMARIZED" /\ mechanism'.picked = mechanism.picked
        /\ mechanism'.left = mechanism.left /\ mechanism'.looked = {}
    BY <2>1 DEF FaultInv, MechanismTyped
  <2>3. MechanismTyped'
    BY <1>1, <1>3, <2>1 DEF FaultInv, MechanismTyped
  <2>4. stood'
    <3>1. stood
      BY <2>1 DEF FaultInv, VerificationInv
    <3>2. ~Mark
      BY <2>2 DEF Mark
    <3> QED BY <1>1, <1>3, <2>2, <3>1, <3>2, MarkedOrMoved
  <2>5. VerificationInv'
    BY <1>1, <2>1, <2>2, <2>4 DEF FaultInv, VerificationInv
  <2> QED BY <1>4, <2>3, <2>5
<1>11. ASSUME MechanismRaises PROVE FaultInv'
  <2>1. mechanism' = NoMechanism
    BY <1>11 DEF MechanismRaises
  <2>2. MechanismTyped'
    BY <1>1, <1>5, <2>1 DEF MechanismTyped
  <2>3. VerificationInv'
    BY <2>1 DEF VerificationInv, NoMechanism
  <2> QED BY <1>4, <2>2, <2>3
<1> QED BY <1>6, <1>7, <1>8, <1>9, <1>10, <1>11 DEF MechanismStep

(* Three batches on ledgers of their own are on three ledgers.              *)
LEMMA ThreeLedgers ==
  ASSUME NEW S, IsFiniteSet(S), Cardinality(S) = 3,
         \A b, c \in S : b.ledger = c.ledger => b = c
  PROVE  Cardinality({b.ledger : b \in S}) = 3
<1> DEFINE place == [b \in S |-> b.ledger]  places == {b.ledger : b \in S}
<1>1. place \in Bijection(S, places)
  BY DEF Bijection, Injection, Surjection, IsInjective
<1>2. ExistsBijection(S, places)
  BY <1>1 DEF ExistsBijection
<1> QED BY <1>2, FS_Bijection

(* A pass that ends has found every ledger in place: what is published then *)
(* is one picture.                                                         *)
LEMMA PublishedStands ==
  ASSUME FaultInv, mechanism.step \in Passes, mechanism.looked = mechanism.picked
  PROVE  /\ stood
         /\ {b.schedule.kind : b \in mechanism.picked} = Comparisons
         /\ Cardinality({b.ledger : b \in mechanism.picked}) = 3
<1>1. /\ stood /\ mechanism.left = {} /\ Cardinality(mechanism.picked) = 3
      /\ {b.schedule.kind : b \in mechanism.picked} = Comparisons
      /\ \A b, c \in mechanism.picked : b.ledger = c.ledger => b = c
  BY DEF FaultInv, VerificationInv, InMechanism, Passes
<1>2. IsFiniteSet(mechanism.picked)
  BY FS_Subset DEF FaultInv, VerificationInv
<1> QED BY <1>1, <1>2, ThreeLedgers

(* Evidence is stored and returned behind a pass that ended.               *)
LEMMA PublishSteps ==
  ASSUME FaultInv, Watch, UNCHANGED <<batchVars, runtime, graded>>,
         \/ StoreEvidence /\ Publish("STORED")
         \/ ReturnEvidence /\ Publish("RETURNED")
  PROVE  FaultInv'
<1> USE DEF InMechanism, Passes
<1>1. /\ UNCHANGED <<ledgers, batch, foreign, graded>>
      /\ BatchInv' /\ IsFiniteSet(graded') /\ (\A b \in graded' : Filed(b)')
      /\ \A b : Moved(b)' <=> Moved(b)
  BY VerificationStands DEF batchVars
<1>2. mechanism.step \in Passes /\ mechanism.looked = mechanism.picked
  BY DEF StoreEvidence, ReturnEvidence, PassEnds
<1>3. /\ stood /\ {b.schedule.kind : b \in mechanism.picked} = Comparisons
      /\ Cardinality({b.ledger : b \in mechanism.picked}) = 3
  BY <1>2, PublishedStands
<1>4. PICK stage \in {"STORED", "RETURNED"} :
         evidence' = evidence \cup {[stage |-> stage, picked |-> mechanism.picked, stood |-> stood]}
  BY DEF Publish
<1>5. EvidenceIsSnapshot'
  <2>1. PICK new : new = [stage |-> stage, picked |-> mechanism.picked, stood |-> stood]
    OBVIOUS
  <2>2. new.stood = stood /\ new.picked = mechanism.picked
    BY <2>1
  <2>3. stood = TRUE
    BY <1>3 DEF FaultInv
  <2>4. /\ new.stood /\ {b.schedule.kind : b \in new.picked} = Comparisons
        /\ Cardinality({b.ledger : b \in new.picked}) = 3
    BY <1>3, <2>2, <2>3
  <2>5. evidence' = evidence \cup {new}
    BY <1>4, <2>1
  <2> QED BY <2>4, <2>5, Zenon DEF FaultInv, EvidenceIsSnapshot
<1>6. CASE StoreEvidence
  <2>1. mechanism' = [mechanism EXCEPT !.step = "STORED", !.looked = {}]
    BY <1>6 DEF StoreEvidence, PassEnds
  <2>2. /\ mechanism'.step = "STORED" /\ mechanism'.picked = mechanism.picked
        /\ mechanism'.left = mechanism.left /\ mechanism'.looked = {}
    BY <2>1 DEF FaultInv, MechanismTyped
  <2>3. MechanismTyped'
    BY <1>1, <2>1 DEF FaultInv, MechanismTyped
  <2>4. /\ stood' \in BOOLEAN
        /\ stood' \/ \E b \in mechanism'.picked \ mechanism'.looked : Moved(b)'
    <3>1. mechanism'.picked \subseteq graded
      BY <2>2 DEF FaultInv, VerificationInv
    <3> QED BY <1>1, <2>2, <3>1, MarkedOrMoved
  <2>5. VerificationInv'
    BY <1>1, <1>2, <2>2, <2>4 DEF FaultInv, VerificationInv
  <2> QED BY <1>1, <1>5, <2>3, <2>4, <2>5 DEF FaultInv
<1>7. CASE ReturnEvidence
  <2>1. mechanism' = NoMechanism
    BY <1>7 DEF ReturnEvidence
  <2>2. MechanismTyped'
    BY <2>1 DEF MechanismTyped, NoMechanism
  <2>3. stood' \in BOOLEAN
    BY <1>1, <2>1, MarkedOrMoved DEF NoMechanism
  <2>4. VerificationInv'
    BY <2>1 DEF VerificationInv, NoMechanism
  <2> QED BY <1>1, <1>5, <2>2, <2>3, <2>4 DEF FaultInv
<1> QED BY <1>6, <1>7

(* A comparison is opened, run, given up or graded.                         *)
LEMMA ComparisonSteps ==
  ASSUME FaultInv, FaultNext,
         \/ \E schedule \in FaultSchedules : OpenComparison(schedule)
         \/ \E used \in Usages : RuntimeReturns(used)
         \/ RestartRuntime \/ ComparisonRaises \/ ComparisonStep \/ GradeBatch,
         UNCHANGED <<mechanism, evidence>>, GradeBatch \/ UNCHANGED graded
  PROVE  FaultInv'
<1>1. BatchInv /\ Watch /\ IsFiniteSet(graded) /\ \A b \in graded : Filed(b)
  BY DEF FaultInv, FaultNext
<1>2. BatchInv' /\ LedgersGrow
  <2>1. ASSUME NEW schedule \in FaultSchedules, OpenComparison(schedule)
        PROVE  BatchInv' /\ LedgersGrow
    <3>1. PICK l \in 1 .. Len(ledgers) + 1, budget \in Budgets :
            /\ \/ l \in DOMAIN ledgers /\ ledgers' = ledgers
               \/ l \notin DOMAIN ledgers /\ ledgers' = Append(ledgers, OpenLedger(budget))
            /\ batch' = OpenedBatch("FRESH", l, schedule)
      BY <2>1 DEF OpenComparison, OpenedBatch
    <3>2. schedule \in Schedules /\ UNCHANGED foreign
      BY <2>1, FaultAssumption DEF FaultAssumption, OpenComparison
    <3> QED BY <1>1, <3>1, <3>2, OpenStep
  <2>2. ASSUME NEW used \in Usages, RuntimeReturns(used) PROVE BatchInv' /\ LedgersGrow
    BY <1>1, <2>2, CallSteps DEF RuntimeReturns
  <2>3. CASE RestartRuntime
    <3>1. UNCHANGED <<ledgers, batch, foreign>>
      BY <2>3 DEF RestartRuntime, batchVars
    <3>2. UNCHANGED <<ledgers, batch, foreign, graded>> => BatchInv'
      BY VerificationStands
    <3>3. BatchInv'
      BY <1>1, <3>1 DEF BatchInv, BatchTypes, WithinBudget, ReceiptsInv, ProgressInv,
         Accounted, LedgerTail, At, Received
    <3> QED BY <1>1, <3>1, <3>3, NothingGrows DEF BatchInv
  <2>4. CASE ComparisonRaises \/ GradeBatch
    BY <1>1, <2>4, GiveUp DEF ComparisonRaises, GradeBatch, Calm
  <2>5. CASE ComparisonStep
    BY <1>1, <2>5, BatchStep DEF ComparisonStep, BatchNext
  <2>6. CASE \E schedule \in FaultSchedules : OpenComparison(schedule)
    BY <2>1, <2>6
  <2>7. CASE \E used \in Usages : RuntimeReturns(used)
    BY <2>2, <2>7
  <2> QED BY <2>3, <2>4, <2>5, <2>6, <2>7
<1>3. \A b \in graded : Filed(b)'
  BY <1>1, <1>2, FiledStays
<1>4. graded \subseteq graded' /\ IsFiniteSet(graded') /\ \A b \in graded' : Filed(b)'
  <2>1. CASE UNCHANGED graded
    BY <1>1, <1>3, <2>1
  <2>2. CASE GradeBatch
    <3> DEFINE b == [schedule |-> batch.schedule, ledger |-> batch.ledger,
                     boundary |-> batch.boundary, receipts |-> batch.receipts,
                     tail |-> batch.final]
    <3>1. At("TRUSTED") /\ EventsDerive(batch) /\ graded' = graded \cup {b}
      BY <2>2 DEF GradeBatch, Gradable
    <3>2. PICK filed : filed = b
      OBVIOUS
    <3>3. /\ filed.ledger = batch.ledger /\ filed.boundary = batch.boundary
          /\ filed.schedule = batch.schedule /\ filed.tail = batch.final
      BY <3>2
    <3>4. Filed(filed)
      BY <1>1, <3>1, <3>3, GradedIsFiled
    <3>5. Filed(filed)'
      BY <1>1, <1>2, <3>4, FiledStays
    <3>6. graded' = graded \cup {filed}
      BY <3>1, <3>2
    <3>7. IsFiniteSet(graded')
      BY <1>1, <3>6, FS_AddElement
    <3> HIDE DEF b
    <3> QED BY <1>3, <3>5, <3>6, <3>7
  <2> QED BY <2>1, <2>2
<1> QED BY <1>1, <1>2, <1>4, LedgersMoveOn

(* No batch and no verification has begun.                                 *)
LEMMA FaultStart == FaultInit => FaultInv
<1> SUFFICES ASSUME FaultInit PROVE FaultInv
  OBVIOUS
<1>1. /\ ledgers = <<>> /\ batch = NoBatch /\ foreign = 0 /\ graded = {} /\ evidence = {}
      /\ mechanism = NoMechanism /\ stood = FALSE
  BY DEF FaultInit, BatchInit
<1>2. BatchInv
  <2>1. BatchTypes
    BY <1>1, Constants DEF BatchTypes, NoBatch, BatchSteps, At
  <2> QED BY <1>1, <2>1 DEF BatchInv, WithinBudget, ReceiptsInv, ProgressInv, NoBatch, At, Open, Complete
<1>3. IsFiniteSet(graded)
  BY <1>1, FS_EmptySet
<1>4. VerificationInv /\ MechanismTyped
  BY <1>1 DEF VerificationInv, MechanismTyped, NoMechanism, InMechanism, Passes
<1> QED BY <1>1, <1>2, <1>3, <1>4 DEF FaultInv, EvidenceIsSnapshot

(* The invariant of the batches, of what was graded and of the verification.*)
LEMMA FaultInvariant == FaultSpec => []FaultInv
<1>1. FaultInv /\ [FaultNext]_faultVars => FaultInv'
  <2> SUFFICES ASSUME FaultInv, [FaultNext]_faultVars PROVE FaultInv'
    OBVIOUS
  <2>1. CASE UNCHANGED faultVars
    <3>1. UNCHANGED <<batchVars, graded>> /\ UNCHANGED <<mechanism, stood, evidence>>
      BY <2>1 DEF faultVars
    <3>2. /\ UNCHANGED <<ledgers, batch, foreign, graded>>
          /\ BatchInv' /\ IsFiniteSet(graded') /\ (\A b \in graded' : Filed(b)')
          /\ \A b : Moved(b)' <=> Moved(b)
      BY <3>1, VerificationStands DEF batchVars, FaultInv
    <3>3. MechanismTyped' /\ stood' \in BOOLEAN
      BY <3>1, <3>2 DEF FaultInv, MechanismTyped
    <3>4. EvidenceIsSnapshot'
      BY <3>1, Zenon DEF FaultInv, EvidenceIsSnapshot
    <3>5. VerificationInv'
      BY <3>1, <3>2 DEF FaultInv, VerificationInv, InMechanism
    <3> QED BY <3>2, <3>3, <3>4, <3>5 DEF FaultInv
  <2>2. CASE FaultNext
    <3>1. Watch
      BY <2>2 DEF FaultNext
    <3>2. CASE MechanismStep /\ UNCHANGED <<batchVars, runtime, graded, evidence>>
      BY <3>1, <3>2, MechanismSteps
    <3>3. CASE \/ StoreEvidence /\ Publish("STORED") /\ UNCHANGED <<batchVars, runtime, graded>>
               \/ ReturnEvidence /\ Publish("RETURNED") /\ UNCHANGED <<batchVars, runtime, graded>>
      BY <3>1, <3>3, PublishSteps
    <3>4. CASE /\ \E l \in DOMAIN ledgers : ForeignReserve(l) \/ ForeignConsume(l)
               /\ UNCHANGED <<runtime, graded, mechanism, evidence>>
      <4>1. BatchInv' /\ LedgersGrow
        BY <3>4, ForeignStep DEF FaultInv
      <4>2. \A b \in graded' : Filed(b)'
        BY <3>4, <4>1, FiledStays DEF FaultInv
      <4>3. graded \subseteq graded' /\ IsFiniteSet(graded') /\ UNCHANGED <<mechanism, evidence>>
        BY <3>4 DEF FaultInv
      <4> QED BY <3>1, <4>1, <4>2, <4>3, LedgersMoveOn
    <3>5. CASE GradeBatch /\ UNCHANGED <<mechanism, evidence>>
      BY <2>2, <3>5, ComparisonSteps
    <3>6. CASE /\ \/ \E schedule \in FaultSchedules : OpenComparison(schedule)
                  \/ \E used \in Usages : RuntimeReturns(used)
                  \/ RestartRuntime \/ ComparisonRaises
                  \/ ComparisonStep /\ UNCHANGED runtime
               /\ UNCHANGED <<graded, mechanism, evidence>>
      BY <2>2, <3>6, ComparisonSteps
    <3> QED BY <2>2, <3>2, <3>3, <3>4, <3>5, <3>6 DEF FaultNext
  <2> QED BY <2>1, <2>2
<1> QED BY <1>1, FaultStart, PTL DEF FaultSpec

(* Mechanism evidence taken ledger by ledger is one picture, for any number *)
(* of comparisons and attempts of others (mechanism verification of the    *)
(* harness-fault slice, reverify_live_ledger_tails).                       *)
THEOREM EvidenceIsOnePicture == FaultSpec => []EvidenceIsSnapshot
<1>1. FaultInv => EvidenceIsSnapshot
  BY DEF FaultInv
<1> QED BY FaultInvariant, <1>1, PTL

\* A step that leaves a batch trusted found it so, or certified its usage.
TrustedOnlyThere == batch'.step = "TRUSTED" => At("TRUSTED") \/ TrustUsage

\* What TrustedUsageIsExact says of a step.
ExactStep ==
  ~At("TRUSTED") /\ batch'.step = "TRUSTED" =>
       LET ledger == ledgers'[batch'.ledger]
       IN  /\ ledger.pending = Nobody
           /\ Len(ledger.outcomes) = batch'.boundary + RequiredAttempts
           /\ \A cell \in Cells :
                /\ ledger.outcomes[batch'.boundary + cell].owner = batch'.schedule
                /\ ledger.outcomes[batch'.boundary + cell].cell = cell

(* Only replay_trusted_usage certifies usage.                               *)
LEMMA BatchNextTrusts ==
  ASSUME BatchTypes, BatchNext PROVE TrustedOnlyThere
<1>1. batch \in [step : BatchSteps, schedule : Schedules \cup {Nobody}, ledger : Nat,
                boundary : Nat, expected : Nat, receipts : Seq(Nat), final : Nat]
  BY DEF BatchTypes
<1>2. \A step \in STRING : batch' = [batch EXCEPT !.step = step] => batch'.step = step
  BY <1>1
<1> QED BY <1>1, <1>2 DEF BatchNext, TrustedOnlyThere, Certify, ReadTail, AuthorizeAttempt,
     ReserveCell, ReturnRecord, LoseRecord, PublishReceipt, BeginReplay, ForeignReserve,
     ForeignConsume, Goto, At

-----------------------------------------------------------------------------
(* Usage is exact in both studies                                          *)

(* A step of the batch runner that certifies usage certifies exact usage.   *)
LEMMA TrustedSteps ==
  ASSUME BatchInv, TrustedOnlyThere PROVE ExactStep
BY TrustIsExact DEF ExactStep, TrustedOnlyThere

(* Usage that replay_trusted_usage certifies for a harness comparison is    *)
(* exact, whoever else holds the ledger (execution/receipts.py).            *)
THEOREM ComparedUsageIsExact == FaultSpec => TrustedUsageIsExact
<1>1. FaultInv => BatchTypes
  BY DEF FaultInv, BatchInv
<1>2. ASSUME FaultInv, [FaultNext]_faultVars PROVE [ExactStep]_batchVars
  <2>1. BatchInv
    BY <1>2 DEF FaultInv
  <2>2. CASE UNCHANGED batchVars
    BY <2>2
  <2>3. CASE batch' = NoBatch
    BY <2>3 DEF ExactStep, NoBatch
  <2>4. CASE BatchNext
    BY <2>1, <2>4, BatchNextTrusts, TrustedSteps DEF BatchInv
  <2>5. ASSUME NEW schedule \in FaultSchedules, OpenComparison(schedule) PROVE ExactStep
    BY <2>5 DEF OpenComparison, ExactStep, NoBatch
  <2>6. \/ UNCHANGED batchVars \/ batch' = NoBatch \/ BatchNext
        \/ \E schedule \in FaultSchedules : OpenComparison(schedule)
    BY <1>2 DEF faultVars, FaultNext, GradeBatch, ComparisonRaises, ComparisonStep, RuntimeReturns,
       RestartRuntime, BatchNext
  <2> QED BY <2>2, <2>3, <2>4, <2>5, <2>6
<1>3. FaultInv /\ [FaultNext]_faultVars => [ExactStep]_batchVars
  BY <1>2
<1>4. FaultSpec => [][ExactStep]_batchVars
  BY FaultInvariant, <1>3, PTL DEF FaultSpec
<1> QED BY <1>4, PTL DEF TrustedUsageIsExact, ExactStep

-----------------------------------------------------------------------------
(* The GATE study                                                          *)

Result == [schedule : GateSchedules, ledger : Nat, boundary : Nat, receipts : Seq(Nat)]

GateTyped ==
  /\ gate = [step |-> gate.step, plan |-> gate.plan, boundary |-> gate.boundary,
             execution |-> gate.execution, since |-> gate.since,
             results |-> gate.results, reports |-> gate.reports]
  /\ gate.step \in {"IDLE", "CONDITION", "BATCH", "CLOSED", "FAILED"}
  /\ gate.results \in Seq(Seq(Result))
  /\ \E Reports : gate.reports \in Seq(Reports)

\* A batch that was signed filled a ledger made for it: nothing fits behind it.
Paid(result) ==
  /\ result.ledger \in DOMAIN ledgers
  /\ ledgers[result.ledger].budget = RequiredAttempts
  /\ Len(result.receipts) = RequiredAttempts
  /\ \A i \in 1 .. RequiredAttempts : result.receipts[i] = i
  /\ Accounted(result.ledger, result.schedule, 0, RequiredAttempts)

IsSettled(result) ==
  \A cell \in Cells : ledgers[result.ledger].outcomes[cell].disposition = "SETTLED"

ResultsPaid ==
  \A k \in 1 .. Len(gate.results) : \A s \in 1 .. Len(gate.results[k]) :
    /\ Paid(gate.results[k][s])
    /\ gate.results[k][s].schedule = [kind |-> Kinds[k], seed |-> s]

OwnLedgers ==
  \A k, j \in 1 .. Len(gate.results) :
    \A s \in 1 .. Len(gate.results[k]), t \in 1 .. Len(gate.results[j]) :
      gate.results[k][s].ledger = gate.results[j][t].ledger => k = j /\ s = t

\* Conditions are run in order, and a report is of one settled batch per seed.
Shape ==
  /\ Len(gate.results) <= Len(Kinds) /\ Len(gate.reports) <= Len(gate.results)
  /\ GateAt("IDLE") => gate.results = <<>>
  /\ gate.step \in {"CONDITION", "CLOSED"} => Len(gate.results) = Len(gate.reports)
  /\ GateAt("BATCH") => Len(gate.results) = Len(gate.reports) + 1
  /\ GateAt("CLOSED") => Len(gate.reports) = Len(Kinds)
  /\ \A k \in 1 .. Len(gate.reports) :
       /\ Len(gate.results[k]) = Seeds
       /\ \A s \in 1 .. Seeds : IsSettled(gate.results[k][s])

\* A batch is of the condition and the seed whose turn it is, and once its
\* ledger was found fresh no other batch has it.
BatchBelongs ==
  ~At("NONE") =>
    /\ GateAt("BATCH") /\ CurrentSeed <= Seeds
    /\ batch.schedule = [kind |-> CurrentKind, seed |-> CurrentSeed]
    /\ ~At("HANDED") =>
         /\ ledgers[batch.ledger].budget = RequiredAttempts
         /\ \A k \in 1 .. Len(gate.results) : \A s \in 1 .. Len(gate.results[k]) :
              gate.results[k][s].ledger # batch.ledger

GateInv ==
  BatchInv /\ GateTyped /\ ResultsPaid /\ OwnLedgers /\ Shape /\ BatchBelongs

(* What the constants of the study are.                                    *)
LEMMA GateConstants ==
  /\ Seeds \in Nat \ {0} /\ Len(Kinds) \in Nat /\ DOMAIN Kinds = 1 .. Len(Kinds)
  /\ \A k \in 1 .. Len(Kinds) : \A s \in 1 .. Seeds :
       [kind |-> Kinds[k], seed |-> s] \in GateSchedules
  /\ GateSchedules \subseteq Schedules
<1>1. /\ Kinds \in Seq(ToSet(Kinds)) /\ Seeds \in Nat \ {0} /\ GateSchedules \subseteq Schedules
  BY GateAssumption DEF GateAssumption
<1>2. Len(Kinds) \in Nat /\ DOMAIN Kinds = 1 .. Len(Kinds)
      /\ \A k \in 1 .. Len(Kinds) : Kinds[k] \in ToSet(Kinds)
  BY <1>1
<1> QED BY <1>1, <1>2 DEF GateSchedules

(* A full ledger stays as it is: what was paid there stays paid.           *)
LEMMA PaidStays ==
  ASSUME BatchInv, BatchInv', LedgersGrow, NEW result, Paid(result)
  PROVE  /\ Paid(result)' /\ (IsSettled(result) => IsSettled(result)')
         /\ LedgerTail(result.ledger) = RequiredAttempts
<1>1. /\ result.ledger \in DOMAIN ledgers /\ RequiredAttempts \in Nat
      /\ ledgers[result.ledger].budget = RequiredAttempts
      /\ Accounted(result.ledger, result.schedule, 0, RequiredAttempts)
      /\ LedgerTail(result.ledger) \in Nat
  BY LedgerTyped, Constants DEF Paid, BatchInv
<1>2. LedgerTail(result.ledger) = RequiredAttempts
  BY <1>1 DEF BatchInv, WithinBudget, Accounted
<1>3. Accounted(result.ledger, result.schedule, 0, RequiredAttempts)'
  BY <1>1, AccountedStays DEF BatchInv
<1>4. Paid(result)'
  BY <1>1, <1>3 DEF Paid, LedgersGrow
<1>5. \A cell \in 1 .. RequiredAttempts :
        ledgers'[result.ledger].outcomes[cell] = ledgers[result.ledger].outcomes[cell]
  BY <1>1, <1>2 DEF LedgersGrow
<1>6. IsSettled(result) => IsSettled(result)'
  BY <1>5 DEF IsSettled, Cells, RequiredAttempts
<1> QED BY <1>2, <1>4, <1>6

(* The batches of the study and the place of the next one.                 *)
LEMMA GateRead ==
  ASSUME GateTyped
  PROVE  /\ Len(gate.results) \in Nat /\ Len(gate.reports) \in Nat
         /\ DOMAIN gate.results = 1 .. Len(gate.results)
         /\ \A k \in 1 .. Len(gate.results) :
              /\ gate.results[k] \in Seq(Result) /\ Len(gate.results[k]) \in Nat
              /\ DOMAIN gate.results[k] = 1 .. Len(gate.results[k])
              /\ \A s \in 1 .. Len(gate.results[k]) : gate.results[k][s] \in Result
         /\ CurrentSeed = Len(gate.results[Len(gate.results)]) + 1
<1> HIDE DEF Result
<1>1. gate.results \in Seq(Seq(Result)) /\ Len(gate.reports) \in Nat
  BY DEF GateTyped
<1>2. \A k \in 1 .. Len(gate.results) : gate.results[k] \in Seq(Result)
  BY <1>1
<1> QED BY <1>1, <1>2 DEF CurrentSeed, Last

(* The ledgers move on beside the study.                                   *)
LEMMA GateGrowth ==
  ASSUME GateInv, BatchInv', LedgersGrow, UNCHANGED gate, BatchBelongs' PROVE GateInv'
<1>1. ResultsPaid'
  BY PaidStays DEF GateInv, ResultsPaid
<1>2. Shape'
  <2>1. \A k \in 1 .. Len(gate.reports) : \A s \in 1 .. Seeds :
          Paid(gate.results[k][s]) /\ IsSettled(gate.results[k][s])
    <3>1. /\ Len(gate.reports) <= Len(gate.results) /\ Len(gate.reports) \in Nat
          /\ Len(gate.results) \in Nat
      BY GateRead DEF GateInv, Shape
    <3>2. 1 .. Len(gate.reports) \subseteq 1 .. Len(gate.results)
      BY <3>1
    <3> QED BY <3>2 DEF GateInv, ResultsPaid, Shape
  <2>2. \A k \in 1 .. Len(gate.reports) : \A s \in 1 .. Seeds : IsSettled(gate.results[k][s])'
    BY <2>1, PaidStays DEF GateInv
  <2> QED BY <2>2 DEF GateInv, Shape, GateAt
<1>3. GateTyped' /\ OwnLedgers'
  BY DEF GateInv, GateTyped, OwnLedgers
<1> QED BY <1>1, <1>2, <1>3 DEF GateInv

\* A step of the batch runner is one of the batch it is running.
BatchKeeps ==
  /\ batch'.schedule = batch.schedule /\ batch'.ledger = batch.ledger
  /\ batch'.step = "NONE" <=> At("NONE")
  /\ At("HANDED") => batch'.step = "HANDED"

(* The batch runner neither changes its schedule nor its ledger.           *)
LEMMA RunnerKeeps ==
  ASSUME BatchTypes, BatchNext PROVE BatchKeeps
<1>1. batch \in [step : BatchSteps, schedule : Schedules \cup {Nobody}, ledger : Nat,
                boundary : Nat, expected : Nat, receipts : Seq(Nat), final : Nat]
  BY DEF BatchTypes
<1>2. \A step \in STRING : batch' = [batch EXCEPT !.step = step] =>
        /\ batch'.schedule = batch.schedule /\ batch'.ledger = batch.ledger
        /\ batch'.step = step
  BY <1>1
<1>3. CASE UNCHANGED batch
  BY <1>3 DEF BatchKeeps, At
<1>4. CASE Certify \/ ReadTail \/ PublishReceipt \/ BeginReplay
  BY <1>1, <1>4 DEF BatchKeeps, Certify, ReadTail, PublishReceipt, BeginReplay, At
<1>5. CASE AuthorizeAttempt \/ ReserveCell \/ LoseRecord \/ TrustUsage
  <2>1. PICK step \in {"AUTHORIZED", "CALLING", "FAILED", "TRUSTED"} :
          batch' = [batch EXCEPT !.step = step]
    BY <1>5 DEF AuthorizeAttempt, ReserveCell, LoseRecord, TrustUsage, Goto
  <2>2. ~At("HANDED") /\ ~At("NONE")
    BY <1>5 DEF AuthorizeAttempt, ReserveCell, LoseRecord, TrustUsage, At
  <2> QED BY <1>2, <2>1, <2>2 DEF BatchKeeps
<1>6. ASSUME NEW used \in Usages, ReturnRecord(used) PROVE BatchKeeps
  BY <1>1, <1>6 DEF BatchKeeps, ReturnRecord, At
<1> QED BY <1>3, <1>4, <1>5, <1>6 DEF BatchNext, ForeignReserve, ForeignConsume

(* The batch runner and others take a step.                                *)
LEMMA GateBatchStep ==
  ASSUME GateInv, BatchNext, UNCHANGED gate PROVE GateInv'
<1>1. BatchInv' /\ LedgersGrow /\ BatchKeeps
  BY BatchStep, RunnerKeeps DEF GateInv, BatchInv
<1>2. BatchBelongs'
  <2> SUFFICES ASSUME batch'.step # "NONE" PROVE BatchBelongs'
    BY DEF BatchBelongs, At
  <2>1. /\ ~At("NONE") /\ GateAt("BATCH") /\ CurrentSeed <= Seeds
        /\ batch.schedule = [kind |-> CurrentKind, seed |-> CurrentSeed]
        /\ batch.ledger \in DOMAIN ledgers
    BY <1>1, BatchTyped DEF GateInv, BatchInv, BatchBelongs, BatchKeeps
  <2>2. /\ GateAt("BATCH")' /\ CurrentSeed' = CurrentSeed /\ CurrentKind' = CurrentKind
    BY <2>1 DEF GateAt, CurrentSeed, CurrentKind
  <2>3. batch'.schedule = batch.schedule /\ batch'.ledger = batch.ledger
    BY <1>1 DEF BatchKeeps
  <2>4. ledgers'[batch.ledger].budget = ledgers[batch.ledger].budget
    BY <1>1, <2>1 DEF LedgersGrow
  <2>5. batch'.step # "HANDED" => ~At("HANDED")
    BY <1>1 DEF BatchKeeps
  <2> QED BY <2>1, <2>2, <2>3, <2>4, <2>5 DEF GateInv, BatchBelongs, At
<1> QED BY <1>1, <1>2, GateGrowth

(* A ledger that is found fresh belongs to no batch yet.                    *)
LEMMA FreshStep ==
  ASSUME GateInv, RequireFresh PROVE GateInv'
<1>1. /\ At("HANDED") /\ batch' = [batch EXCEPT !.step = "FRESH"]
      /\ UNCHANGED <<ledgers, foreign, gate>>
      /\ ledgers[batch.ledger].outcomes = <<>>
      /\ ledgers[batch.ledger].budget = RequiredAttempts
  BY DEF RequireFresh, Goto, Calm
<1>2. batch \in [step : BatchSteps, schedule : Schedules \cup {Nobody}, ledger : Nat,
                boundary : Nat, expected : Nat, receipts : Seq(Nat), final : Nat]
  BY DEF GateInv, BatchInv, BatchTypes
<1>3. /\ batch'.step = "FRESH" /\ batch'.receipts = batch.receipts
      /\ batch'.schedule = batch.schedule /\ batch'.ledger = batch.ledger
      /\ batch' \in [step : BatchSteps, schedule : Schedules \cup {Nobody}, ledger : Nat,
                boundary : Nat, expected : Nat, receipts : Seq(Nat), final : Nat]
  BY <1>1, <1>2 DEF BatchSteps
<1>4. BatchTypes'
  BY <1>1, <1>3 DEF GateInv, BatchInv, BatchTypes, At
<1>5. WithinBudget' /\ ReceiptsInv' /\ ProgressInv'
  BY <1>1, <1>3 DEF GateInv, BatchInv, WithinBudget, ReceiptsInv, ProgressInv, LedgerTail, At,
     Open, Complete
<1>6. LedgersGrow
  BY <1>1, NothingGrows DEF GateInv, BatchInv
<1>7. \A k \in 1 .. Len(gate.results) : \A s \in 1 .. Len(gate.results[k]) :
        gate.results[k][s].ledger # batch.ledger
  <2>1. LedgerTail(batch.ledger) = 0
    BY <1>1 DEF LedgerTail
  <2>2. BatchInv' /\ RequiredAttempts # 0
    BY <1>4, <1>5, Constants DEF BatchInv
  <2>3. \A result : Paid(result) => LedgerTail(result.ledger) = RequiredAttempts
    BY <1>6, <2>2, PaidStays DEF GateInv
  <2>4. ASSUME NEW k \in 1 .. Len(gate.results), NEW s \in 1 .. Len(gate.results[k])
        PROVE  gate.results[k][s].ledger # batch.ledger
    <3>1. LedgerTail(gate.results[k][s].ledger) = RequiredAttempts
      BY <2>3 DEF GateInv, ResultsPaid
    <3> QED BY <2>1, <2>2, <3>1
  <2> QED BY <2>4
<1>8. BatchBelongs'
  BY <1>1, <1>3, <1>7 DEF GateInv, BatchBelongs, At, GateAt, CurrentSeed, CurrentKind
<1> QED BY <1>1, <1>4, <1>5, <1>6, <1>8, GateGrowth DEF BatchInv

(* The factory hands over a ledger for the batch whose turn it is.          *)
LEMMA HandStep ==
  ASSUME GateInv, HandLedger PROVE GateInv'
<1>1. /\ GateAt("BATCH") /\ CurrentSeed <= Seeds /\ UNCHANGED <<gate, foreign>>
  BY DEF HandLedger
<1> DEFINE turn == [kind |-> CurrentKind, seed |-> CurrentSeed]
<1>2. turn \in Schedules
  <2>1. Len(gate.reports) + 1 \in 1 .. Len(Kinds) /\ CurrentSeed \in 1 .. Seeds
    BY <1>1, GateRead, GateConstants DEF GateInv, Shape
  <2> QED BY <2>1, GateConstants DEF CurrentKind
<1>3. PICK l \in 1 .. Len(ledgers) + 1, budget \in Budgets :
        /\ \/ l \in DOMAIN ledgers /\ ledgers' = ledgers
           \/ l \notin DOMAIN ledgers /\ ledgers' = Append(ledgers, OpenLedger(budget))
        /\ batch' = OpenedBatch("HANDED", l, turn)
  BY DEF HandLedger, OpenedBatch
<1>4. PICK schedule \in Schedules : schedule = turn
  BY <1>2
<1>5. BatchInv' /\ LedgersGrow
  <2> HIDE DEF turn
  <2> QED BY <1>1, <1>3, <1>4, OpenStep DEF GateInv
<1>6. batch'.step = "HANDED" /\ batch'.schedule = turn
  BY <1>3 DEF OpenedBatch, NoBatch
<1>7. BatchBelongs'
  BY <1>1, <1>6 DEF BatchBelongs, At, GateAt, CurrentSeed, CurrentKind
<1> QED BY <1>1, <1>5, <1>7, GateGrowth

(* A step of the study alone leaves the batches it has.                    *)
LEMMA StudyMoves ==
  ASSUME GateInv, UNCHANGED <<ledgers, foreign>>, batch' = NoBatch, At("NONE") \/ GateAt("BATCH"),
         GateTyped', Shape',
         \/ gate'.results = gate.results
         \/ gate'.results = <<>>
         \/ gate'.results = Append(gate.results, <<>>)
  PROVE  GateInv'
<1>1. BatchInv' /\ LedgersGrow
  BY GiveUp DEF GateInv
<1>2. BatchBelongs'
  BY DEF BatchBelongs, At, NoBatch
<1>3. /\ Len(gate'.results) \in Nat /\ Len(gate.results) \in Nat
      /\ \A k \in 1 .. Len(gate'.results) : \A s \in 1 .. Len(gate'.results[k]) :
           /\ k \in 1 .. Len(gate.results) /\ s \in 1 .. Len(gate.results[k])
           /\ gate'.results[k] = gate.results[k]
  <2> HIDE DEF Result
  <2>1. gate.results \in Seq(Seq(Result))
    BY DEF GateInv, GateTyped
  <2>2. CASE gate'.results = gate.results
    BY <2>1, <2>2
  <2>3. CASE gate'.results = <<>>
    BY <2>1, <2>3
  <2>4. CASE gate'.results = Append(gate.results, <<>>)
    BY <2>1, <2>4
  <2> QED BY <2>2, <2>3, <2>4
<1>4. ResultsPaid'
  <2>1. \A result : Paid(result) => Paid(result)'
    BY <1>1, PaidStays DEF GateInv
  <2>2. ASSUME NEW k \in 1 .. Len(gate'.results), NEW s \in 1 .. Len(gate'.results[k])
        PROVE  /\ Paid(gate.results[k][s])'
               /\ gate'.results[k][s].schedule = [kind |-> Kinds[k], seed |-> s]
    <3>1. PICK result : result = gate.results[k][s]
      OBVIOUS
    <3>2. /\ result = gate'.results[k][s] /\ Paid(result)
          /\ result.schedule = [kind |-> Kinds[k], seed |-> s]
      BY <1>3, <3>1 DEF GateInv, ResultsPaid
    <3>3. Paid(result)'
      BY <2>1, <3>2
    <3> QED BY <3>2, <3>3 DEF Paid
  <2> QED BY <2>2 DEF ResultsPaid
<1>5. OwnLedgers'
  <2>1. ASSUME NEW k \in 1 .. Len(gate'.results), NEW j \in 1 .. Len(gate'.results),
               NEW s \in 1 .. Len(gate'.results[k]), NEW t \in 1 .. Len(gate'.results[j]),
               gate'.results[k][s].ledger = gate'.results[j][t].ledger
        PROVE  k = j /\ s = t
    <3>1. gate.results[k][s].ledger = gate.results[j][t].ledger
      BY <1>3, <2>1
    <3>2. /\ k \in 1 .. Len(gate.results) /\ s \in 1 .. Len(gate.results[k])
          /\ j \in 1 .. Len(gate.results) /\ t \in 1 .. Len(gate.results[j])
      BY <1>3
    <3> QED BY <3>1, <3>2 DEF GateInv, OwnLedgers
  <2> QED BY <2>1 DEF OwnLedgers
<1> QED BY <1>1, <1>2, <1>4, <1>5 DEF GateInv

(* The signed batch joins the results of its condition.                    *)
LEMMA SignStep ==
  ASSUME GateInv, PublishArm PROVE GateInv'
<1>1. CASE At("TRUSTED") /\ Goto("PARENT_SIGNED") /\ UNCHANGED <<ledgers, foreign, gate>>
  <2>1. batch \in [step : BatchSteps, schedule : Schedules \cup {Nobody}, ledger : Nat,
                   boundary : Nat, expected : Nat, receipts : Seq(Nat), final : Nat]
    BY DEF GateInv, BatchInv, BatchTypes
  <2>2. /\ batch'.step = "PARENT_SIGNED" /\ batch'.receipts = batch.receipts
        /\ batch'.schedule = batch.schedule /\ batch'.ledger = batch.ledger
        /\ batch'.boundary = batch.boundary /\ batch'.final = batch.final
        /\ batch' \in [step : BatchSteps, schedule : Schedules \cup {Nobody}, ledger : Nat,
                   boundary : Nat, expected : Nat, receipts : Seq(Nat), final : Nat]
    BY <1>1, <2>1 DEF BatchSteps, Complete, Goto
  <2>3. BatchTypes'
    BY <1>1, <2>2 DEF GateInv, BatchInv, BatchTypes, At
  <2>4. WithinBudget' /\ ReceiptsInv' /\ ProgressInv'
    BY <1>1, <2>2 DEF GateInv, BatchInv, WithinBudget, ReceiptsInv, ProgressInv, LedgerTail, At,
       Open, Complete, Accounted, Received
  <2>5. LedgersGrow
    BY <1>1, NothingGrows DEF GateInv, BatchInv
  <2>6. BatchBelongs'
    BY <1>1, <2>2 DEF GateInv, BatchBelongs, At, GateAt, CurrentSeed, CurrentKind
  <2> QED BY <1>1, <2>3, <2>4, <2>5, <2>6, GateGrowth DEF BatchInv
<1>2. CASE /\ At("PARENT_SIGNED") /\ batch' = NoBatch /\ UNCHANGED <<ledgers, foreign>>
           /\ gate' = [gate EXCEPT !.results[Len(gate.results)] = Append(@,
                         [schedule |-> batch.schedule, ledger |-> batch.ledger,
                          boundary |-> batch.boundary, receipts |-> batch.receipts])]
  <2> DEFINE signed == [schedule |-> batch.schedule, ledger |-> batch.ledger,
                        boundary |-> batch.boundary, receipts |-> batch.receipts]
             last == Len(gate.results)
  <2>1. /\ GateAt("BATCH") /\ last \in 1 .. Len(Kinds) /\ last = Len(gate.reports) + 1
        /\ CurrentSeed = Len(gate.results[last]) + 1 /\ CurrentSeed \in 1 .. Seeds
        /\ batch.schedule = [kind |-> Kinds[last], seed |-> CurrentSeed]
        /\ last \in Nat /\ Len(gate.reports) \in Nat
    BY <1>2, GateRead, GateConstants DEF GateInv, BatchBelongs, Shape, At, CurrentKind
  <2>2. /\ Received = RequiredAttempts /\ batch.boundary \in Nat
        /\ batch.ledger \in DOMAIN ledgers
        /\ ledgers[batch.ledger].budget = RequiredAttempts
        /\ \A i \in 1 .. RequiredAttempts : batch.receipts[i] = batch.boundary + i
        /\ Accounted(batch.ledger, batch.schedule, batch.boundary, RequiredAttempts)
        /\ LedgerTail(batch.ledger) <= RequiredAttempts /\ LedgerTail(batch.ledger) \in Nat
        /\ RequiredAttempts \in Nat
    BY <1>2, BatchTyped, Constants
    DEF GateInv, BatchInv, ReceiptsInv, ProgressInv, BatchBelongs, WithinBudget, At, Complete
  <2>3. batch.boundary = 0
    BY <2>2 DEF Accounted
  <2>4. PICK result \in Result : result = signed
    <3>1. batch.schedule \in GateSchedules
      BY <2>1, GateConstants
    <3>2. batch.ledger \in Nat /\ batch.receipts \in Seq(Nat)
      BY DEF GateInv, BatchInv, BatchTypes
    <3> QED BY <2>2, <3>1, <3>2 DEF Result
  <2>5. /\ result.ledger = batch.ledger /\ result.schedule = batch.schedule
        /\ result.receipts = batch.receipts
    BY <2>4
  <2>6. Paid(result)
    BY <2>2, <2>3, <2>5 DEF Paid, Received
  <2> HIDE DEF signed
  <2>7. PICK step, plan, boundary, execution, since, results, reports :
          gate = [step |-> step, plan |-> plan, boundary |-> boundary,
                  execution |-> execution, since |-> since,
                  results |-> results, reports |-> reports]
    BY DEF GateInv, GateTyped
  <2>8. gate' = [step |-> step, plan |-> plan, boundary |-> boundary,
                 execution |-> execution, since |-> since, reports |-> reports,
                 results |-> [results EXCEPT ![last] = Append(results[last], result)]]
    <3>1. gate' = [gate EXCEPT !.results[Len(gate.results)] = Append(@, result)]
      BY <1>2, <2>4 DEF signed
    <3> QED BY <2>7, <3>1
  <2> HIDE DEF last
  <2>9. /\ gate.results = results /\ gate'.results = [results EXCEPT ![last] = Append(results[last], result)]
        /\ gate'.step = gate.step /\ gate'.reports = gate.reports
    BY <2>7, <2>8
  <2>10. /\ gate'.results \in Seq(Seq(Result)) /\ Len(gate'.results) = Len(gate.results)
         /\ \A k \in 1 .. Len(gate.results) : k # last => gate'.results[k] = gate.results[k]
         /\ gate'.results[last] = Append(gate.results[last], result)
         /\ last = Len(gate.results) /\ last \in 1 .. Len(gate.results)
    <3>1. gate.results \in Seq(Seq(Result)) /\ last = Len(gate.results) /\ last \in 1 .. Len(gate.results)
      BY <2>1 DEF last, GateInv, GateTyped
    <3>2. gate.results[last] \in Seq(Result)
      <4> HIDE DEF Result
      <4> QED BY <3>1
    <3>3. Append(gate.results[last], result) \in Seq(Result)
      <4> HIDE DEF Result
      <4> QED BY <3>2
    <3> HIDE DEF Result
    <3> QED BY <2>9, <3>1, <3>3
  <2>11. \A k \in 1 .. Len(gate.results) : \A s \in 1 .. Len(gate'.results[k]) :
           \/ k = last /\ s = CurrentSeed /\ gate'.results[k][s] = result
           \/ s \in 1 .. Len(gate.results[k]) /\ gate'.results[k][s] = gate.results[k][s]
    <3>1. gate.results[last] \in Seq(Result) /\ CurrentSeed = Len(gate.results[last]) + 1
      BY <2>1, <2>10, GateRead DEF GateInv, last
    <3>2. \A s \in 1 .. Len(gate'.results[last]) :
            \/ s = CurrentSeed /\ gate'.results[last][s] = result
            \/ /\ s \in 1 .. Len(gate.results[last])
               /\ gate'.results[last][s] = gate.results[last][s]
      <4> HIDE DEF Result
      <4> QED BY <2>10, <3>1
    <3> QED BY <2>10, <3>2
  <2>12. BatchInv' /\ LedgersGrow
    BY <1>2, GiveUp DEF GateInv
  <2>13. \A r : Paid(r) => Paid(r)'
    BY <2>12, PaidStays DEF GateInv
  <2>14. ResultsPaid'
    <3>1. ASSUME NEW k \in 1 .. Len(gate'.results), NEW s \in 1 .. Len(gate'.results[k])
          PROVE  /\ Paid(gate.results[k][s])'
                 /\ gate'.results[k][s].schedule = [kind |-> Kinds[k], seed |-> s]
      <4>1. PICK r : r = gate'.results[k][s]
        OBVIOUS
      <4>2. Paid(r) /\ r.schedule = [kind |-> Kinds[k], seed |-> s]
        <5>1. k \in 1 .. Len(gate.results)
          BY <2>10
        <5>2. CASE k = last /\ s = CurrentSeed /\ gate'.results[k][s] = result
          BY <2>1, <2>5, <2>6, <4>1, <5>2
        <5>3. CASE /\ s \in 1 .. Len(gate.results[k])
                   /\ gate'.results[k][s] = gate.results[k][s]
          BY <4>1, <5>1, <5>3 DEF GateInv, ResultsPaid
        <5> QED BY <2>11, <5>1, <5>2, <5>3
      <4>3. Paid(r)'
        BY <2>13, <4>2
      <4> QED BY <4>1, <4>2, <4>3 DEF Paid
    <3> QED BY <3>1 DEF ResultsPaid
  <2>15. OwnLedgers'
    <3>1. \A k \in 1 .. Len(gate.results) : \A s \in 1 .. Len(gate.results[k]) :
            gate.results[k][s].ledger # batch.ledger
      BY <1>2 DEF GateInv, BatchBelongs, At
    <3>2. ASSUME NEW k \in 1 .. Len(gate'.results), NEW j \in 1 .. Len(gate'.results),
                 NEW s \in 1 .. Len(gate'.results[k]), NEW t \in 1 .. Len(gate'.results[j]),
                 gate'.results[k][s].ledger = gate'.results[j][t].ledger
          PROVE  k = j /\ s = t
      <4>1. /\ \/ k = last /\ s = CurrentSeed /\ gate'.results[k][s] = result
               \/ s \in 1 .. Len(gate.results[k]) /\ gate'.results[k][s] = gate.results[k][s]
            /\ \/ j = last /\ t = CurrentSeed /\ gate'.results[j][t] = result
               \/ t \in 1 .. Len(gate.results[j]) /\ gate'.results[j][t] = gate.results[j][t]
            /\ k \in 1 .. Len(gate.results) /\ j \in 1 .. Len(gate.results)
        BY <2>10, <2>11
      <4>2. CASE /\ s \in 1 .. Len(gate.results[k]) /\ gate'.results[k][s] = gate.results[k][s]
                 /\ t \in 1 .. Len(gate.results[j]) /\ gate'.results[j][t] = gate.results[j][t]
        <5>1. gate.results[k][s].ledger = gate.results[j][t].ledger
          BY <3>2, <4>2
        <5> QED BY <4>1, <4>2, <5>1 DEF GateInv, OwnLedgers
      <4> QED BY <2>5, <3>1, <3>2, <4>1, <4>2
    <3> QED BY <3>2 DEF OwnLedgers
  <2>16. Shape'
    <3>1. /\ Len(gate'.results) = Len(gate.results) /\ Len(gate'.reports) = Len(gate.reports)
          /\ GateAt("BATCH") /\ GateAt("BATCH")'
      BY <2>1, <2>9, <2>10 DEF GateAt
    <3>2. \A k \in 1 .. Len(gate.reports) : k # last /\ k \in 1 .. Len(gate.results)
      BY <2>1, <2>10
    <3>3. \A r : IsSettled(r)' <=> IsSettled(r)
      BY <1>2 DEF IsSettled
    <3>4. \A k \in 1 .. Len(gate'.reports) :
            /\ Len(gate'.results[k]) = Seeds
            /\ \A s \in 1 .. Seeds : IsSettled(gate.results[k][s])'
      <4>1. ASSUME NEW k \in 1 .. Len(gate'.reports), NEW s \in 1 .. Seeds
            PROVE  IsSettled(gate.results[k][s])'
        <5>1. PICK r : r = gate.results[k][s]
          OBVIOUS
        <5>2. gate'.results[k] = gate.results[k] /\ IsSettled(r)
          BY <2>10, <3>1, <3>2, <5>1 DEF GateInv, Shape
        <5>3. IsSettled(r)'
          BY <3>3, <5>2
        <5> QED BY <5>1, <5>2, <5>3 DEF IsSettled
      <4>2. \A k \in 1 .. Len(gate'.reports) : Len(gate'.results[k]) = Seeds
        BY <2>10, <3>1, <3>2 DEF GateInv, Shape
      <4> QED BY <4>1, <4>2
    <3> QED BY <3>1, <3>4 DEF GateInv, Shape, GateAt
  <2>17. GateTyped'
    <3>1. gate' = [step |-> gate'.step, plan |-> gate'.plan, boundary |-> gate'.boundary,
                   execution |-> gate'.execution, since |-> gate'.since,
                   results |-> gate'.results, reports |-> gate'.reports]
      BY <2>8
    <3> QED BY <2>9, <2>10, <3>1 DEF GateInv, GateTyped
  <2>18. BatchBelongs'
    BY <1>2 DEF BatchBelongs, At, NoBatch
  <2> QED BY <2>12, <2>14, <2>15, <2>16, <2>17, <2>18 DEF GateInv
<1> QED BY <1>1, <1>2 DEF PublishArm, Calm

(* A condition is begun and summarized, the study begun, closed and given up.*)
LEMMA StudySteps ==
  ASSUME GateInv,
         \/ \E plan \in Plans, boundary \in Boundaries : BeginStudy(plan, boundary)
         \/ BeginCondition \/ (\E claim \in Claims : Summarize(claim))
         \/ GateRaises \/ CloseStudy
  PROVE  GateInv'
<1>1. PICK step, plan, boundary, execution, since, results, reports :
        gate = [step |-> step, plan |-> plan, boundary |-> boundary,
                execution |-> execution, since |-> since,
                results |-> results, reports |-> reports]
  BY DEF GateInv, GateTyped
<1>2. /\ results \in Seq(Seq(Result)) /\ (\E Reports : reports \in Seq(Reports))
      /\ gate.results = results /\ gate.reports = reports /\ gate.step = step
      /\ Len(results) \in Nat /\ Len(reports) \in Nat
  BY <1>1, GateRead DEF GateInv, GateTyped
<1>3. UNCHANGED <<ledgers, foreign>>
  BY DEF BeginStudy, BeginCondition, Summarize, GateRaises, CloseStudy, batchVars, Calm
<1>4. \A r : IsSettled(r)' <=> IsSettled(r)
  BY <1>3 DEF IsSettled
<1>5. ~GateAt("BATCH") => batch = NoBatch
  BY DEF GateInv, BatchInv, BatchTypes, BatchBelongs, At
<1>6. ASSUME NEW p \in Plans, NEW b \in Boundaries, BeginStudy(p, b) PROVE GateInv'
  <2>1. /\ gate' = [step |-> "CONDITION", plan |-> p, boundary |-> b,
                    execution |-> gate.execution + 1, since |-> Len(ledgers),
                    results |-> <<>>, reports |-> <<>>]
        /\ batch' = NoBatch
    BY <1>5, <1>6 DEF BeginStudy, NoGate, GateAt, batchVars
  <2>2. <<>> \in Seq(Seq(Result)) /\ Len(<<>>) = 0 /\ \E Reports : <<>> \in Seq(Reports)
    <3> HIDE DEF Result
    <3> QED OBVIOUS
  <2>3. GateTyped'
    BY <2>1, <2>2 DEF GateTyped
  <2>4. Shape'
    BY <2>1, <2>2, GateConstants DEF Shape, GateAt
  <2>5. At("NONE")
    <3>1. ~GateAt("BATCH")
      BY <1>6 DEF BeginStudy, GateAt
    <3> QED BY <1>5, <3>1 DEF NoBatch, At
  <2>6. gate'.results = <<>>
    BY <2>1
  <2> QED BY <1>3, <2>1, <2>3, <2>4, <2>5, <2>6, StudyMoves
<1>7. ASSUME BeginCondition PROVE GateInv'
  <2>1. /\ gate' = [step |-> "BATCH", plan |-> plan, boundary |-> boundary,
                    execution |-> execution, since |-> since,
                    results |-> Append(results, <<>>), reports |-> reports]
        /\ batch' = NoBatch /\ GateAt("CONDITION") /\ Len(reports) < Len(Kinds)
    BY <1>1, <1>2, <1>5, <1>7 DEF BeginCondition, GateAt, batchVars
  <2>2. /\ Append(results, <<>>) \in Seq(Seq(Result)) /\ Len(Append(results, <<>>)) = Len(results) + 1
        /\ \A k \in 1 .. Len(results) : Append(results, <<>>)[k] = results[k]
    <3> HIDE DEF Result
    <3>1. <<>> \in Seq(Result)
      OBVIOUS
    <3> QED BY <1>2, <3>1
  <2>3. GateTyped'
    BY <1>2, <2>1, <2>2 DEF GateTyped
  <2>4. Shape'
    <3>1. Len(results) = Len(reports)
      BY <1>2, <2>1 DEF GateInv, Shape, GateAt
    <3>2. /\ gate'.step = "BATCH" /\ gate'.results = Append(results, <<>>) /\ gate'.reports = reports
      BY <2>1
    <3>3. ASSUME NEW k \in 1 .. Len(reports)
          PROVE  /\ gate'.results[k] = gate.results[k]
                 /\ Len(gate.results[k]) = Seeds
                 /\ \A s \in 1 .. Seeds : IsSettled(gate.results[k][s])
      BY <1>2, <2>2, <3>1, <3>2 DEF GateInv, Shape
    <3>4. \A k \in 1 .. Len(reports) : \A s \in 1 .. Seeds : IsSettled(gate.results[k][s])'
      <4>1. ASSUME NEW k \in 1 .. Len(reports), NEW s \in 1 .. Seeds
            PROVE  IsSettled(gate.results[k][s])'
        BY <1>3, <3>3 DEF IsSettled
      <4> QED BY <4>1
    <3> QED BY <1>2, <2>1, <2>2, <3>1, <3>2, <3>3, <3>4, GateConstants DEF Shape, GateAt
  <2> QED BY <1>2, <1>3, <2>1, <2>3, <2>4, <1>5, StudyMoves DEF GateAt, NoBatch, At
<1>8. ASSUME CloseStudy \/ GateRaises PROVE GateInv'
  <2>1. PICK next \in {"CLOSED", "FAILED"} :
          /\ gate' = [step |-> next, plan |-> plan, boundary |-> boundary,
                      execution |-> execution, since |-> since,
                      results |-> results, reports |-> reports]
          /\ next = "CLOSED" => GateAt("CONDITION") /\ Len(reports) = Len(Kinds)
    BY <1>1, <1>2, <1>8 DEF CloseStudy, GateRaises, GateGoto
  <2>2. batch' = NoBatch
    BY <1>5, <1>8 DEF CloseStudy, GateRaises, GateAt, batchVars
  <2>3. GateTyped'
    BY <1>2, <2>1 DEF GateTyped
  <2>4. Shape'
    <3>1. gate'.results = gate.results /\ gate'.reports = gate.reports
      BY <1>2, <2>1
    <3>2. \A k \in 1 .. Len(reports) : \A s \in 1 .. Seeds : IsSettled(gate.results[k][s])
      BY <1>2 DEF GateInv, Shape
    <3>3. \A k \in 1 .. Len(reports) : \A s \in 1 .. Seeds : IsSettled(gate.results[k][s])'
      <4>1. ASSUME NEW k \in 1 .. Len(reports), NEW s \in 1 .. Seeds
            PROVE  IsSettled(gate.results[k][s])'
        BY <1>3, <3>1, <3>2 DEF IsSettled
      <4> QED BY <4>1
    <3> QED BY <1>2, <2>1, <3>1, <3>3 DEF GateInv, Shape, GateAt
  <2>5. At("NONE") \/ GateAt("BATCH")
    BY <1>5 DEF NoBatch, At
  <2> QED BY <1>2, <1>3, <2>1, <2>2, <2>3, <2>4, <2>5, StudyMoves
<1>9. ASSUME NEW claim \in Claims, Summarize(claim) PROVE GateInv'
  <2> DEFINE last == Len(results)
  <2>1. PICK report : /\ gate' = [step |-> "CONDITION", plan |-> plan, boundary |-> boundary,
                                  execution |-> execution, since |-> since,
                                  results |-> results, reports |-> Append(reports, report)]
                      /\ batch' = NoBatch /\ At("NONE") /\ GateAt("BATCH")
    <3>1. PICK r : gate' = [gate EXCEPT !.reports = Append(@, r), !.step = "CONDITION"]
      BY <1>9 DEF Summarize
    <3>2. batch' = NoBatch /\ At("NONE") /\ GateAt("BATCH")
      BY <1>9 DEF Summarize, GateInv, BatchInv, BatchTypes, batchVars
    <3> QED BY <1>1, <3>1, <3>2
  <2>2. /\ {results[last][i].schedule.seed : i \in DOMAIN results[last]} = 1 .. Seeds
        /\ \A i \in DOMAIN results[last] : AllSettled(results[last][i])
    <3>1. PICK batches \in {Last(gate.results)} :
            /\ {batches[i].schedule.seed : i \in DOMAIN batches} = 1 .. Seeds
            /\ \A i \in DOMAIN batches : AllSettled(batches[i])
      BY <1>9 DEF Summarize
    <3>2. batches = results[last]
      BY <1>2, <3>1 DEF Last
    <3> QED BY <3>1, <3>2
  <2>3. /\ last = Len(reports) + 1 /\ last \in 1 .. Len(gate.results)
        /\ Len(results[last]) \in Nat /\ DOMAIN results[last] = 1 .. Len(results[last])
        /\ \A s \in 1 .. Len(results[last]) :
             /\ Paid(results[last][s]) /\ results[last][s].schedule.seed = s
             /\ results[last][s] \in Result
    <3>1. last = Len(reports) + 1 /\ last \in 1 .. Len(gate.results)
      BY <1>2, <2>1 DEF GateInv, Shape
    <3>2. Len(results[last]) \in Nat /\ DOMAIN results[last] = 1 .. Len(results[last])
          /\ \A s \in 1 .. Len(results[last]) : results[last][s] \in Result
      BY <1>2, <3>1, GateRead DEF GateInv
    <3>3. \A s \in 1 .. Len(results[last]) :
             Paid(results[last][s]) /\ results[last][s].schedule = [kind |-> Kinds[last], seed |-> s]
      BY <1>2, <3>1 DEF GateInv, ResultsPaid
    <3>4. \A s \in 1 .. Len(results[last]) : results[last][s].schedule.seed = s
      <4>1. ASSUME NEW s \in 1 .. Len(results[last]) PROVE results[last][s].schedule.seed = s
        <5>1. results[last][s].schedule = [kind |-> Kinds[last], seed |-> s]
          BY <3>3
        <5> QED BY <5>1
      <4> QED BY <4>1
    <3> HIDE DEF last
    <3> QED BY <3>1, <3>2, <3>3, <3>4
  <2>4. Len(results[last]) = Seeds
    <3>1. 1 .. Len(results[last]) = 1 .. Seeds
      BY <2>2, <2>3
    <3> QED BY <2>3, <3>1, GateConstants
  <2>5. \A s \in 1 .. Seeds : IsSettled(results[last][s])
    <3>1. ASSUME NEW r \in Result, Paid(r), AllSettled(r) PROVE IsSettled(r)
      <4>1. \A i \in 1 .. RequiredAttempts : i \in DOMAIN r.receipts /\ r.receipts[i] = i
        BY <3>1, Constants DEF Paid, Result
      <4> QED BY <3>1, <4>1
          DEF AllSettled, IsSettled, Outcomes, BatchOutcomes, Cells, RequiredAttempts
    <3> QED BY <2>2, <2>3, <2>4, <3>1
  <2> HIDE DEF last
  <2>6. /\ Len(Append(reports, report)) = Len(reports) + 1
        /\ \E Reports : Append(reports, report) \in Seq(Reports)
    <3>1. PICK Reports : reports \in Seq(Reports)
      BY <1>2
    <3>2. reports \in Seq(Reports \cup {report})
      BY <3>1
    <3>3. Append(reports, report) \in Seq(Reports \cup {report})
      BY <3>2
    <3> QED BY <3>1, <3>3
  <2>7. GateTyped'
    BY <1>2, <2>1, <2>6 DEF GateTyped
  <2>8. gate'.results = gate.results /\ gate'.step = "CONDITION"
        /\ gate'.reports = Append(reports, report)
    BY <1>2, <2>1
  <2>9. \A k \in 1 .. Len(reports) + 1 :
          Len(gate.results[k]) = Seeds /\ \A s \in 1 .. Seeds : IsSettled(gate.results[k][s])
    <3>1. \A k \in 1 .. Len(reports) + 1 : k = last \/ k \in 1 .. Len(reports)
      BY <1>2, <2>3
    <3> QED BY <1>2, <2>4, <2>5, <3>1 DEF GateInv, Shape
  <2>10. \A k \in 1 .. Len(reports) + 1 : \A s \in 1 .. Seeds : IsSettled(gate.results[k][s])'
    <3>1. ASSUME NEW k \in 1 .. Len(reports) + 1, NEW s \in 1 .. Seeds
          PROVE  IsSettled(gate.results[k][s])'
      BY <1>3, <2>8, <2>9 DEF IsSettled
    <3> QED BY <3>1
  <2>11. Shape'
    BY <1>2, <2>3, <2>6, <2>8, <2>9, <2>10 DEF GateInv, Shape, GateAt, last
  <2> QED BY <1>3, <2>1, <2>7, <2>8, <2>11, StudyMoves
<1> QED BY <1>6, <1>7, <1>8, <1>9

(* The invariant of the GATE study, of its batches and of their ledgers.    *)
LEMMA GateInvariant == GateSpec => []GateInv
<1>1. GateInit => GateInv
  <2> SUFFICES ASSUME GateInit PROVE GateInv
    OBVIOUS
  <2>1. /\ ledgers = <<>> /\ batch = NoBatch /\ foreign = 0 /\ gate = NoGate
    BY DEF GateInit, BatchInit
  <2>2. BatchInv
    <3>1. BatchTypes
      BY <2>1, Constants DEF BatchTypes, NoBatch, BatchSteps, At
    <3> QED BY <2>1, <3>1
        DEF BatchInv, WithinBudget, ReceiptsInv, ProgressInv, NoBatch, At, Open, Complete
  <2>3. <<>> \in Seq(Seq(Result)) /\ Len(<<>>) = 0 /\ \E Reports : <<>> \in Seq(Reports)
    <3> HIDE DEF Result
    <3> QED OBVIOUS
  <2>4. gate.results = <<>> /\ gate.reports = <<>> /\ gate.step = "IDLE"
    BY <2>1 DEF NoGate
  <2>5. GateTyped
    BY <2>1, <2>3 DEF GateTyped, NoGate
  <2>6. ResultsPaid /\ OwnLedgers
    BY <2>3, <2>4 DEF ResultsPaid, OwnLedgers
  <2>7. Shape
    BY <2>3, <2>4, GateConstants DEF Shape, GateAt
  <2>8. BatchBelongs
    BY <2>1 DEF BatchBelongs, NoBatch, At
  <2> QED BY <2>2, <2>5, <2>6, <2>7, <2>8 DEF GateInv
<1>2. ASSUME GateInv, UNCHANGED <<batchVars, gate>> PROVE GateInv'
  <2>1. BatchInv' /\ LedgersGrow
    <3>1. UNCHANGED <<ledgers, batch, foreign>>
      BY <1>2 DEF batchVars
    <3> QED BY <3>1, NothingGrows, <1>2 DEF GateInv, BatchInv, BatchTypes, WithinBudget,
            ReceiptsInv, ProgressInv, Accounted, LedgerTail, At, Received
  <2>2. BatchBelongs'
    BY <1>2 DEF batchVars, GateInv, BatchBelongs, At, GateAt, CurrentSeed, CurrentKind
  <2> QED BY <1>2, <2>1, <2>2, GateGrowth
<1>3. ASSUME GateInv, GateNext PROVE GateInv'
  <2>1. CASE \E n \in 0 .. Len(journal) : AcceptGate(n)
    BY <1>2, <1>3, <2>1 DEF AcceptGate
  <2> QED BY <1>3, <2>1, GateBatchStep, FreshStep, HandStep, SignStep, StudySteps DEF GateNext
<1>4. GateInv /\ [\/ Next /\ UNCHANGED gateVars
                  \/ GateNext /\ UNCHANGED vars]_<<vars, gateVars>> => GateInv'
  BY <1>2, <1>3 DEF gateVars
<1> QED BY <1>1, <1>4, PTL DEF GateSpec

(* A closed GATE study stands for calls that were made and paid for: for    *)
(* any number of conditions, seeds and interfering attempts, every search   *)
(* run has a ledger of its own with one settled call per cell               *)
(* (baseline_gate_runner.py and baseline_gate_closure.py).                  *)
THEOREM ClosureStands == GateSpec => []ClosureStandsForCalls
<1>1. ASSUME GateInv, GateAt("CLOSED") PROVE ClosureStandsForCalls
  <2> DEFINE Called(k, s, cell, other) ==
               LET result == gate.results[k][s]
                   outcomes == ledgers[result.ledger].outcomes
               IN  /\ outcomes[cell].owner = result.schedule
                   /\ outcomes[cell].disposition = "SETTLED"
                   /\ (outcomes[cell].seed = outcomes[other].seed)
                        = (Coordinate(cell) = Coordinate(other))
  <2>1. /\ Len(gate.results) = Len(Kinds) /\ Len(gate.reports) = Len(Kinds)
        /\ DOMAIN gate.results = 1 .. Len(Kinds) /\ DOMAIN Kinds = 1 .. Len(Kinds)
        /\ \A k \in 1 .. Len(Kinds) :
             /\ Len(gate.results[k]) = Seeds /\ DOMAIN gate.results[k] = 1 .. Seeds
             /\ \A s \in 1 .. Seeds : IsSettled(gate.results[k][s])
    BY <1>1, GateRead, GateConstants DEF GateInv, Shape, GateAt
  <2>2. ASSUME NEW k \in DOMAIN Kinds, NEW s \in 1 .. Seeds,
               NEW cell \in Cells, NEW other \in Cells
        PROVE  /\ gate.results[k][s].schedule = [kind |-> Kinds[k], seed |-> s]
               /\ Called(k, s, cell, other)
    <3>1. PICK result : result = gate.results[k][s]
      OBVIOUS
    <3>2. /\ Paid(result) /\ IsSettled(result)
          /\ result.schedule = [kind |-> Kinds[k], seed |-> s]
      BY <1>1, <2>1, <3>1 DEF GateInv, ResultsPaid
    <3>3. \A i \in 1 .. RequiredAttempts :
            LET outcome == ledgers[result.ledger].outcomes[i]
            IN  outcome.owner = result.schedule /\ outcome.seed = SeedFor(result.schedule, i)
      BY <3>2 DEF Paid, Accounted
    <3>4. cell \in 1 .. RequiredAttempts /\ other \in 1 .. RequiredAttempts
      BY DEF Cells, RequiredAttempts
    <3>5. ledgers[result.ledger].outcomes[cell].disposition = "SETTLED"
      BY <3>2 DEF IsSettled
    <3>6. /\ ledgers[result.ledger].outcomes[cell].owner = result.schedule
          /\ ledgers[result.ledger].outcomes[cell].seed = <<result.schedule, Coordinate(cell)>>
          /\ ledgers[result.ledger].outcomes[other].seed = <<result.schedule, Coordinate(other)>>
      BY <3>3, <3>4 DEF SeedFor
    <3>7. (ledgers[result.ledger].outcomes[cell].seed = ledgers[result.ledger].outcomes[other].seed)
            = (Coordinate(cell) = Coordinate(other))
      BY <3>6
    <3> QED BY <3>1, <3>2, <3>5, <3>6, <3>7
  <2>3. ASSUME NEW k \in 1 .. Len(Kinds), NEW s \in 1 .. Seeds,
               NEW j \in 1 .. Len(Kinds), NEW t \in 1 .. Seeds,
               gate.results[j][t].ledger = gate.results[k][s].ledger
        PROVE  j = k /\ t = s
    BY <1>1, <2>1, <2>3 DEF GateInv, OwnLedgers
  <2>4. \A k \in DOMAIN Kinds : \A s \in 1 .. Seeds :
          /\ gate.results[k][s].schedule = [kind |-> Kinds[k], seed |-> s]
          /\ \A j \in DOMAIN Kinds, t \in 1 .. Seeds :
               gate.results[j][t].ledger = gate.results[k][s].ledger => j = k /\ t = s
    <3> HIDE DEF Called
    <3>1. PICK cell : cell \in Cells
      BY Constants DEF Cells, RequiredAttempts
    <3>2. ASSUME NEW k \in DOMAIN Kinds, NEW s \in 1 .. Seeds
          PROVE  gate.results[k][s].schedule = [kind |-> Kinds[k], seed |-> s]
      BY <2>2, <3>1
    <3>3. ASSUME NEW k \in DOMAIN Kinds, NEW s \in 1 .. Seeds,
                 NEW j \in DOMAIN Kinds, NEW t \in 1 .. Seeds,
                 gate.results[j][t].ledger = gate.results[k][s].ledger
          PROVE  j = k /\ t = s
      BY <2>1, <2>3, <3>3
    <3> QED BY <3>2, <3>3
  <2>5. \A k \in DOMAIN Kinds : \A s \in 1 .. Seeds : \A cell, other \in Cells :
          Called(k, s, cell, other)
    <3> HIDE DEF Called
    <3> QED BY <2>2
  <2>6. DOMAIN gate.results = DOMAIN Kinds
        /\ \A k \in DOMAIN Kinds : DOMAIN gate.results[k] = 1 .. Seeds
    BY <2>1
  <2> QED BY <2>4, <2>5, <2>6, Zenon DEF ClosureStandsForCalls
<1>2. GateInv => ClosureStandsForCalls
  BY <1>1 DEF ClosureStandsForCalls
<1> QED BY GateInvariant, <1>2, PTL

\* An acceptance ends the study execution it accepts.
AcceptInv == AcceptedIsSealed /\ (accepted # {} => GateAt("CLOSED"))

(* An acceptance names the whole journal: nothing follows an authorization. *)
LEMMA AcceptStep ==
  ASSUME IInv, AuthorizedIsComplete, AcceptInv, NEW n \in 0 .. Len(journal), AcceptGate(n)
  PROVE  AcceptInv'
<1>1. PICK chain \in {SubSeq(journal, 1, n)} :
        /\ StateOf(chain) = "SEALED_AUTHORIZED" /\ BoundaryIn(chain) = {gate.boundary}
        /\ accepted' = accepted \cup {chain}
  BY DEF AcceptGate
<1>2. /\ journal \in Seq(Events) /\ Len(journal) \in Nat
      /\ \A i \in 1 .. Len(journal) : journal[i] \in Events
      /\ DOMAIN journal = 1 .. Len(journal)
  BY DEF IInv, TypeOK
<1>3. Len(chain) = n /\ (n > 0 => chain[n] = journal[n])
  BY <1>1, <1>2
<1>4. n > 0 /\ journal[n].kind = "SEALED_AUTHORIZED"
  <2>1. chain # <<>> /\ n > 0
    BY <1>1, <1>3, EmptySeq DEF StateOf
  <2>2. StateAfter[journal[n].kind] = "SEALED_AUTHORIZED"
    BY <1>1, <1>3, <2>1 DEF StateOf, Last
  <2> QED BY <1>2, <2>1, <2>2, EventTyped DEF StateAfter, PlainKinds
<1>5. n = Len(journal)
  <2>1. n \in DOMAIN journal
    BY <1>2, <1>4
  <2> QED BY <1>4, <2>1 DEF IInv, JournalInv, AuthorizationStands
<1>6. chain = journal
  BY <1>1, <1>2, <1>5
<1>7. State = "SEALED_AUTHORIZED" /\ BoundIn(chain) = Bound
  BY <1>1, <1>6 DEF State, StateOf, BoundIn, Bound
<1>8. {KeyOf[closure.search] : closure \in BoundIn(chain)} = Keys
  BY <1>7 DEF AuthorizedIsComplete, BoundKeys
<1>9. \A closure \in BoundIn(chain) : BoundaryOf[closure.experiment] = gate.boundary
  BY <1>1 DEF BoundaryIn
<1>10. UNCHANGED gate /\ GateAt("CLOSED")
  BY DEF AcceptGate
<1>11. \A sealed \in accepted' :
         /\ StateOf(sealed) = "SEALED_AUTHORIZED"
         /\ {KeyOf[closure.search] : closure \in BoundIn(sealed)} = Keys
         /\ \A closure \in BoundIn(sealed) : BoundaryOf[closure.experiment] = gate'.boundary
  BY <1>1, <1>8, <1>9, <1>10 DEF AcceptInv, AcceptedIsSealed
<1> QED BY <1>10, <1>11 DEF AcceptInv, AcceptedIsSealed, GateAt

(* A closed GATE study is accepted only behind a study journal that is      *)
(* sealed for every cell of the plan and that was bound to its boundary,    *)
(* for any study (baseline_gate_acceptance.py).                             *)
THEOREM AcceptanceIsSealed == GateSpec => []AcceptedIsSealed
<1>1. GateSpec => Spec
  <2>1. [\/ Next /\ UNCHANGED gateVars
         \/ GateNext /\ UNCHANGED vars]_<<vars, gateVars>> => [Next]_vars
    OBVIOUS
  <2> QED BY <2>1, PTL DEF GateSpec, Spec
<1>2. Init /\ GateInit => AcceptInv
  BY DEF GateInit, AcceptInv, AcceptedIsSealed
<1>3. ASSUME AcceptInv, UNCHANGED <<accepted, gate>> PROVE AcceptInv'
  BY <1>3 DEF AcceptInv, AcceptedIsSealed, GateAt
<1>4. ASSUME GateInv, IInv, AuthorizedIsComplete, AcceptInv, GateNext PROVE AcceptInv'
  <2>1. CASE \E n \in 0 .. Len(journal) : AcceptGate(n)
    BY <1>4, <2>1, AcceptStep
  <2>2. CASE UNCHANGED <<accepted, gate>>
    BY <1>3, <1>4, <2>2
  <2>3. CASE UNCHANGED accepted /\ ~GateAt("CLOSED")
    BY <1>4, <2>3 DEF AcceptInv, AcceptedIsSealed
  <2>4. GateAt("CLOSED") => batch = NoBatch
    BY <1>4 DEF GateInv, BatchInv, BatchTypes, BatchBelongs, GateAt, At
  <2>5. UNCHANGED accepted \/ \E n \in 0 .. Len(journal) : AcceptGate(n)
    BY <1>4 DEF GateNext, BeginStudy, BeginCondition, HandLedger, RequireFresh, PublishArm,
       Summarize, GateRaises, CloseStudy
  <2>6. GateAt("CLOSED") => UNCHANGED gate \/ \E n \in 0 .. Len(journal) : AcceptGate(n)
    BY <1>4, <2>4 DEF GateNext, BeginStudy, BeginCondition, HandLedger, RequireFresh, PublishArm,
       Summarize, GateRaises, CloseStudy, GateAt, At, NoBatch
  <2> QED BY <2>1, <2>2, <2>3, <2>5, <2>6
<1>5. GateInv /\ IInv /\ AuthorizedIsComplete /\ AcceptInv
        /\ [\/ Next /\ UNCHANGED gateVars
            \/ GateNext /\ UNCHANGED vars]_<<vars, gateVars>> => AcceptInv'
  BY <1>3, <1>4 DEF gateVars
<1>6. AcceptInv => AcceptedIsSealed
  BY DEF AcceptInv
<1> QED BY <1>1, <1>2, <1>5, <1>6, GateInvariant, BarrierInvariant, AuthorizationIsComplete, PTL
    DEF GateSpec

(* Usage that is certified for a batch of the GATE study is exact too.      *)
THEOREM GateUsageIsExact == GateSpec => TrustedUsageIsExact
<1>1. ASSUME GateInv, [\/ Next /\ UNCHANGED gateVars
                       \/ GateNext /\ UNCHANGED vars]_<<vars, gateVars>>
      PROVE  [ExactStep]_batchVars
  <2>1. CASE UNCHANGED batchVars
    BY <2>1
  <2>2. CASE BatchNext
    BY <1>1, <2>2, BatchNextTrusts, TrustedSteps DEF GateInv, BatchInv
  <2>3. CASE batch' = NoBatch
    BY <2>3 DEF ExactStep, NoBatch
  <2>4. CASE HandLedger
    BY <2>4 DEF HandLedger, ExactStep, NoBatch
  <2>5. ASSUME NEW step \in {"FRESH", "PARENT_SIGNED"}, Goto(step) PROVE ExactStep
    <3>1. batch'.step = step
      BY <1>1, <2>5 DEF Goto, GateInv, BatchInv, BatchTypes
    <3> QED BY <3>1 DEF ExactStep
  <2> QED BY <1>1, <2>1, <2>2, <2>3, <2>4, <2>5 DEF gateVars, GateNext, BeginStudy, BeginCondition,
        RequireFresh, PublishArm, Summarize, GateRaises, CloseStudy, AcceptGate
<1>2. GateInv /\ [\/ Next /\ UNCHANGED gateVars
                  \/ GateNext /\ UNCHANGED vars]_<<vars, gateVars>> => [ExactStep]_batchVars
  BY <1>1
<1>3. GateSpec => [][ExactStep]_batchVars
  BY GateInvariant, <1>2, PTL DEF GateSpec
<1> QED BY <1>3, PTL DEF TrustedUsageIsExact, ExactStep
=============================================================================
