----------------------------- MODULE ArtifactStore -----------------------------
(***************************************************************************)
(* storage/artifact_store.py: concurrent writers of one content-addressed  *)
(* directory tree, on a POSIX file system that may lose whatever was not   *)
(* flushed when the power fails.                                           *)
(*                                                                         *)
(* A directory entry is ABSENT, CACHED (seen by every process, kept or     *)
(* lost by a power failure) or DURABLE.  A digest names one content, so an *)
(* object's bytes are FLUSHED (right, and on disk), DIRTY (right, but not  *)
(* on disk) or BAD; a hard link shares the bytes of the staging file.      *)
(* The objects directory itself is taken to be durable.                    *)
(***************************************************************************)
EXTENDS Integers, FiniteSets

CONSTANTS Writers,      \* threads and processes that call put_bytes
          Digests,      \* contents they store
          Shards,       \* first two digits of a digest
          ShardOf,      \* path_for: the shard of each digest
          MaxFaults,    \* bound: system calls that fail
          MaxCrashes,   \* bound: killed writers and power failures
          MaxTouched    \* bound: objects changed from outside

ASSUME ShardAssumption == ShardOf \in [Digests -> Shards]
ASSUME BoundAssumption == MaxFaults \in Nat /\ MaxCrashes \in Nat /\ MaxTouched \in Nat

VARIABLES put,        \* the put_bytes call of each writer
          shard,      \* entry of each shard in the objects directory
          object,     \* entry of each object in its shard
          bytes,      \* bytes behind each object entry
          returned,   \* digests whose reference some call has returned
          touched,    \* digests changed from outside
          faults, crashes

treeVars == <<shard, object, bytes>>
boundVars == <<faults, crashes>>
storeVars == <<put, treeVars, returned, touched, boundVars>>

Entries == {"ABSENT", "CACHED", "DURABLE"}
Present(d) == object[d] # "ABSENT"

\* A running call: its step, its content, and the bytes of its staging file.
Idle == [step |-> "IDLE"]
Call == [step : {"MKDIR", "FLUSH_OBJECTS", "LOOK", "CREATE", "FLUSH_SHARD"},
         digest : Digests, staged : {"NONE"}]
        \cup [step : {"WRITE"}, digest : Digests, staged : {"DIRTY"}]
        \cup [step : {"LINK", "UNLINK"}, digest : Digests, staged : {"FLUSHED"}]

At(w, step) == put[w].step = step
GoTo(w, step) == put' = [put EXCEPT ![w].step = step]
Staged(w, step, staged) ==
  put' = [put EXCEPT ![w] = [step |-> step, digest |-> @.digest, staged |-> staged]]
End(w) == put' = [put EXCEPT ![w] = Idle]

Fault == faults < MaxFaults /\ faults' = faults + 1 /\ UNCHANGED crashes

StoreInit ==
  /\ put = [w \in Writers |-> Idle]
  /\ shard = [s \in Shards |-> "ABSENT"]
  /\ object = [d \in Digests |-> "ABSENT"]
  /\ bytes = [d \in Digests |-> "FLUSHED"]
  /\ returned = {}
  /\ touched = {}
  /\ faults = 0 /\ crashes = 0

-----------------------------------------------------------------------------
(* put_bytes, a step per system call                                       *)

Begin(w, d) ==
  /\ put[w] = Idle
  /\ put' = [put EXCEPT ![w] = [step |-> "MKDIR", digest |-> d, staged |-> "NONE"]]
  /\ UNCHANGED <<treeVars, returned, touched, boundVars>>

MakeShard(w) ==
  /\ At(w, "MKDIR")
  /\ shard' = [shard EXCEPT ![ShardOf[put[w].digest]] = IF @ = "ABSENT" THEN "CACHED" ELSE @]
  /\ GoTo(w, "FLUSH_OBJECTS")
  /\ UNCHANGED <<object, bytes, returned, touched, boundVars>>

\* Mutant: the name of a new shard is not flushed.
FlushNothing(w) ==
  /\ At(w, "FLUSH_OBJECTS")
  /\ GoTo(w, "LOOK")
  /\ UNCHANGED <<treeVars, returned, touched, boundVars>>

Flushed(entries) == [e \in DOMAIN entries |-> IF entries[e] = "CACHED" THEN "DURABLE"
                                              ELSE entries[e]]

FlushObjects(w) ==
  /\ At(w, "FLUSH_OBJECTS")
  /\ shard' = Flushed(shard)
  /\ GoTo(w, "LOOK")
  /\ UNCHANGED <<object, bytes, returned, touched, boundVars>>

\* Mutant: an object that verifies is returned as it is.
LookAndReturn(w) ==
  /\ At(w, "LOOK")
  /\ IF Present(put[w].digest)
     THEN /\ End(w)
          /\ returned' = IF bytes[put[w].digest] = "BAD" THEN returned
                         ELSE returned \cup {put[w].digest}
     ELSE GoTo(w, "CREATE") /\ UNCHANGED returned
  /\ UNCHANGED <<treeVars, touched, boundVars>>

\* An existing object is verified; bad bytes are reported, never repaired.
Look(w) ==
  /\ At(w, "LOOK")
  /\ IF ~Present(put[w].digest) THEN GoTo(w, "CREATE")
     ELSE IF bytes[put[w].digest] = "BAD" THEN End(w) ELSE GoTo(w, "FLUSH_SHARD")
  /\ UNCHANGED <<treeVars, returned, touched, boundVars>>

CreateStaging(w) ==
  /\ At(w, "CREATE")
  /\ Staged(w, "WRITE", "DIRTY")
  /\ UNCHANGED <<treeVars, returned, touched, boundVars>>

\* write, flush and fsync of the staging file
WriteStaging(w) ==
  /\ At(w, "WRITE")
  /\ Staged(w, "LINK", "FLUSHED")
  /\ UNCHANGED <<treeVars, returned, touched, boundVars>>

\* os.link creates the object unless another writer did; the winner's object is
\* verified, and bad bytes end the call.
Link(w) ==
  /\ At(w, "LINK")
  /\ IF Present(put[w].digest)
     THEN /\ IF bytes[put[w].digest] = "BAD" THEN End(w) ELSE GoTo(w, "UNLINK")
          /\ UNCHANGED <<object, bytes>>
     ELSE /\ object' = [object EXCEPT ![put[w].digest] = "CACHED"]
          /\ bytes' = [bytes EXCEPT ![put[w].digest] = put[w].staged]
          /\ GoTo(w, "UNLINK")
  /\ UNCHANGED <<shard, returned, touched, boundVars>>

Unlink(w) ==
  /\ At(w, "UNLINK")
  /\ Staged(w, "FLUSH_SHARD", "NONE")
  /\ UNCHANGED <<treeVars, returned, touched, boundVars>>

\* Both ways out flush the shard, and with it the entries of other writers.
FlushShard(w) ==
  /\ At(w, "FLUSH_SHARD")
  /\ object' = [d \in Digests |->
                  IF ShardOf[d] = ShardOf[put[w].digest] /\ object[d] = "CACHED"
                  THEN "DURABLE" ELSE object[d]]
  /\ returned' = returned \cup {put[w].digest}
  /\ End(w)
  /\ UNCHANGED <<shard, bytes, touched, boundVars>>

\* A system call raises and the call ends; what it published stays published.
PutFails(w) ==
  /\ put[w] # Idle
  /\ End(w)
  /\ Fault
  /\ UNCHANGED <<treeVars, returned, touched>>

-----------------------------------------------------------------------------
(* The machine                                                             *)

Crash == crashes < MaxCrashes /\ crashes' = crashes + 1 /\ UNCHANGED faults

\* The process of one writer dies; the file system lives on.
Kill(w) ==
  /\ put[w] # Idle
  /\ End(w)
  /\ Crash
  /\ UNCHANGED <<treeVars, returned, touched>>

\* Each cached entry, and bytes not on disk, may or may not have made it.
PowerLoss ==
  /\ Crash
  /\ put' = [w \in Writers |-> Idle]
  /\ \E keptShards \in SUBSET {s \in Shards : shard[s] = "CACHED"},
        keptObjects \in SUBSET {d \in Digests : object[d] = "CACHED"},
        torn \in SUBSET {d \in Digests : Present(d) /\ bytes[d] = "DIRTY"} :
       /\ shard' = [s \in Shards |->
                      IF shard[s] = "DURABLE" \/ s \in keptShards THEN "DURABLE" ELSE "ABSENT"]
       /\ object' = [d \in Digests |->
                       IF shard'[ShardOf[d]] = "DURABLE"
                          /\ (object[d] = "DURABLE" \/ d \in keptObjects)
                       THEN "DURABLE" ELSE "ABSENT"]
       /\ bytes' = [d \in Digests |-> IF d \in torn THEN "BAD"
                                      ELSE IF bytes[d] = "DIRTY" THEN "FLUSHED"
                                      ELSE bytes[d]]
  /\ UNCHANGED <<returned, touched>>

\* Something other than the store changes an object.
Touch(d) ==
  /\ Present(d)
  /\ Cardinality(touched) < MaxTouched
  /\ bytes' = [bytes EXCEPT ![d] = "BAD"]
  /\ touched' = touched \cup {d}
  /\ UNCHANGED <<put, shard, object, returned, boundVars>>

PutStep(w) ==
  \/ MakeShard(w) \/ FlushObjects(w) \/ Look(w) \/ CreateStaging(w)
  \/ WriteStaging(w) \/ Link(w) \/ Unlink(w) \/ FlushShard(w)

StoreNext ==
  \/ \E w \in Writers : PutStep(w) \/ PutFails(w) \/ Kill(w) \/ \E d \in Digests : Begin(w, d)
  \/ PowerLoss
  \/ \E d \in Digests : Touch(d)

StoreSpec == StoreInit /\ [][StoreNext]_storeVars

-----------------------------------------------------------------------------
(* Properties                                                              *)

\* Every variable stays in its type; a call links and unlinks only a staging
\* file whose bytes are on disk.
StoreTypeOK ==
  /\ put \in [Writers -> {Idle} \cup Call]
  /\ shard \in [Shards -> Entries]
  /\ object \in [Digests -> Entries]
  /\ bytes \in [Digests -> {"FLUSHED", "DIRTY", "BAD"}]
  /\ returned \subseteq Digests
  /\ touched \subseteq Digests
  /\ faults \in 0 .. MaxFaults
  /\ crashes \in 0 .. MaxCrashes

\* A reference that put_bytes returned names an object that a power failure
\* cannot lose, whichever writer published it and whoever flushed it.
ReturnedIsDurable ==
  \A d \in returned : object[d] = "DURABLE" /\ shard[ShardOf[d]] = "DURABLE"

\* A reader finds the right bytes or none, also after a power failure, except
\* where something else changed the object.
VisibleIsWhole ==
  \A d \in Digests : Present(d) /\ bytes[d] = "BAD" => d \in touched

\* What a caller may rely on, with the steps of the calls that bring it about.
DurableInv == StoreTypeOK /\ ReturnedIsDurable /\ VisibleIsWhole

\* An object that is there keeps its bytes: the store never overwrites an
\* object and never repairs a damaged one.
NeverRepaired ==
  [][\A d \in Digests : Present(d) /\ Present(d)' /\ bytes[d] = "BAD" => bytes'[d] = "BAD"]_storeVars

Promise == INSTANCE DurableStore WITH
  visible <- {d \in Digests : Present(d)},
  damaged <- {d \in Digests : Present(d) /\ bytes[d] = "BAD"},
  acknowledged <- returned

\* The directory tree is a durable store of whole objects.
StoreIsDurable == Promise!Spec
=============================================================================
