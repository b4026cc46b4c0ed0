-------------------------- MODULE ArtifactStoreProofs --------------------------
(***************************************************************************)
(* Safety of the artifact store for any writers, contents and shards, and  *)
(* any number of faults, crashes and outside changes.                      *)
(*                                                                         *)
(* The invariant follows a call through put_bytes: past FLUSH_OBJECTS its  *)
(* shard is durable, past the link its object is there, and no object ever *)
(* has bytes that are not on disk.                                         *)
(***************************************************************************)
EXTENDS ArtifactStore, TLAPS

\* Steps that follow the flush of the objects directory.
PastShard == {"LOOK", "CREATE", "WRITE", "LINK", "UNLINK", "FLUSH_SHARD"}
\* Steps at which the object is in its shard.
PastLink == {"UNLINK", "FLUSH_SHARD"}

Follows(w) ==
  /\ put[w].step = "FLUSH_OBJECTS" => shard[ShardOf[put[w].digest]] # "ABSENT"
  /\ put[w].step \in PastShard => shard[ShardOf[put[w].digest]] = "DURABLE"
  /\ put[w].step \in PastLink => Present(put[w].digest)
CallsFollowTree == \A w \in Writers : Follows(w)

NothingDirty == \A d \in Digests : bytes[d] # "DIRTY"

StoreInv == StoreTypeOK /\ CallsFollowTree /\ NothingDirty /\ ReturnedIsDurable /\ VisibleIsWhole

-----------------------------------------------------------------------------
(* Facts about the records of a call                                       *)

\* A running call names a content, and an idle writer is at no step of one.
LEMMA CallFields ==
  ASSUME StoreTypeOK, NEW w \in Writers
  PROVE  /\ put[w] # Idle => put[w] \in Call /\ put[w].digest \in Digests
         /\ put[w].step # "IDLE" => put[w] # Idle
         /\ Idle.step = "IDLE"
BY DEF StoreTypeOK, Call, Idle

(* A call that moves to a step and staging state that fit stays a call.    *)
LEMMA CallStages ==
  ASSUME StoreTypeOK, NEW w \in Writers, put[w] # Idle, NEW step, NEW staged, Staged(w, step, staged),
         \/ step \in {"MKDIR", "FLUSH_OBJECTS", "LOOK", "CREATE", "FLUSH_SHARD"} /\ staged = "NONE"
         \/ step = "WRITE" /\ staged = "DIRTY"
         \/ step \in {"LINK", "UNLINK"} /\ staged = "FLUSHED"
  PROVE  /\ put' \in [Writers -> {Idle} \cup Call]
         /\ put'[w].step = step /\ put'[w].digest = put[w].digest
         /\ \A v \in Writers \ {w} : put'[v] = put[v]
<1>1. put[w].digest \in Digests /\ put \in [Writers -> {Idle} \cup Call]
  BY CallFields DEF StoreTypeOK
<1> DEFINE next == [step |-> step, digest |-> put[w].digest, staged |-> staged]
<1>2. next \in Call
  BY <1>1 DEF Call
<1>3. put' = [put EXCEPT ![w] = next]
  BY DEF Staged
<1> QED BY <1>1, <1>2, <1>3

(* So does a call that moves on with the staging state it has.             *)
LEMMA CallGoes ==
  ASSUME StoreTypeOK, NEW w \in Writers, NEW step, GoTo(w, step),
         \/ /\ put[w].step \in {"MKDIR", "FLUSH_OBJECTS", "LOOK"}
            /\ step \in {"FLUSH_OBJECTS", "LOOK", "CREATE", "FLUSH_SHARD"}
         \/ put[w].step = "LINK" /\ step = "UNLINK"
  PROVE  /\ put' \in [Writers -> {Idle} \cup Call]
         /\ put'[w].step = step /\ put'[w].digest = put[w].digest
         /\ \A v \in Writers \ {w} : put'[v] = put[v]
<1>1. put[w] \in Call /\ put[w] # Idle
  BY CallFields
<1>2. Staged(w, step, put[w].staged)
  <2>1. [put[w] EXCEPT !.step = step]
          = [step |-> step, digest |-> put[w].digest, staged |-> put[w].staged]
    BY <1>1 DEF Call
  <2> QED BY <2>1 DEF GoTo, Staged
<1>3. \/ step \in {"MKDIR", "FLUSH_OBJECTS", "LOOK", "CREATE", "FLUSH_SHARD"} /\ put[w].staged = "NONE"
      \/ step \in {"LINK", "UNLINK"} /\ put[w].staged = "FLUSHED"
  BY <1>1 DEF Call
<1> QED BY <1>1, <1>2, <1>3, CallStages

(* A call that ends leaves the others where they are.                      *)
LEMMA CallEnds ==
  ASSUME StoreTypeOK, NEW w \in Writers, End(w)
  PROVE  /\ put' \in [Writers -> {Idle} \cup Call]
         /\ put'[w] = Idle
         /\ \A v \in Writers \ {w} : put'[v] = put[v]
BY DEF StoreTypeOK, End

-----------------------------------------------------------------------------
(* Every step keeps the invariant                                          *)

USE ShardAssumption, BoundAssumption DEF ShardAssumption, BoundAssumption

(* A step of one call that leaves the tree alone keeps the invariant when  *)
(* the call is where the tree allows it.                                   *)
LEMMA CallStepKeepsInv ==
  ASSUME StoreInv, NEW w \in Writers,
         put' \in [Writers -> {Idle} \cup Call],
         \A v \in Writers \ {w} : put'[v] = put[v],
         Follows(w)',
         faults' \in 0 .. MaxFaults, crashes' \in 0 .. MaxCrashes,
         UNCHANGED <<treeVars, returned, touched>>
  PROVE  StoreInv'
<1> USE DEF treeVars
<1>1. StoreTypeOK'
  BY DEF StoreInv, StoreTypeOK
<1>2. CallsFollowTree'
  <2> SUFFICES ASSUME NEW v \in Writers, v # w PROVE Follows(v)'
    BY DEF CallsFollowTree
  <2>1. put'[v] = put[v] /\ Follows(v)
    BY DEF StoreInv, CallsFollowTree
  <2> QED BY <2>1 DEF Follows, Present
<1>3. NothingDirty' /\ ReturnedIsDurable' /\ VisibleIsWhole'
  BY DEF StoreInv, NothingDirty, ReturnedIsDurable, VisibleIsWhole, Present
<1> QED BY <1>1, <1>2, <1>3 DEF StoreInv

(* A call that ends, by returning, failing or being killed.                *)
LEMMA EndKeepsInv ==
  ASSUME StoreInv, NEW w \in Writers, End(w),
         faults' \in 0 .. MaxFaults, crashes' \in 0 .. MaxCrashes,
         UNCHANGED <<treeVars, returned, touched>>
  PROVE  StoreInv'
<1>1. /\ put' \in [Writers -> {Idle} \cup Call]
      /\ put'[w] = Idle
      /\ \A v \in Writers \ {w} : put'[v] = put[v]
  BY CallEnds DEF StoreInv
<1>2. Follows(w)'
  BY <1>1 DEF Follows, Idle, PastShard, PastLink
<1> QED BY <1>1, <1>2, CallStepKeepsInv

LEMMA InitEstablishesInv == StoreInit => StoreInv
BY DEF StoreInit, StoreInv, StoreTypeOK, CallsFollowTree, Follows, PastShard, PastLink, NothingDirty,
       ReturnedIsDurable, VisibleIsWhole, Present, Idle, Entries

LEMMA BeginKeepsInv ==
  ASSUME StoreInv, NEW w \in Writers, NEW d \in Digests, Begin(w, d) PROVE StoreInv'
<1> DEFINE call == [step |-> "MKDIR", digest |-> d, staged |-> "NONE"]
<1>1. call \in Call
  BY DEF Call
<1>2. put' = [put EXCEPT ![w] = call] /\ put \in [Writers -> {Idle} \cup Call]
  BY DEF Begin, StoreInv, StoreTypeOK
<1>3. put' \in [Writers -> {Idle} \cup Call] /\ put'[w] = call
      /\ \A v \in Writers \ {w} : put'[v] = put[v]
  BY <1>1, <1>2
<1>4. Follows(w)'
  BY <1>3 DEF Follows, PastShard, PastLink
<1>5. faults' \in 0 .. MaxFaults /\ crashes' \in 0 .. MaxCrashes
      /\ UNCHANGED <<treeVars, returned, touched>>
  BY DEF Begin, StoreInv, StoreTypeOK, boundVars
<1> QED BY <1>3, <1>4, <1>5, CallStepKeepsInv

LEMMA MakeShardKeepsInv ==
  ASSUME StoreInv, NEW w \in Writers, MakeShard(w) PROVE StoreInv'
<1> DEFINE s == ShardOf[put[w].digest]
<1> USE DEF StoreInv, Entries
<1>1. put[w] # Idle /\ put[w].digest \in Digests /\ s \in Shards
  BY CallFields DEF MakeShard, At
<1>2. /\ put' \in [Writers -> {Idle} \cup Call]
      /\ put'[w].step = "FLUSH_OBJECTS" /\ put'[w].digest = put[w].digest
      /\ \A v \in Writers \ {w} : put'[v] = put[v]
  BY CallGoes DEF MakeShard, At
<1>3. /\ shard' \in [Shards -> Entries] /\ shard'[s] # "ABSENT"
      /\ \A r \in Shards : shard[r] = "DURABLE" => shard'[r] = "DURABLE"
      /\ \A r \in Shards : shard[r] # "ABSENT" => shard'[r] # "ABSENT"
  BY <1>1 DEF MakeShard, StoreTypeOK
<1>4. UNCHANGED <<object, bytes, returned, touched, faults, crashes>>
  BY DEF MakeShard, boundVars
<1>5. StoreTypeOK'
  BY <1>2, <1>3, <1>4 DEF StoreTypeOK
<1>6. CallsFollowTree'
  <2>1. Follows(w)'
    BY <1>2, <1>3 DEF Follows, PastShard, PastLink
  <2>2. ASSUME NEW v \in Writers, v # w PROVE Follows(v)'
    <3>1. put'[v] = put[v] /\ Follows(v)
      BY <1>2, <2>2 DEF CallsFollowTree
    <3>2. put[v].step \in PastShard \cup {"FLUSH_OBJECTS"} => ShardOf[put[v].digest] \in Shards
      BY CallFields DEF PastShard
    <3> QED BY <3>1, <3>2, <1>3, <1>4 DEF Follows, Present
  <2> QED BY <2>1, <2>2 DEF CallsFollowTree
<1>7. ReturnedIsDurable'
  BY <1>3, <1>4 DEF ReturnedIsDurable, StoreTypeOK
<1>8. NothingDirty' /\ VisibleIsWhole'
  BY <1>4 DEF NothingDirty, VisibleIsWhole, Present
<1> QED BY <1>5, <1>6, <1>7, <1>8

LEMMA FlushObjectsKeepsInv ==
  ASSUME StoreInv, NEW w \in Writers, FlushObjects(w) PROVE StoreInv'
<1> DEFINE s == ShardOf[put[w].digest]
<1> USE DEF StoreInv, Entries
<1>1. put[w] # Idle /\ put[w].digest \in Digests /\ s \in Shards
  BY CallFields DEF FlushObjects, At
<1>2. /\ put' \in [Writers -> {Idle} \cup Call]
      /\ put'[w].step = "LOOK" /\ put'[w].digest = put[w].digest
      /\ \A v \in Writers \ {w} : put'[v] = put[v]
  BY CallGoes DEF FlushObjects, At
<1>3. /\ shard' \in [Shards -> Entries]
      /\ \A r \in Shards : shard[r] # "ABSENT" => shard'[r] = "DURABLE"
  BY DEF FlushObjects, Flushed, StoreTypeOK
<1>4. UNCHANGED <<object, bytes, returned, touched, faults, crashes>>
  BY DEF FlushObjects, boundVars
<1>5. StoreTypeOK'
  BY <1>2, <1>3, <1>4 DEF StoreTypeOK
<1>6. CallsFollowTree'
  <2>1. Follows(w)'
    <3>1. shard[s] # "ABSENT"
      BY DEF FlushObjects, At, CallsFollowTree, Follows
    <3> QED BY <1>1, <1>2, <1>3, <3>1 DEF Follows, PastLink
  <2>2. ASSUME NEW v \in Writers, v # w PROVE Follows(v)'
    <3>1. put'[v] = put[v] /\ Follows(v)
      BY <1>2, <2>2 DEF CallsFollowTree
    <3>2. put[v].step \in PastShard \cup {"FLUSH_OBJECTS"} => ShardOf[put[v].digest] \in Shards
      BY CallFields DEF PastShard
    <3> QED BY <3>1, <3>2, <1>3, <1>4 DEF Follows, Present
  <2> QED BY <2>1, <2>2 DEF CallsFollowTree
<1>7. ReturnedIsDurable'
  BY <1>3, <1>4 DEF ReturnedIsDurable, StoreTypeOK
<1>8. NothingDirty' /\ VisibleIsWhole'
  BY <1>4 DEF NothingDirty, VisibleIsWhole, Present
<1> QED BY <1>5, <1>6, <1>7, <1>8

LEMMA LookKeepsInv ==
  ASSUME StoreInv, NEW w \in Writers, Look(w) PROVE StoreInv'
<1> DEFINE d == put[w].digest
<1>1. faults' \in 0 .. MaxFaults /\ crashes' \in 0 .. MaxCrashes
      /\ UNCHANGED <<treeVars, returned, touched>>
  BY DEF Look, StoreInv, StoreTypeOK, boundVars
<1>2. shard[ShardOf[d]] = "DURABLE"
  BY DEF StoreInv, Look, At, CallsFollowTree, Follows, PastShard
<1>3. CASE End(w)
  BY <1>1, <1>3, EndKeepsInv
<1>4. CASE ~Present(d) /\ GoTo(w, "CREATE")
  <2>1. /\ put' \in [Writers -> {Idle} \cup Call]
        /\ put'[w].step = "CREATE" /\ put'[w].digest = d
        /\ \A v \in Writers \ {w} : put'[v] = put[v]
    BY <1>4, CallGoes DEF Look, At, StoreInv
  <2>2. Follows(w)'
    BY <2>1, <1>1, <1>2 DEF Follows, PastLink, treeVars
  <2> QED BY <1>1, <2>1, <2>2, CallStepKeepsInv
<1>5. CASE Present(d) /\ GoTo(w, "FLUSH_SHARD")
  <2>1. /\ put' \in [Writers -> {Idle} \cup Call]
        /\ put'[w].step = "FLUSH_SHARD" /\ put'[w].digest = d
        /\ \A v \in Writers \ {w} : put'[v] = put[v]
    BY <1>5, CallGoes DEF Look, At, StoreInv
  <2>2. Follows(w)'
    BY <2>1, <1>1, <1>2, <1>5 DEF Follows, Present, treeVars
  <2> QED BY <1>1, <2>1, <2>2, CallStepKeepsInv
<1> QED BY <1>3, <1>4, <1>5 DEF Look

LEMMA CreateStagingKeepsInv ==
  ASSUME StoreInv, NEW w \in Writers, CreateStaging(w) PROVE StoreInv'
<1>1. put[w] # Idle
  BY CallFields DEF CreateStaging, At, StoreInv
<1>2. /\ put' \in [Writers -> {Idle} \cup Call]
      /\ put'[w].step = "WRITE" /\ put'[w].digest = put[w].digest
      /\ \A v \in Writers \ {w} : put'[v] = put[v]
  BY <1>1, CallStages DEF CreateStaging, StoreInv
<1>3. faults' \in 0 .. MaxFaults /\ crashes' \in 0 .. MaxCrashes
      /\ UNCHANGED <<treeVars, returned, touched>>
  BY DEF CreateStaging, StoreInv, StoreTypeOK, boundVars
<1>4. Follows(w)'
  BY <1>2, <1>3 DEF CreateStaging, At, StoreInv, CallsFollowTree, Follows, PastShard, PastLink,
                    treeVars
<1> QED BY <1>2, <1>3, <1>4, CallStepKeepsInv

LEMMA WriteStagingKeepsInv ==
  ASSUME StoreInv, NEW w \in Writers, WriteStaging(w) PROVE StoreInv'
<1>1. put[w] # Idle
  BY CallFields DEF WriteStaging, At, StoreInv
<1>2. /\ put' \in [Writers -> {Idle} \cup Call]
      /\ put'[w].step = "LINK" /\ put'[w].digest = put[w].digest
      /\ \A v \in Writers \ {w} : put'[v] = put[v]
  BY <1>1, CallStages DEF WriteStaging, StoreInv
<1>3. faults' \in 0 .. MaxFaults /\ crashes' \in 0 .. MaxCrashes
      /\ UNCHANGED <<treeVars, returned, touched>>
  BY DEF WriteStaging, StoreInv, StoreTypeOK, boundVars
<1>4. Follows(w)'
  BY <1>2, <1>3 DEF WriteStaging, At, StoreInv, CallsFollowTree, Follows, PastShard, PastLink,
                    treeVars
<1> QED BY <1>2, <1>3, <1>4, CallStepKeepsInv

LEMMA UnlinkKeepsInv ==
  ASSUME StoreInv, NEW w \in Writers, Unlink(w) PROVE StoreInv'
<1>1. put[w] # Idle
  BY CallFields DEF Unlink, At, StoreInv
<1>2. /\ put' \in [Writers -> {Idle} \cup Call]
      /\ put'[w].step = "FLUSH_SHARD" /\ put'[w].digest = put[w].digest
      /\ \A v \in Writers \ {w} : put'[v] = put[v]
  BY <1>1, CallStages DEF Unlink, StoreInv
<1>3. faults' \in 0 .. MaxFaults /\ crashes' \in 0 .. MaxCrashes
      /\ UNCHANGED <<treeVars, returned, touched>>
  BY DEF Unlink, StoreInv, StoreTypeOK, boundVars
<1>4. Follows(w)'
  BY <1>2, <1>3 DEF Unlink, At, StoreInv, CallsFollowTree, Follows, PastShard, PastLink,
                    treeVars, Present
<1> QED BY <1>2, <1>3, <1>4, CallStepKeepsInv

(* What a linking call publishes: nothing was there, and its bytes are on disk. *)
LEMMA LinkPublishes ==
  ASSUME StoreInv, NEW w \in Writers, Link(w), ~Present(put[w].digest)
  PROVE  /\ put[w].digest \in Digests
         /\ object' = [object EXCEPT ![put[w].digest] = "CACHED"]
         /\ bytes' = [bytes EXCEPT ![put[w].digest] = "FLUSHED"]
         /\ GoTo(w, "UNLINK")
<1>1. put[w] \in Call /\ put[w].digest \in Digests
  BY CallFields DEF Link, At, StoreInv
<1>2. put[w].staged = "FLUSHED"
  BY <1>1 DEF Call, Link, At
<1> QED BY <1>1, <1>2 DEF Link

LEMMA LinkKeepsInv ==
  ASSUME StoreInv, NEW w \in Writers, Link(w) PROVE StoreInv'
<1> DEFINE d == put[w].digest
<1>1. shard[ShardOf[d]] = "DURABLE"
  BY DEF StoreInv, Link, At, CallsFollowTree, Follows, PastShard
<1>2. faults' \in 0 .. MaxFaults /\ crashes' \in 0 .. MaxCrashes
      /\ UNCHANGED <<shard, returned, touched>>
  BY DEF Link, StoreInv, StoreTypeOK, boundVars
<1>3. CASE Present(d)
  <2>1. UNCHANGED <<treeVars, returned, touched>>
    BY <1>2, <1>3 DEF Link, treeVars
  <2>2. CASE End(w)
    BY <1>2, <2>1, <2>2, EndKeepsInv
  <2>3. CASE GoTo(w, "UNLINK")
    <3>1. /\ put' \in [Writers -> {Idle} \cup Call]
          /\ put'[w].step = "UNLINK" /\ put'[w].digest = d
          /\ \A v \in Writers \ {w} : put'[v] = put[v]
      BY <2>3, CallGoes DEF Link, At, StoreInv
    <3>2. Follows(w)'
      BY <3>1, <2>1, <1>1, <1>3 DEF Follows, Present, treeVars
    <3> QED BY <1>2, <2>1, <3>1, <3>2, CallStepKeepsInv
  <2> QED BY <1>3, <2>2, <2>3 DEF Link
<1>4. CASE ~Present(d)
  <2>1. /\ d \in Digests
        /\ object' = [object EXCEPT ![d] = "CACHED"]
        /\ bytes' = [bytes EXCEPT ![d] = "FLUSHED"]
        /\ GoTo(w, "UNLINK")
    BY <1>4, LinkPublishes
  <2>2. /\ put' \in [Writers -> {Idle} \cup Call]
        /\ put'[w].step = "UNLINK" /\ put'[w].digest = d
        /\ \A v \in Writers \ {w} : put'[v] = put[v]
    BY <2>1, CallGoes DEF Link, At, StoreInv
  <2>3. object \in [Digests -> Entries] /\ bytes \in [Digests -> {"FLUSHED", "DIRTY", "BAD"}]
    BY DEF StoreInv, StoreTypeOK
  <2>4. object'[d] # "ABSENT" /\ \A e \in Digests : Present(e) => Present(e)'
    BY <2>1, <2>3 DEF Present
  <2>5. StoreTypeOK'
    BY <1>2, <2>1, <2>2, <2>3 DEF StoreInv, StoreTypeOK, Entries
  <2>6. CallsFollowTree'
    <3>1. Follows(w)'
      BY <1>1, <1>2, <2>2, <2>4 DEF Follows, Present
    <3>2. ASSUME NEW v \in Writers, v # w PROVE Follows(v)'
      <4>1. put'[v] = put[v] /\ Follows(v)
        BY <2>2, <3>2 DEF StoreInv, CallsFollowTree
      <4>2. put[v].step \in PastLink => put[v].digest \in Digests
        BY CallFields DEF PastLink, StoreInv
      <4> QED BY <4>1, <4>2, <1>2, <2>4 DEF Follows
    <3> QED BY <3>1, <3>2 DEF CallsFollowTree
  <2>7. ReturnedIsDurable'
    <3>1. d \notin returned
      BY <1>4 DEF StoreInv, ReturnedIsDurable, Present
    <3> QED BY <1>2, <2>1, <2>3, <3>1 DEF StoreInv, ReturnedIsDurable, StoreTypeOK
  <2>8. NothingDirty' /\ VisibleIsWhole'
    BY <1>2, <2>1, <2>3 DEF StoreInv, NothingDirty, VisibleIsWhole, Present
  <2> QED BY <2>5, <2>6, <2>7, <2>8 DEF StoreInv
<1> QED BY <1>3, <1>4

LEMMA FlushShardKeepsInv ==
  ASSUME StoreInv, NEW w \in Writers, FlushShard(w) PROVE StoreInv'
<1> DEFINE d == put[w].digest
<1> USE DEF StoreInv
<1>1. d \in Digests /\ shard[ShardOf[d]] = "DURABLE" /\ Present(d)
  BY CallFields DEF FlushShard, At, CallsFollowTree, Follows, PastShard, PastLink
<1>2. /\ put' \in [Writers -> {Idle} \cup Call]
      /\ put'[w] = Idle
      /\ \A v \in Writers \ {w} : put'[v] = put[v]
  BY CallEnds DEF FlushShard
<1>3. UNCHANGED <<shard, bytes, touched, faults, crashes>> /\ returned' = returned \cup {d}
  BY DEF FlushShard, boundVars
<1>4. /\ object' \in [Digests -> Entries] /\ object'[d] = "DURABLE"
      /\ \A e \in Digests : object[e] = "DURABLE" => object'[e] = "DURABLE"
      /\ \A e \in Digests : Present(e) <=> Present(e)'
  BY <1>1 DEF FlushShard, StoreTypeOK, Present, Entries
<1>5. StoreTypeOK'
  BY <1>1, <1>2, <1>3, <1>4 DEF StoreTypeOK
<1>6. CallsFollowTree'
  <2>1. Follows(w)'
    BY <1>2 DEF Follows, Idle, PastShard, PastLink
  <2>2. ASSUME NEW v \in Writers, v # w PROVE Follows(v)'
    <3>1. put'[v] = put[v] /\ Follows(v)
      BY <1>2, <2>2 DEF CallsFollowTree
    <3>2. put[v].step \in PastLink => put[v].digest \in Digests
      BY CallFields DEF PastLink
    <3> QED BY <3>1, <3>2, <1>3, <1>4 DEF Follows
  <2> QED BY <2>1, <2>2 DEF CallsFollowTree
<1>7. ReturnedIsDurable'
  BY <1>1, <1>3, <1>4 DEF ReturnedIsDurable, StoreTypeOK
<1>8. NothingDirty' /\ VisibleIsWhole'
  BY <1>3, <1>4 DEF NothingDirty, VisibleIsWhole
<1> QED BY <1>5, <1>6, <1>7, <1>8

LEMMA PutFailsKeepsInv ==
  ASSUME StoreInv, NEW w \in Writers, PutFails(w) PROVE StoreInv'
<1>1. faults' \in 0 .. MaxFaults /\ crashes' \in 0 .. MaxCrashes
  BY DEF PutFails, Fault, StoreInv, StoreTypeOK
<1> QED BY <1>1, EndKeepsInv DEF PutFails

LEMMA KillKeepsInv ==
  ASSUME StoreInv, NEW w \in Writers, Kill(w) PROVE StoreInv'
<1>1. faults' \in 0 .. MaxFaults /\ crashes' \in 0 .. MaxCrashes
  BY DEF Kill, Crash, StoreInv, StoreTypeOK
<1> QED BY <1>1, EndKeepsInv DEF Kill

LEMMA TouchKeepsInv ==
  ASSUME StoreInv, NEW d \in Digests, Touch(d) PROVE StoreInv'
<1> USE DEF StoreInv
<1>1. /\ UNCHANGED <<put, shard, object, returned, faults, crashes>>
      /\ bytes' = [bytes EXCEPT ![d] = "BAD"] /\ touched' = touched \cup {d}
  BY DEF Touch, boundVars
<1>2. StoreTypeOK'
  BY <1>1 DEF StoreTypeOK
<1>3. CallsFollowTree'
  BY <1>1 DEF CallsFollowTree, Follows, Present
<1>4. NothingDirty' /\ ReturnedIsDurable' /\ VisibleIsWhole'
  BY <1>1 DEF StoreTypeOK, NothingDirty, ReturnedIsDurable, VisibleIsWhole, Present
<1> QED BY <1>2, <1>3, <1>4

(* What a power failure leaves: no bytes are torn, because none were cached, *)
(* and every durable entry in a durable shard survives.                      *)
LEMMA PowerLossKeeps ==
  ASSUME StoreInv, PowerLoss
  PROVE  /\ bytes' = bytes
         /\ object' \in [Digests -> Entries] /\ shard' \in [Shards -> Entries]
         /\ \A s \in Shards : shard[s] = "DURABLE" => shard'[s] = "DURABLE"
         /\ \A d \in Digests : object[d] = "DURABLE" /\ shard[ShardOf[d]] = "DURABLE"
                                 => object'[d] = "DURABLE"
         /\ \A d \in Digests : Present(d)' => Present(d)
<1> USE DEF StoreInv, StoreTypeOK, Entries
<1>1. PICK keptShards \in SUBSET {s \in Shards : shard[s] = "CACHED"},
           keptObjects \in SUBSET {d \in Digests : object[d] = "CACHED"},
           torn \in SUBSET {d \in Digests : Present(d) /\ bytes[d] = "DIRTY"} :
        /\ shard' = [s \in Shards |->
                       IF shard[s] = "DURABLE" \/ s \in keptShards THEN "DURABLE" ELSE "ABSENT"]
        /\ object' = [d \in Digests |->
                        IF shard'[ShardOf[d]] = "DURABLE"
                           /\ (object[d] = "DURABLE" \/ d \in keptObjects)
                        THEN "DURABLE" ELSE "ABSENT"]
        /\ bytes' = [d \in Digests |-> IF d \in torn THEN "BAD"
                                       ELSE IF bytes[d] = "DIRTY" THEN "FLUSHED"
                                       ELSE bytes[d]]
  BY DEF PowerLoss
<1>2. torn = {}
  BY DEF NothingDirty
<1>3. bytes' = bytes
  BY <1>1, <1>2 DEF NothingDirty
<1>4. /\ shard' \in [Shards -> Entries]
      /\ \A s \in Shards : shard[s] = "DURABLE" => shard'[s] = "DURABLE"
  BY <1>1
<1>5. /\ object' \in [Digests -> Entries]
      /\ \A d \in Digests : object[d] = "DURABLE" /\ shard[ShardOf[d]] = "DURABLE"
                              => object'[d] = "DURABLE"
  BY <1>1, <1>4
<1>6. ASSUME NEW d \in Digests, Present(d)' PROVE Present(d)
  BY <1>1, <1>6 DEF Present
<1> QED BY <1>3, <1>4, <1>5, <1>6

LEMMA PowerLossKeepsInv == ASSUME StoreInv, PowerLoss PROVE StoreInv'
<1> USE DEF StoreInv
<1>1. put' = [w \in Writers |-> Idle] /\ UNCHANGED <<returned, touched, faults>>
      /\ crashes' \in 0 .. MaxCrashes
  BY DEF PowerLoss, Crash, StoreTypeOK
<1>2. StoreTypeOK'
  BY <1>1, PowerLossKeeps DEF StoreTypeOK
<1>3. CallsFollowTree'
  BY <1>1 DEF CallsFollowTree, Follows, Idle, PastShard, PastLink
<1>4. ReturnedIsDurable'
  BY <1>1, PowerLossKeeps DEF ReturnedIsDurable, StoreTypeOK
<1>5. NothingDirty' /\ VisibleIsWhole'
  BY <1>1, PowerLossKeeps DEF NothingDirty, VisibleIsWhole
<1> QED BY <1>2, <1>3, <1>4, <1>5

LEMMA NextKeepsInv == ASSUME StoreInv, [StoreNext]_storeVars PROVE StoreInv'
<1>1. CASE UNCHANGED storeVars
  BY <1>1 DEF storeVars, treeVars, boundVars, StoreInv, StoreTypeOK, CallsFollowTree, Follows, NothingDirty,
              ReturnedIsDurable, VisibleIsWhole, Present
<1>2. ASSUME NEW w \in Writers, PutStep(w) PROVE StoreInv'
  BY <1>2, MakeShardKeepsInv, FlushObjectsKeepsInv, LookKeepsInv, CreateStagingKeepsInv,
     WriteStagingKeepsInv, LinkKeepsInv, UnlinkKeepsInv, FlushShardKeepsInv DEF PutStep
<1> QED BY <1>1, <1>2, BeginKeepsInv, PutFailsKeepsInv, KillKeepsInv, PowerLossKeepsInv,
           TouchKeepsInv DEF StoreNext

LEMMA StoreInvHolds == StoreSpec => []StoreInv
<1>1. StoreInv /\ [StoreNext]_storeVars => StoreInv'
  BY NextKeepsInv
<1> QED BY <1>1, InitEstablishesInv, PTL DEF StoreSpec

-----------------------------------------------------------------------------
(* The properties of the store                                             *)

(* Every variable stays in its type: in particular a call of put_bytes     *)
(* never links a staging file whose bytes are not on disk.                 *)
THEOREM StoreTypes == StoreSpec => []StoreTypeOK
<1>1. StoreInv => StoreTypeOK
  BY DEF StoreInv
<1> QED BY <1>1, StoreInvHolds, PTL

(* A reference put_bytes returned names an object that no power failure    *)
(* loses.                                                                  *)
THEOREM StoreReturnedDurable == StoreSpec => []ReturnedIsDurable
<1>1. StoreInv => ReturnedIsDurable
  BY DEF StoreInv
<1> QED BY <1>1, StoreInvHolds, PTL

(* A reader finds the right bytes or none, unless the object was changed   *)
(* from outside.                                                           *)
THEOREM StoreVisibleWhole == StoreSpec => []VisibleIsWhole
<1>1. StoreInv => VisibleIsWhole
  BY DEF StoreInv
<1> QED BY <1>1, StoreInvHolds, PTL

(* All of it at once: types, durable references and whole objects.        *)
THEOREM StoreIsSound == StoreSpec => []DurableInv
<1>1. StoreInv => DurableInv
  BY DEF StoreInv, DurableInv
<1> QED BY <1>1, StoreInvHolds, PTL

(* No step of the store changes the bytes of a damaged object that stays. *)
LEMMA StepNeverRepairs ==
  ASSUME StoreInv, [StoreNext]_storeVars,
         NEW d \in Digests, Present(d), Present(d)', bytes[d] = "BAD"
  PROVE  bytes'[d] = "BAD"
<1>1. CASE UNCHANGED bytes
  BY <1>1
<1>2. ASSUME NEW w \in Writers, Link(w) PROVE bytes'[d] = "BAD"
  <2>1. CASE Present(put[w].digest)
    BY <1>2, <2>1 DEF Link
  <2>2. CASE ~Present(put[w].digest)
    BY <1>2, <2>2, LinkPublishes DEF StoreInv, StoreTypeOK
  <2> QED BY <2>1, <2>2
<1>3. ASSUME NEW e \in Digests, Touch(e) PROVE bytes'[d] = "BAD"
  BY <1>3 DEF Touch, StoreInv, StoreTypeOK
<1>4. CASE PowerLoss
  BY <1>1, <1>4, PowerLossKeeps
<1>5. ASSUME NEW w \in Writers, ~Link(w),
             PutStep(w) \/ PutFails(w) \/ Kill(w) \/ \E e \in Digests : Begin(w, e)
      PROVE  UNCHANGED bytes
  BY <1>5 DEF PutStep, MakeShard, FlushObjects, Look, CreateStaging, WriteStaging, Unlink,
              FlushShard, PutFails, Kill, Begin, treeVars
<1>6. UNCHANGED storeVars => UNCHANGED bytes
  BY DEF storeVars, treeVars
<1> QED BY <1>1, <1>2, <1>3, <1>4, <1>5, <1>6 DEF StoreNext

(* put_bytes reports damaged bytes: it neither repairs nor overwrites them. *)
THEOREM StoreNeverRepairs == StoreSpec => NeverRepaired
<1>1. StoreInv /\ [StoreNext]_storeVars
        => [\A d \in Digests : Present(d) /\ Present(d)' /\ bytes[d] = "BAD"
                                 => bytes'[d] = "BAD"]_storeVars
  BY StepNeverRepairs
<1> QED BY <1>1, StoreInvHolds, PTL DEF StoreSpec, NeverRepaired

(* What a reader sees changes as the abstract store allows.                *)
LEMMA StepIsDurableStep ==
  ASSUME StoreInv, [StoreNext]_storeVars PROVE [Promise!Next]_(Promise!vars)
<1> DEFINE visible == {d \in Digests : Present(d)}
           damaged == {d \in Digests : Present(d) /\ bytes[d] = "BAD"}
<1> USE DEF Promise!Next, Promise!vars
<1>1. CASE UNCHANGED <<object, bytes, returned>>
  <2>1. visible' = visible /\ damaged' = damaged
    BY <1>1 DEF Present
  <2> QED BY <1>1, <2>1
<1>2. ASSUME NEW w \in Writers, Link(w), ~Present(put[w].digest)
      PROVE  Promise!Publish(put[w].digest) /\ put[w].digest \in Digests
  <2>1. /\ put[w].digest \in Digests
        /\ object' = [object EXCEPT ![put[w].digest] = "CACHED"]
        /\ bytes' = [bytes EXCEPT ![put[w].digest] = "FLUSHED"]
    BY <1>2, LinkPublishes
  <2>2. visible' = visible \cup {put[w].digest} /\ damaged' = damaged
    BY <1>2, <2>1 DEF StoreInv, StoreTypeOK, Present
  <2>3. UNCHANGED returned
    BY <1>2 DEF Link
  <2> QED BY <1>2, <2>1, <2>2, <2>3 DEF Promise!Publish
<1>3. ASSUME NEW w \in Writers, FlushShard(w)
      PROVE  Promise!Acknowledge(put[w].digest) /\ put[w].digest \in Digests
  <2>1. put[w].digest \in Digests /\ Present(put[w].digest)
    BY <1>3, CallFields DEF FlushShard, At, StoreInv, CallsFollowTree, Follows, PastLink
  <2>2. visible' = visible /\ damaged' = damaged
    BY <1>3 DEF FlushShard, StoreInv, StoreTypeOK, Present
  <2> QED BY <1>3, <2>1, <2>2 DEF FlushShard, Promise!Acknowledge
<1>4. ASSUME NEW d \in Digests, Touch(d) PROVE Promise!Damage(d)
  <2>1. visible' = visible /\ damaged' = damaged \cup {d} /\ d \in visible
    BY <1>4 DEF Touch, StoreInv, StoreTypeOK, Present
  <2> QED BY <1>4, <2>1 DEF Touch, Promise!Damage
<1>5. CASE PowerLoss
  <2>1. visible' \subseteq visible /\ damaged' = damaged \cap visible'
    BY <1>5, PowerLossKeeps
  <2>2. returned \subseteq visible'
    BY <1>5, PowerLossKeeps DEF StoreInv, StoreTypeOK, ReturnedIsDurable, Present
  <2> QED BY <1>5, <2>1, <2>2 DEF PowerLoss, Promise!Lose
<1>6. ASSUME NEW w \in Writers, ~FlushShard(w), ~(Link(w) /\ ~Present(put[w].digest)),
             PutStep(w) \/ PutFails(w) \/ Kill(w) \/ \E e \in Digests : Begin(w, e)
      PROVE  UNCHANGED <<object, bytes, returned>>
  BY <1>6 DEF PutStep, MakeShard, FlushObjects, Look, CreateStaging, WriteStaging, Link, Unlink,
              PutFails, Kill, Begin, treeVars
<1>7. UNCHANGED storeVars => UNCHANGED <<object, bytes, returned>>
  BY DEF storeVars, treeVars
<1> QED BY <1>1, <1>2, <1>3, <1>4, <1>5, <1>6, <1>7 DEF StoreNext

(* The directory tree implements the durable store: objects appear whole,  *)
(* change only from outside, and are never lost once a call returned them. *)
THEOREM StoreImplementsPromise == StoreSpec => StoreIsDurable
<1>1. StoreInit => Promise!Init
  BY DEF StoreInit, Promise!Init, Present
<1>2. StoreInv /\ [StoreNext]_storeVars => [Promise!Next]_(Promise!vars)
  BY StepIsDurableStep
<1> QED BY <1>1, <1>2, StoreInvHolds, PTL DEF StoreSpec, StoreIsDurable, Promise!Spec
=============================================================================
