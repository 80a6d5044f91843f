------------------------- MODULE SyncProtocolProofs -------------------------
(***************************************************************************)
(* Proofs about SyncProtocol, for every set of fields and values, both     *)
(* strategies and every bound.  The inductive invariant says that nothing  *)
(* in the system - no event, goroutine, message or copy - carries an       *)
(* object the cluster did not have, apart from the result of applying a    *)
(* patch, which the backend only keeps after comparing checksums.          *)
(***************************************************************************)
EXTENDS SyncProtocol, SequenceTheorems, TLAPS

(* Time for slow machines.                                                 *)
USE SMTT(30), ZenonT(30)

Inv == versions \subseteq Object /\ Typed(versions) /\ Counters

-----------------------------------------------------------------------------
(* A merge patch applied to the object it was computed from yields the new *)
(* object.                                                                 *)
LEMMA PatchRoundTrip ==
    ASSUME NEW old \in Object, NEW new \in Object
    PROVE  MergePatch(old, CreateMergePatch(old, new)) = new
BY DEF MergePatch, CreateMergePatch, Object

(* What CreateMergePatch returns is a patch.                               *)
LEMMA PatchType ==
    ASSUME NEW old \in Object, NEW new \in Object
    PROVE  CreateMergePatch(old, new) \in Patch
<1> DEFINE K == {j \in Key : old[j] # new[j]}
<1>1. CreateMergePatch(old, new) \in [K -> Datum]
    BY DEF CreateMergePatch, Object
<1>2. K \in SUBSET Key
    OBVIOUS
<1> QED
    BY <1>1, <1>2 DEF Patch

(* A version written to the cluster is an object.                          *)
LEMMA VersionType ==
    ASSUME NEW data \in [Field -> Value], NEW r \in 0..MaxRevision
    PROVE  Version(data, r) \in Object
BY SyncAssumption DEF Version, Object, Key, Datum, RV

(* The types grow with the set of objects.                                 *)
LEMMA TypesMono ==
    ASSUME NEW S, NEW T, S \subseteq T
    PROVE  /\ Maybe(S) \subseteq Maybe(T)
           /\ Maybe(Event(S)) \subseteq Maybe(Event(T))
           /\ ToServer(S) \subseteq ToServer(T)
           /\ ToClient(S) \subseteq ToClient(T)
           /\ Routine(S) \subseteq Routine(T)
<1>1. Maybe(S) \subseteq Maybe(T)
    BY DEF Maybe
<1>2. Event(S) \subseteq Event(T)
    BY DEF Event
<1>3. ToServer(S) \subseteq ToServer(T)
    BY DEF ToServer
<1>4. ToClient(S) \subseteq ToClient(T)
    BY <1>1 DEF ToClient
<1>5. After(S) \subseteq After(T)
    BY DEF After
<1>6. Routine(S) \subseteq Routine(T)
    BY <1>1, <1>2, <1>3, <1>5 DEF Routine
<1> QED
    BY <1>1, <1>2, <1>3, <1>4, <1>6 DEF Maybe

(* So does the typing of the state.                                        *)
LEMMA TypedMono ==
    ASSUME NEW S, NEW T, S \subseteq T, Typed(S)
    PROVE  Typed(T)
<1>0. ToServer(S) \subseteq ToServer(T) /\ ToClient(S) \subseteq ToClient(T)
    BY TypesMono
<1>1. ASSUME NEW q \in Seq(ToServer(S)) PROVE q \in Seq(ToServer(T))
    BY <1>0, SeqMonotonic
<1>2. ASSUME NEW q \in Seq(ToClient(S)) PROVE q \in Seq(ToClient(T))
    BY <1>0, SeqMonotonic
<1>3. [Goroutine -> Routine(S)] \subseteq [Goroutine -> Routine(T)]
    BY TypesMono
<1> QED
    BY Zenon, <1>1, <1>2, <1>3, TypesMono DEF Typed

-----------------------------------------------------------------------------
(* Taking and adding messages keeps a queue typed.                         *)
LEMMA QueueTypes ==
    ASSUME NEW S, NEW q \in Seq(S)
    PROVE  /\ \A m \in S : Append(q, m) \in Seq(S)
           /\ q # <<>> => Head(q) \in S /\ Tail(q) \in Seq(S)
           /\ <<>> \in Seq(S)
BY AppendProperties, HeadTailProperties, EmptySeq

(* Nothing is on the way at the start.                                     *)
LEMMA InvInit == Init => Inv
<1> SUFFICES ASSUME Init PROVE Inv
    OBVIOUS
<1>1. <<>> \in Seq(ToServer(versions)) /\ <<>> \in Seq(ToClient(versions))
    OBVIOUS
<1>2. Idle \in Routine(versions)
    BY DEF Routine
<1> QED
    BY <1>1, <1>2, SyncAssumption
    DEF Init, Inv, Typed, Counters, Maybe

(* A write to the cluster adds a version; all else was typed by fewer.     *)
LEMMA InvWrite ==
    ASSUME Inv, NEW type \in {"Added", "Modified", "Deleted"}, Write(type)
    PROVE  Inv'
<1>1. PICK data \in [Field -> Value] :
          LET o == Version(data, revision + 1)
          IN  cluster' = o /\ versions' = versions \cup {o} /\ Enqueue(type, o)
    BY DEF Write
<1> DEFINE o == Version(data, revision + 1)
<1>2. revision + 1 \in 0..MaxRevision
    BY SyncAssumption DEF Write, Inv, Counters
<1>3. o \in Object
    BY <1>2, VersionType
<1>4. Typed(versions')
    BY <1>1, TypedMono DEF Inv
<1>5. pending' \in Maybe(Event(versions'))
    BY <1>1 DEF Enqueue, Maybe, Event
<1>6. cluster' \in Maybe(versions')
    BY <1>1 DEF Maybe
<1>7. Typed(versions)'
    BY Zenon, <1>4, <1>5, <1>6 DEF Typed, Write, backendVars
<1>8. Counters'
    BY <1>2 DEF Write, Inv, Counters, backendVars, faultVars
<1>9. versions' \subseteq Object
    BY <1>1, <1>3 DEF Inv
<1> QED
    BY <1>7, <1>8, <1>9 DEF Inv

(* The fault counter and the history of faults keep their types.           *)
LEMMA FaultCounts ==
    ASSUME Counters, NEW b \in BOOLEAN, Fault(b)
    PROVE  faults' \in Nat /\ clean' \in BOOLEAN
<1>1. faults' \in Nat
    BY DEF Counters, Fault
<1>2. clean' \in BOOLEAN
    BY Zenon DEF Fault
<1> QED
    BY <1>1, <1>2

(* Deletions, with and without an event.                                   *)
LEMMA InvDelete == Inv /\ (Delete \/ DeletedUnseen) => Inv'
<1>1. ASSUME Inv, Delete PROVE Inv'
    <2>1. cluster \in versions
        BY <1>1 DEF Delete, Inv, Typed, Maybe
    <2>2. pending' \in Maybe(Event(versions))
        BY <1>1, <2>1 DEF Delete, Enqueue, Event, Maybe
    <2> QED
        BY <1>1, <2>2
        DEF Delete, Inv, Typed, Counters, Maybe, backendVars, faultVars
<1>2. ASSUME Inv, DeletedUnseen PROVE Inv'
    <2>1. versions' \subseteq Object /\ Typed(versions)'
        BY <1>2 DEF DeletedUnseen, Inv, Typed, Maybe, clientVars, backendVars
    <2>2. faults' \in Nat /\ clean' \in BOOLEAN
        BY Zenon, <1>2, FaultCounts DEF DeletedUnseen, Inv
    <2>3. Counters'
        BY <1>2, <2>2 DEF DeletedUnseen, Inv, Counters, backendVars
    <2> QED
        BY <2>1, <2>3 DEF Inv
<1> QED
    BY <1>1, <1>2

(* A goroutine that moves to a typed state leaves the others alone.        *)
LEMMA GotoTyped ==
    ASSUME Inv, NEW g \in Goroutine, NEW r \in Routine(versions), Goto(g, r)
    PROVE  routine' \in [Goroutine -> Routine(versions)]
BY DEF Inv, Typed, Goto

(* What is known of a goroutine from where it is.                          *)
LEMMA RoutineAt ==
    ASSUME Inv, NEW g \in Goroutine
    PROVE  LET r == routine[g] IN
           /\ r \in Routine(versions)
           /\ r.at = "event" => r.event \in Event(versions)
           /\ r.at = "read" => /\ r.depth \in Nat
                               /\ r.object \in versions
                               /\ r.base \in Maybe(versions)
           /\ r.at = "invoke" => /\ r.msg \in ToServer(versions)
                                 /\ r.then \in After(versions)
           /\ r.at = "settle" => r.then \in After(versions) \ {Keep}
           /\ r.at = "listed" => /\ r.depth \in Nat
                                 /\ r.item \in Maybe(0..MaxRevision)
                                 /\ r.object \in Maybe(versions)
<1> DEFINE r == routine[g]
<1>1. r \in Routine(versions)
    BY DEF Inv, Typed
<1>2. \/ r = Idle
      \/ r \in [at : {"event"}, event : Event(versions)]
      \/ r \in [at : {"read"}, depth : Nat, object : versions,
                base : Maybe(versions)]
      \/ r \in [at : {"invoke"}, msg : ToServer(versions),
                then : After(versions)]
      \/ r \in [at : {"settle"}, then : After(versions) \ {Keep}]
      \/ r \in [at : {"listed"}, depth : Nat, item : Maybe(0..MaxRevision),
                object : Maybe(versions)]
    BY <1>1 DEF Routine
<1> QED
    BY <1>1, <1>2 DEF Idle

(* What a message carries.                                                 *)
LEMMA MessageAt ==
    ASSUME NEW S, NEW m \in ToServer(S)
    PROVE  /\ m.depth \in Nat
           /\ m.event = "newChecksum" => m.checksum \in S
           /\ m.event = "putObject" => m.object \in S
           /\ m.event = "patchObject" => m.checksum \in S
BY DEF ToServer

(* What a message from the server carries.                                 *)
LEMMA ReplyAt ==
    ASSUME NEW S, NEW m \in ToClient(S)
    PROVE  /\ m.depth \in Nat
           /\ m.event = "getObject" => m.base \in Maybe(S)
           /\ m.event = "batch" => m.item \in Maybe(0..MaxRevision)
BY DEF ToClient

(* The watcher: an event carries a version, and so does what it leads to.  *)
LEMMA InvWatcher == ASSUME Inv, WatcherStep PROVE Inv'
<1> SUFFICES /\ pending' \in Maybe(Event(versions))
             /\ routine' \in [Goroutine -> Routine(versions)]
    <2>1. UNCHANGED <<clusterVars, shadow, c2s, s2c, former, backendVars,
                      faultVars>>
        BY DEF WatcherStep, TakeEvent, Added, Deleted, Modified, Handling,
               clusterVars, backendVars, faultVars
    <2> QED
        BY Zenon, <2>1 DEF Inv, Typed, Counters, clusterVars, backendVars, faultVars
<1> USE DEF Goroutine
<1>1. CASE TakeEvent
    <2>1. pending \in Event(versions)
        BY <1>1 DEF TakeEvent, Inv, Typed, Maybe
    <2>2. [at |-> "event", event |-> pending] \in Routine(versions)
        BY <2>1 DEF Routine
    <2> QED
        BY <1>1, <2>2, GotoTyped DEF TakeEvent, Maybe
<1>2. ASSUME NEW type, Handling(type)
      PROVE  Seen \in versions /\ ObjectFromMeta(Seen) \in Maybe(versions)
             /\ pending' \in Maybe(Event(versions))
    <2>1. routine["watcher"].event \in Event(versions)
        BY <1>2, RoutineAt DEF Handling
    <2> QED
        BY <1>2, <2>1 DEF Handling, Seen, ObjectFromMeta, Event, Maybe, Inv, Typed
<1>3. CASE Added
    <2>1. PICK sum \in Checksums(Seen) :
              IF sum = NoObject THEN Goto("watcher", Idle)
              ELSE Goto("watcher", Invoking(NewChecksum(0, sum), Keep))
        BY <1>3 DEF Added
    <2>2. sum \in Maybe(versions)
        BY <1>2, <1>3 DEF Added, Checksums, Maybe
    <2>3. Idle \in Routine(versions)
        BY Zenon DEF Routine
    <2>4. ASSUME sum # NoObject
          PROVE  Invoking(NewChecksum(0, sum), Keep) \in Routine(versions)
        BY <2>2, <2>4 DEF Maybe, Invoking, NewChecksum, Routine, ToServer, After
    <2> QED
        BY <1>2, <1>3, <2>1, <2>3, <2>4, GotoTyped DEF Added
<1>4. CASE Deleted
    <2>1. Invoking(ObjectDeleted(0), IF PatchStrategy THEN Forget ELSE Keep)
              \in Routine(versions)
        BY DEF Invoking, ObjectDeleted, Routine, ToServer, After
    <2> QED
        BY Zenon, <1>2, <1>4, <2>1, GotoTyped DEF Deleted
<1>5. CASE Modified
    <2> DEFINE o == ObjectFromMeta(Seen)
    <2>1. o \in Maybe(versions)
        BY <1>2, <1>5 DEF Modified
    <2>2. (IF o = NoObject THEN Idle ELSE Read(0, o, NoObject))
              \in Routine(versions)
        BY Zenon, <2>1 DEF Maybe, Read, Routine
    <2> QED
        BY <1>2, <1>5, <2>2, GotoTyped DEF Modified
<1> QED
    BY <1>1, <1>3, <1>4, <1>5 DEF WatcherStep

(* callPutOrPatch: the announced checksum is that of the new object.       *)
LEMMA InvCallPutOrPatch ==
    ASSUME Inv, NEW g \in Goroutine, CallPutOrPatch(g)
    PROVE  Inv'
<1> DEFINE r == routine[g]
           old == Reference(r)
           patch == CreateMergePatch(old, r.object)
           sum == MergePatch(old, patch)
<1>1. r.depth \in Nat /\ r.object \in versions /\ r.base \in Maybe(versions)
    BY Zenon, RoutineAt DEF CallPutOrPatch
<1>2. old \in Maybe(versions) /\ shadow \in Maybe(versions)
    BY Zenon, <1>1 DEF Reference, Inv, Typed, Maybe
<1>3. ASSUME NEW t \in After(versions)
      PROVE  Invoking(PutObject(r.depth, r.object), t) \in Routine(versions)
    BY <1>1, <1>3 DEF Invoking, PutObject, Routine, ToServer
<1>4. ASSUME old # NoObject
      PROVE  Invoking(PatchObject(r.depth, sum, patch), Store(r.object))
                 \in Routine(versions)
    <2>1. old \in Object /\ r.object \in Object
        BY <1>1, <1>2, <1>4 DEF Inv, Maybe
    <2>2. sum = r.object /\ patch \in Patch
        BY <2>1, PatchRoundTrip, PatchType
    <2>3. Store(r.object) \in After(versions)
        BY Zenon, <1>1 DEF After, Store
    <2>4. PatchObject(r.depth, sum, patch) \in ToServer(versions)
        BY <1>1, <2>2 DEF PatchObject, ToServer
    <2> QED
        BY <2>3, <2>4 DEF Invoking, Routine
<1>5. Keep \in After(versions) /\ Store(r.object) \in After(versions)
    BY <1>1 DEF After, Store
<1>6. Idle \in Routine(versions)
    BY Zenon DEF Routine
<1>7. \E s \in Routine(versions) : Goto(g, s)
    BY <1>3, <1>4, <1>5, <1>6 DEF CallPutOrPatch
<1>8. routine' \in [Goroutine -> Routine(versions)]
    BY Zenon, <1>7, GotoTyped
<1>9. shadow' \in Maybe(versions)
    BY Zenon, <1>2 DEF CallPutOrPatch
<1> QED
    BY Zenon, <1>8, <1>9 DEF CallPutOrPatch, Inv, Typed, Counters, clusterVars,
                      backendVars, faultVars

(* The message reaches the connection.                                     *)
LEMMA InvInvoke ==
    ASSUME Inv, NEW g \in Goroutine, Invoke(g)
    PROVE  Inv'
<1> DEFINE r == routine[g]
<1>1. r.msg \in ToServer(versions) /\ r.then \in After(versions)
    BY Zenon, RoutineAt DEF Invoke
<1>2. (IF r.then = Keep THEN Idle ELSE [at |-> "settle", then |-> r.then])
          \in Routine(versions)
    BY Zenon, <1>1 DEF Routine
<1>3. routine' \in [Goroutine -> Routine(versions)]
    BY <1>2, GotoTyped DEF Invoke
<1>4. c2s' \in Seq(ToServer(versions))
    BY Zenon, <1>1, QueueTypes DEF Invoke, Inv, Typed
<1> QED
    BY Zenon, <1>3, <1>4 DEF Invoke, Inv, Typed, Counters, clusterVars,
                      backendVars, faultVars

(* The reference copy follows.                                             *)
LEMMA InvSettle ==
    ASSUME Inv, NEW g \in Goroutine, Settle(g)
    PROVE  Inv'
<1>1. routine[g].then \in After(versions) \ {Keep}
    BY Zenon, RoutineAt DEF Settle
<1>2. shadow' \in Maybe(versions)
    BY Zenon, <1>1 DEF Settle, After, Maybe
<1>3. Idle \in Routine(versions)
    BY DEF Routine
<1>4. routine' \in [Goroutine -> Routine(versions)]
    BY Zenon, <1>3, GotoTyped DEF Settle
<1> QED
    BY Zenon, <1>2, <1>4 DEF Settle, Inv, Typed, Counters, clusterVars,
                      backendVars, faultVars

(* The client takes a request or a batch.                                  *)
LEMMA InvClientReceive ==
    ASSUME Inv, ClientGetObject \/ ClientBatch
    PROVE  Inv'
<1> DEFINE m == Head(s2c)
<1> USE DEF Goroutine
<1>1. /\ s2c # <<>> /\ s2c' = Tail(s2c)
      /\ UNCHANGED <<clusterVars, pending, shadow, c2s, former, backendVars,
                     faultVars>>
    BY DEF ClientGetObject, ClientBatch, ClientReceive
<1>2. m \in ToClient(versions) /\ s2c' \in Seq(ToClient(versions))
    BY <1>1, QueueTypes DEF Inv, Typed
<1>3. routine' \in [Goroutine -> Routine(versions)]
    <2>1. CASE ClientGetObject
        <3>1. m.depth \in Nat /\ m.base \in Maybe(versions)
            BY Zenon, <1>2, <2>1, ReplyAt DEF ClientGetObject, ClientReceive
        <3>2. cluster # NoObject
                => Read(m.depth, cluster, m.base) \in Routine(versions)
            BY Zenon, <3>1 DEF Read, Routine, Inv, Typed, Maybe
        <3> QED
            BY Zenon, <2>1, <3>2, GotoTyped DEF ClientGetObject, Inv, Typed
    <2>2. CASE ClientBatch
        <3>1. m.depth \in Nat /\ m.item \in Maybe(0..MaxRevision)
            BY Zenon, <1>2, <2>2, ReplyAt DEF ClientBatch, ClientReceive
        <3>2. [at |-> "listed", depth |-> m.depth, item |-> m.item,
               object |-> cluster] \in Routine(versions)
            BY Zenon, <3>1 DEF Routine, Inv, Typed
        <3> QED
            BY Zenon, <2>2, <3>2, GotoTyped DEF ClientBatch, Inv, Typed
    <2> QED
        BY Zenon, <2>1, <2>2
<1> QED
    BY Zenon, <1>1, <1>2, <1>3 DEF Inv, Typed, Counters, clusterVars, backendVars,
                            faultVars

(* The client answers a batch.                                             *)
LEMMA InvReconcile ==
    ASSUME Inv, ReconcileMissing \/ ReconcileExtra \/ ReconcileCommon
    PROVE  Inv'
<1> DEFINE r == routine["handler"]
<1> USE DEF Goroutine
<1>1. r.depth \in Nat /\ r.object \in Maybe(versions)
    BY Zenon, RoutineAt DEF ReconcileMissing, ReconcileExtra, ReconcileCommon, InBatch
<1>2. ASSUME NEW o \in versions
      PROVE  /\ Invoking(NewChecksum(r.depth, o), Keep) \in Routine(versions)
             /\ Invoking(PutObject(r.depth, o), Keep) \in Routine(versions)
    BY <1>1, <1>2 DEF Invoking, NewChecksum, PutObject, Routine, ToServer, After
<1>3. /\ Invoking(ObjectDeleted(r.depth), Keep) \in Routine(versions)
      /\ Idle \in Routine(versions)
    BY <1>1 DEF Invoking, ObjectDeleted, Routine, ToServer, After
<1>4. ObjectFromMeta(r.object) \in Maybe(versions)
    BY <1>1 DEF ObjectFromMeta, Inv, Typed
<1>5. \E s \in Routine(versions) : Goto("handler", s)
    <2>1. CASE ReconcileMissing
        BY Zenon, <1>1, <1>2, <2>1 DEF ReconcileMissing, Maybe
    <2>2. CASE ReconcileExtra
        BY Zenon, <1>3, <2>2 DEF ReconcileExtra
    <2>3. CASE ReconcileCommon
        BY <1>2, <1>3, <1>4, <2>3 DEF ReconcileCommon, Maybe
    <2> QED
        BY Zenon, <2>1, <2>2, <2>3
<1>6. routine' \in [Goroutine -> Routine(versions)]
    BY Zenon, <1>5, GotoTyped
<1>7. shadow' \in Maybe(versions)
    BY Zenon DEF ReconcileMissing, ReconcileExtra, ReconcileCommon, Inv, Typed, Maybe
<1>8. UNCHANGED <<clusterVars, pending, c2s, s2c, former, backendVars,
                  faultVars>>
    BY Zenon DEF ReconcileMissing, ReconcileExtra, ReconcileCommon, InBatch
<1> QED
    BY Zenon, <1>6, <1>7, <1>8 DEF Inv, Typed, Counters, clusterVars, backendVars,
                            faultVars

(* What the server stores was announced as a version of the cluster.       *)
LEMMA InvServer ==
    ASSUME Inv, NEW ch \in Channel, ServerStep(ch)
    PROVE  Inv'
<1> DEFINE m == Head(Incoming(ch))
<1>1. PICK e : Receive(ch, e)
    BY DEF ServerStep, ServerVerifyObject, ServerDeleteObject,
           ServerPutObject, ServerPatchObject
<1>2. /\ m \in ToServer(versions)
      /\ c2s' \in Seq(ToServer(versions)) /\ former' \in Seq(ToServer(versions))
    BY Zenon, <1>1, QueueTypes DEF Receive, Incoming, Inv, Typed
<1>3. ASSUME NEW d \in Nat
      PROVE  GetObject(d, server) \in ToClient(versions)
    BY <1>3 DEF GetObject, ToClient, Inv, Typed
<1>4. s2c \in Seq(ToClient(versions)) /\ server \in Maybe(versions)
    BY DEF Inv, Typed
<1>5. s2c' \in Seq(ToClient(versions)) /\ server' \in Maybe(versions)
    <2>0. m.depth \in Nat
        BY <1>2, MessageAt
    <2>1. CASE ServerVerifyObject(ch)
        BY <1>3, <1>4, <2>0, <2>1, QueueTypes DEF ServerVerifyObject, Reply
    <2>2. CASE ServerDeleteObject(ch)
        BY <1>4, <2>2 DEF ServerDeleteObject, Maybe
    <2>3. CASE ServerPutObject(ch)
        <3>1. m.object \in versions
            BY Zenon, <1>2, <2>3, MessageAt DEF ServerPutObject, Receive
        <3> QED
            BY Zenon, <1>4, <2>3, <3>1 DEF ServerPutObject, saveIfNewer, Maybe
    <2>4. CASE ServerPatchObject(ch)
        <3>1. m.checksum \in versions
            BY Zenon, <1>2, <2>4, MessageAt DEF ServerPatchObject, Receive
        <3>2. Applies(m) => saveIfNewer(MergePatch(server, m.patch))
                                \in Maybe(versions)
            BY <1>4, <3>1 DEF Applies, saveIfNewer, Maybe
        <3>3. Reply(ch, GetObject(m.depth, server))
                  => s2c' \in Seq(ToClient(versions))
            BY <1>3, <1>4, <2>0, QueueTypes DEF Reply
        <3> QED
            BY Zenon, <1>4, <2>4, <3>2, <3>3 DEF ServerPatchObject
    <2> QED
        BY <2>1, <2>2, <2>3, <2>4 DEF ServerStep
<1> QED
    BY Zenon, <1>1, <1>2, <1>5 DEF Receive, Inv, Typed, Counters, clusterVars,
                            clientVars, faultVars

(* The backend's batches carry resource versions.                          *)
LEMMA InvBatches ==
    ASSUME Inv, ReconcileStep
    PROVE  Inv'
<1>1. CASE ReconcileSnapshot
    <2>1. server # NoObject => RV(server) \in 0..MaxRevision
        BY Zenon DEF Inv, Typed, Maybe, Object
    <2>2. recon' \in Maybe([item : Maybe(0..MaxRevision)])
        BY Zenon, <1>1, <2>1 DEF ReconcileSnapshot, Maybe
    <2> QED
        BY <1>1, <2>2 DEF ReconcileSnapshot, Inv, Typed, Counters,
                          clusterVars, clientVars, faultVars
<1>2. CASE ReconcileSend
    <2>1. recon.item \in Maybe(0..MaxRevision)
        BY <1>2 DEF ReconcileSend, Inv, Counters, Maybe
    <2>2. Batch(recon.item) \in ToClient(versions)
        BY <2>1 DEF Batch, ToClient
    <2>3. s2c' \in Seq(ToClient(versions))
        BY <1>2, <2>2, QueueTypes DEF ReconcileSend, Inv, Typed
    <2> QED
        BY Zenon, <1>2, <2>3 DEF ReconcileSend, Inv, Typed, Counters, Maybe,
                          clusterVars, clientVars, faultVars
<1> QED
    BY Zenon, <1>1, <1>2 DEF ReconcileStep

(* A part of a queue is a queue.                                           *)
LEMMA PartOfQueue ==
    ASSUME NEW S, NEW q \in Seq(S), NEW i \in Nat, i <= Len(q)
    PROVE  /\ SubSeq(q, 1, Len(q) - i) \in Seq(S)
           /\ SubSeq(q, Len(q) - i + 1, Len(q)) \in Seq(S)
<1>1. Len(q) \in Nat /\ \A j \in 1..Len(q) : q[j] \in S
    BY LenProperties, ElementOfSeq
<1>2. \A j \in 1..(Len(q) - i) : q[j] \in S
    BY <1>1
<1>3. \A j \in (Len(q) - i + 1)..Len(q) : q[j] \in S
    BY <1>1
<1> QED
    BY <1>1, <1>2, <1>3, SubSeqProperties

(* Faults lose messages and copies, and invent none.                       *)
LEMMA InvFaults ==
    ASSUME Inv, ConnectionLost \/ ClientRestart \/ FormerLost
    PROVE  Inv'
<1>1. <<>> \in Seq(ToServer(versions)) /\ <<>> \in Seq(ToClient(versions))
    OBVIOUS
<1>2. CASE ConnectionLost
    <2>1. c2s' \in Seq(ToServer(versions)) /\ former' \in Seq(ToServer(versions))
        BY Zenon, <1>2, PartOfQueue DEF ConnectionLost, Inv, Typed
    <2>2. faults' \in Nat /\ clean' \in BOOLEAN
        BY Zenon, <1>2, FaultCounts DEF ConnectionLost, Inv
    <2> QED
        BY Zenon, <1>1, <1>2, <2>1, <2>2 DEF ConnectionLost, Inv, Typed, Counters,
                                      clusterVars, clientVars, backendVars
<1>3. CASE ClientRestart
    <2> DEFINE seen == [type |-> "Added", object |-> cluster]
    <2>1. cluster # NoObject => seen \in Event(versions)
        BY Zenon DEF Event, Inv, Typed, Maybe
    <2>2. pending' \in Maybe(Event(versions))
        BY Zenon, <1>3, <2>1 DEF ClientRestart, Maybe
    <2>3. Idle \in Routine(versions)
        BY Zenon DEF Routine
    <2>4. cluster # NoObject
            => [at |-> "event", event |-> seen] \in Routine(versions)
        BY Zenon, <2>1 DEF Routine
    <2>5. routine' \in [Goroutine -> Routine(versions)]
        BY <1>3, <2>3, <2>4 DEF ClientRestart
    <2>6. faults' \in Nat /\ clean' \in BOOLEAN
        BY Zenon, <1>3, FaultCounts DEF ClientRestart, Inv
    <2> QED
        BY Zenon, <1>1, <1>3, <2>2, <2>5, <2>6
        DEF ClientRestart, Inv, Typed, Counters, Maybe, clusterVars, backendVars
<1>4. CASE FormerLost
    BY <1>1, <1>4 DEF FormerLost, Inv, Typed, Counters, clusterVars,
                      clientVars, backendVars, faultVars
<1> QED
    BY <1>2, <1>3, <1>4

(* Every step of the system preserves the invariant.                       *)
LEMMA InvNext == Inv /\ [Next]_vars => Inv'
<1> SUFFICES ASSUME Inv, [Next]_vars PROVE Inv'
    OBVIOUS
<1>1. CASE Create \/ Modify
    BY <1>1, InvWrite DEF Create, Modify
<1>2. CASE Delete \/ DeletedUnseen
    BY <1>2, InvDelete
<1>3. CASE WatcherStep
    BY <1>3, InvWatcher
<1>4. CASE HandlerStep
    BY <1>4, InvClientReceive, InvReconcile DEF HandlerStep
<1>5. CASE \E g \in Goroutine : RoutineStep(g)
    BY <1>5, InvCallPutOrPatch, InvInvoke, InvSettle DEF RoutineStep
<1>6. CASE \E ch \in Channel : ServerStep(ch)
    BY <1>6, InvServer
<1>7. CASE ReconcileStep
    BY <1>7, InvBatches
<1>8. CASE ConnectionLost \/ ClientRestart \/ FormerLost
    BY Zenon, <1>8, InvFaults
<1>9. CASE UNCHANGED vars
    BY <1>9 DEF vars, Inv, Typed, Counters, clusterVars, clientVars,
                backendVars, faultVars
<1> QED
    BY <1>1, <1>2, <1>3, <1>4, <1>5, <1>6, <1>7, <1>8, <1>9
    DEF Next, FaultStep

(* Nothing in the system carries an object the cluster did not have.       *)
THEOREM Genuine == Spec => []Inv
BY InvInit, InvNext, PTL DEF Spec

-----------------------------------------------------------------------------
(* The backend never holds a mixture of versions of the object, for every  *)
(* interleaving of the client's goroutines and every number of faults: a   *)
(* patch whose result has another checksum is refused (patchObject).       *)
THEOREM NeverAMixture == Spec => []FaithfulCopy
<1>1. Inv => FaithfulCopy
    BY DEF Inv, Typed, FaithfulCopy
<1> QED
    BY <1>1, Genuine, PTL

(* The variables keep their types; in particular every message on the wire *)
(* carries a whole object with a valid resource version.                   *)
THEOREM TypeCorrect == Spec => []TypeOK
<1>1. Inv => TypeOK
    BY TypedMono DEF Inv, TypeOK
<1> QED
    BY <1>1, Genuine, PTL

(* Only the server's worker changes the backend's object.                  *)
LEMMA ServerWrites ==
    ASSUME [Next]_vars, server' # server
    PROVE  \E ch \in Channel : ServerStep(ch)
BY Zenon DEF Next, Create, Modify, Delete, Write, WatcherStep, TakeEvent, Added,
       Deleted, Modified, Handling, HandlerStep, ClientGetObject, ClientBatch,
       ClientReceive, ReconcileMissing, ReconcileExtra, ReconcileCommon,
       InBatch, RoutineStep, CallPutOrPatch, Invoke, Settle, ReconcileStep,
       ReconcileSnapshot, ReconcileSend, FaultStep, ConnectionLost,
       ClientRestart, DeletedUnseen, FormerLost, backendVars, vars

(* It replaces an object by a newer one only.                              *)
LEMMA ServerNewer ==
    ASSUME [Next]_vars, server # NoObject, server' # NoObject, server' # server
    PROVE  RV(server') > RV(server)
<1>1. PICK ch \in Channel : ServerStep(ch)
    BY Zenon, ServerWrites
<1> QED
    BY Zenon, <1>1 DEF ServerStep, ServerVerifyObject, ServerDeleteObject,
                ServerPutObject, ServerPatchObject, saveIfNewer

(* The stored object is never replaced by an older version of itself,      *)
(* whatever late or repeated message arrives (saveIfNewer).                *)
THEOREM NeverOlderVersion == Spec => NoRollback
<1>1. [Next]_vars
        => [server # NoObject /\ server' # NoObject /\ server' # server
              => RV(server') > RV(server)]_vars
    BY Zenon, ServerNewer
<1> QED
    BY <1>1, PTL DEF Spec, NoRollback
-----------------------------------------------------------------------------
(***************************************************************************)
(* Why changes arrive.  The rest of the invariant follows the object's     *)
(* newest version on its way: from the watch event to the first message,   *)
(* and from there through requests and answers until the backend has it.   *)
(***************************************************************************)

Handler == routine["handler"]

(* Versions are numbered by the writes that made them.                     *)
Numbered ==
    /\ \A v \in versions : RV(v) \in 1..revision
    /\ \A a, b \in versions : RV(a) = RV(b) => a = b
    /\ deletes = 0 /\ revision # 0
          => cluster \in versions /\ RV(cluster) = revision

(* Until the first deletion nothing in the system can remove the object.   *)
Removes(m) == m.event = "objectDeleted"

Harmless(r) ==
    /\ r.at = "event" => r.event.type # "Deleted"
    /\ r.at = "invoke" => ~Removes(r.msg) /\ r.then # Forget
    /\ r.at = "settle" => r.then # Forget
    /\ r.at = "listed" /\ r.item # NoObject => r.object # NoObject

NothingRemoves ==
    deletes = 0 =>
        /\ pending # NoObject => pending.type # "Deleted"
        /\ \A g \in Goroutine : Harmless(routine[g])
        /\ \A i \in DOMAIN c2s : ~Removes(c2s[i])
        /\ \A i \in DOMAIN former : ~Removes(former[i])
        /\ \A i \in DOMAIN s2c :
              s2c[i].event = "batch" /\ s2c[i].item # NoObject => revision # 0
        /\ recon # NoObject /\ recon.item # NoObject => revision # 0

-----------------------------------------------------------------------------
(* Positions in a queue after a message is taken or added.                 *)
LEMMA AfterTail ==
    ASSUME NEW S, NEW q \in Seq(S), q # <<>>
    PROVE  /\ Head(q) = q[1] /\ 1 \in DOMAIN q
           /\ Len(q) \in Nat /\ Len(q) >= 1 /\ Len(Tail(q)) = Len(q) - 1
           /\ DOMAIN q = 1..Len(q) /\ DOMAIN Tail(q) = 1..(Len(q) - 1)
           /\ \A i \in DOMAIN Tail(q) : i + 1 \in DOMAIN q /\ Tail(q)[i] = q[i + 1]
           /\ \A i \in DOMAIN q : i # 1 => i - 1 \in DOMAIN Tail(q)
                                           /\ Tail(q)[i - 1] = q[i]
<1>1. /\ Head(q) = q[1] /\ Len(q) \in Nat /\ Len(q) >= 1
      /\ Tail(q) \in Seq(S) /\ Len(Tail(q)) = Len(q) - 1
      /\ \A i \in 1..(Len(q) - 1) : Tail(q)[i] = q[i + 1]
    BY HeadTailProperties, EmptySeq, LenProperties
<1>2. DOMAIN q = 1..Len(q) /\ DOMAIN Tail(q) = 1..(Len(q) - 1)
    BY Zenon, <1>1, LenProperties
<1> QED
    BY <1>1, <1>2

(* The positions stay, and the message is behind them.                     *)
LEMMA AfterAppend ==
    ASSUME NEW S, NEW q \in Seq(S), NEW m \in S
    PROVE  /\ Len(q) \in Nat /\ Len(Append(q, m)) = Len(q) + 1
           /\ DOMAIN q = 1..Len(q) /\ DOMAIN Append(q, m) = 1..(Len(q) + 1)
           /\ \A i \in DOMAIN q : i \in DOMAIN Append(q, m)
                                  /\ Append(q, m)[i] = q[i]
           /\ Append(q, m)[Len(q) + 1] = m
           /\ \A i \in DOMAIN Append(q, m) : i \in DOMAIN q \/ i = Len(q) + 1
<1>1. /\ Append(q, m) \in Seq(S) /\ Len(Append(q, m)) = Len(q) + 1
      /\ \A i \in 1..Len(q) : Append(q, m)[i] = q[i]
      /\ Append(q, m)[Len(q) + 1] = m
    BY AppendProperties
<1>2. Len(q) \in Nat /\ DOMAIN q = 1..Len(q)
      /\ DOMAIN Append(q, m) = 1..(Len(q) + 1)
    BY <1>1, LenProperties
<1> QED
    BY <1>1, <1>2

(* The resource version of a written object.                               *)
LEMMA VersionNumber ==
    ASSUME NEW data \in [Field -> Value], NEW r
    PROVE  RV(Version(data, r)) = r
BY DEF RV, Version, Key

(* Only writes and deletions change what the cluster has.                  *)
LEMMA ClusterChanges ==
    ASSUME [Next]_vars
    PROVE  Create \/ Modify \/ Delete \/ DeletedUnseen \/ UNCHANGED clusterVars
BY Zenon DEF Next, WatcherStep, TakeEvent, Added, Deleted, Modified, Handling,
       HandlerStep, ClientGetObject, ClientBatch, ClientReceive,
       ReconcileMissing, ReconcileExtra, ReconcileCommon, InBatch, RoutineStep,
       CallPutOrPatch, Invoke, Settle, ServerStep, ServerVerifyObject,
       ServerDeleteObject, ServerPutObject, ServerPatchObject, Receive,
       ReconcileStep, ReconcileSnapshot, ReconcileSend, FaultStep,
       ConnectionLost, ClientRestart, FormerLost, vars

(* A deletion is counted.                                                  *)
LEMMA DeletionCounted ==
    ASSUME Inv, Delete \/ DeletedUnseen
    PROVE  deletes' # 0
<1>1. deletes \in Nat
    BY DEF Inv, Counters
<1>2. deletes' = deletes + 1
    BY Zenon DEF Delete, DeletedUnseen
<1> QED
    BY <1>1, <1>2

(* What a write does.                                                      *)
LEMMA WriteEffect ==
    ASSUME Inv, NEW type, Write(type)
    PROVE  /\ revision \in Nat /\ revision' = revision + 1
           /\ cluster' \notin {NoObject} /\ RV(cluster') = revision'
           /\ versions' = versions \cup {cluster'}
           /\ pending' = [type |-> type, object |-> cluster']
           /\ UNCHANGED <<setup, deletes, routine, shadow, c2s, s2c, former,
                          backendVars, faultVars>>
<1>1. PICK data \in [Field -> Value] :
          LET o == Version(data, revision + 1)
          IN  cluster' = o /\ versions' = versions \cup {o} /\ Enqueue(type, o)
    BY Zenon DEF Write
<1>2. revision \in Nat /\ revision' = revision + 1
      /\ revision + 1 \in 0..MaxRevision
    BY SyncAssumption DEF Write, Inv, Counters
<1>3. cluster' \in Object
    BY <1>1, <1>2, VersionType
<1>4. RV(cluster') = revision'
    BY <1>1, <1>2, VersionNumber
<1> QED
    BY Zenon, <1>1, <1>2, <1>3, <1>4, AbsentAssumption DEF Enqueue, Write

(* Every write takes the next number.                                      *)
LEMMA NumberedNext ==
    ASSUME Inv, Numbered, [Next]_vars
    PROVE  Numbered'
<1>1. CASE Create \/ Modify
    <2>1. PICK type : Write(type)
        BY <1>1 DEF Create, Modify
    <2>2. /\ revision \in Nat /\ revision' = revision + 1
          /\ RV(cluster') = revision' /\ versions' = versions \cup {cluster'}
        BY <2>1, WriteEffect
    <2> QED
        BY <2>2 DEF Numbered
<1>2. CASE Delete \/ DeletedUnseen
    <2>1. deletes' # 0
        BY Zenon, <1>2, DeletionCounted
    <2> QED
        BY Zenon, <1>2, <2>1 DEF Delete, DeletedUnseen, Numbered
<1>3. CASE UNCHANGED clusterVars
    BY Zenon, <1>3 DEF clusterVars, Numbered
<1> QED
    BY <1>1, <1>2, <1>3, ClusterChanges

(* The message a worker of the server takes.                               *)
LEMMA ServerTakes ==
    ASSUME Inv, NEW ch \in Channel, ServerStep(ch)
    PROVE  LET m == Head(Incoming(ch))
           IN  /\ Incoming(ch) # <<>> /\ Incoming(ch) \in Seq(ToServer(versions))
               /\ m \in ToServer(versions) /\ m.depth \in Nat
               /\ IF ch = "live" THEN c2s' = Tail(c2s) /\ former' = former
                  ELSE former' = Tail(former) /\ c2s' = c2s
               /\ UNCHANGED <<clusterVars, clientVars, recon, faultVars>>
<1> DEFINE m == Head(Incoming(ch))
<1>1. PICK e : Receive(ch, e)
    BY DEF ServerStep, ServerVerifyObject, ServerDeleteObject,
           ServerPutObject, ServerPatchObject
<1>2. Incoming(ch) # <<>> /\ Incoming(ch) \in Seq(ToServer(versions))
    BY <1>1 DEF Receive, Incoming, Inv, Typed
<1>3. m \in ToServer(versions)
    BY <1>2, QueueTypes
<1>4. m.depth \in Nat
    BY Zenon, <1>3, MessageAt
<1>5. IF ch = "live" THEN c2s' = Tail(c2s) /\ former' = former
      ELSE former' = Tail(former) /\ c2s' = c2s
    BY Zenon, <1>1 DEF Receive
<1>6. UNCHANGED <<clusterVars, clientVars, recon, faultVars>>
    BY Zenon, <1>1 DEF Receive
<1> QED
    BY Zenon, <1>2, <1>3, <1>4, <1>5, <1>6

(* Until the first deletion the backend's object only moves on to newer    *)
(* versions.                                                               *)
LEMMA ServerMovesOn ==
    ASSUME Inv, NothingRemoves, deletes = 0, [Next]_vars, server' # server
    PROVE  /\ server' \in versions /\ server' # NoObject
           /\ server # NoObject => RV(server') > RV(server)
<1>1. PICK ch \in Channel : ServerStep(ch)
    BY Zenon, ServerWrites
<1> DEFINE m == Head(Incoming(ch))
<1>2. /\ Incoming(ch) # <<>> /\ Incoming(ch) \in Seq(ToServer(versions))
      /\ m \in ToServer(versions)
    BY Zenon, <1>1, ServerTakes
<1>3. m = Incoming(ch)[1] /\ 1 \in DOMAIN Incoming(ch)
    BY Zenon, <1>2, AfterTail
<1>4. m.event # "objectDeleted"
    BY Zenon, <1>1, <1>3 DEF NothingRemoves, Removes, Incoming
<1>5. CASE ServerPutObject(ch)
    <2>1. m.object \in versions
        BY Zenon, <1>2, <1>5, MessageAt DEF ServerPutObject, Receive
    <2>2. server' = m.object
          /\ (server # NoObject => RV(server') > RV(server))
        BY Zenon, <1>5 DEF ServerPutObject, saveIfNewer
    <2> QED
        BY Zenon, <2>1, <2>2, AbsentAssumption DEF Inv
<1>6. CASE ServerPatchObject(ch)
    <2>1. m.checksum \in versions
        BY Zenon, <1>2, <1>6, MessageAt DEF ServerPatchObject, Receive
    <2>2. server' = m.checksum
          /\ (server # NoObject => RV(server') > RV(server))
        BY <1>6 DEF ServerPatchObject, saveIfNewer, Applies
    <2> QED
        BY Zenon, <2>1, <2>2, AbsentAssumption DEF Inv
<1>7. CASE ServerVerifyObject(ch)
    BY Zenon, <1>7 DEF ServerVerifyObject
<1>8. CASE ServerDeleteObject(ch)
    BY <1>4, <1>8 DEF ServerDeleteObject, Receive
<1> QED
    BY <1>1, <1>5, <1>6, <1>7, <1>8 DEF ServerStep

(* It is kept once there is one.                                           *)
LEMMA ServerKept ==
    ASSUME Inv, NothingRemoves, deletes = 0, [Next]_vars, server # NoObject
    PROVE  server' # NoObject
BY Zenon, ServerMovesOn

-----------------------------------------------------------------------------
(* Nothing removes the object before its first deletion.                   *)

(* A goroutine goes on to something harmless.                              *)
LEMMA HarmlessGoto ==
    ASSUME Inv, NothingRemoves, deletes = 0,
           NEW g \in Goroutine, NEW r, Goto(g, r), Harmless(r)
    PROVE  \A h \in Goroutine : Harmless(routine'[h])
BY Zenon DEF Goto, NothingRemoves, Inv, Typed

(* The watcher has seen no deletion.                                       *)
LEMMA RemovesWatcher ==
    ASSUME Inv, NothingRemoves, deletes = 0, WatcherStep
    PROVE  NothingRemoves'
<1>1. UNCHANGED <<clusterVars, c2s, s2c, former, recon>>
    BY Zenon DEF WatcherStep, TakeEvent, Added, Deleted, Modified, Handling,
           backendVars
<1>2. pending' \in {pending, NoObject}
    BY Zenon DEF WatcherStep, TakeEvent, Added, Deleted, Modified, Handling
<1>3. Harmless(Idle) /\ "watcher" \in Goroutine
    BY DEF Harmless, Idle, Goroutine
<1>4. \A h \in Goroutine : Harmless(routine'[h])
    <2>1. CASE TakeEvent
        <3>1. Harmless([at |-> "event", event |-> pending])
            BY Zenon, <2>1 DEF TakeEvent, NothingRemoves, Harmless
        <3> QED
            BY Zenon, <1>3, <2>1, <3>1, HarmlessGoto DEF TakeEvent
    <2>2. CASE Added
        <3>1. ASSUME NEW sum
              PROVE  Harmless(Invoking(NewChecksum(0, sum), Keep))
            BY Zenon DEF Harmless, Invoking, NewChecksum, Removes, Keep, Forget
        <3> QED
            BY Zenon, <1>3, <2>2, <3>1, HarmlessGoto DEF Added
    <2>3. CASE Deleted
        <3>1. routine["watcher"].event.type # "Deleted"
            BY <1>3, <2>3 DEF NothingRemoves, Harmless, Deleted, Handling
        <3> QED
            BY Zenon, <2>3, <3>1 DEF Deleted, Handling
    <2>4. CASE Modified
        <3>1. ASSUME NEW o PROVE Harmless(Read(0, o, NoObject))
            BY DEF Harmless, Read
        <3> QED
            BY Zenon, <1>3, <2>4, <3>1, HarmlessGoto DEF Modified
    <2> QED
        BY Zenon, <2>1, <2>2, <2>3, <2>4 DEF WatcherStep
<1> QED
    BY Zenon, <1>1, <1>2, <1>4 DEF NothingRemoves, clusterVars

(* What a goroutine sends was harmless when it was made.                   *)
LEMMA RemovesRoutine ==
    ASSUME Inv, NothingRemoves, deletes = 0,
           NEW g \in Goroutine, RoutineStep(g)
    PROVE  NothingRemoves'
<1> DEFINE r == routine[g]
<1>0. Harmless(Idle) /\ Harmless(r)
    BY DEF Harmless, Idle, NothingRemoves
<1>1. CASE CallPutOrPatch(g)
    <2>1. ASSUME NEW d, NEW o, NEW p, NEW t, t # Forget
          PROVE  /\ Harmless(Invoking(PutObject(d, o), t))
                 /\ Harmless(Invoking(PatchObject(d, o, p), t))
        BY Zenon, <2>1 DEF Harmless, Invoking, PutObject, PatchObject, Removes
    <2>2. Keep # Forget /\ \A o : Store(o) # Forget
        BY DEF Keep, Forget, Store
    <2>3. \E s : Goto(g, s) /\ Harmless(s)
        BY Zenon, <1>0, <1>1, <2>1, <2>2 DEF CallPutOrPatch
    <2>4. \A h \in Goroutine : Harmless(routine'[h])
        BY <2>3, HarmlessGoto
    <2> QED
        BY Zenon, <1>1, <2>4 DEF CallPutOrPatch, NothingRemoves, clusterVars, backendVars
<1>2. CASE Invoke(g)
    <2>1. r.msg \in ToServer(versions) /\ ~Removes(r.msg) /\ r.then # Forget
        BY <1>0, <1>2, RoutineAt DEF Invoke, Harmless
    <2>2. Harmless([at |-> "settle", then |-> r.then])
        BY Zenon, <2>1 DEF Harmless
    <2>3. \A h \in Goroutine : Harmless(routine'[h])
        BY Zenon, <1>0, <1>2, <2>2, HarmlessGoto DEF Invoke
    <2>4. \A i \in DOMAIN c2s' : ~Removes(c2s'[i])
        <3>1. c2s \in Seq(ToServer(versions)) /\ c2s' = Append(c2s, r.msg)
            BY Zenon, <1>2 DEF Invoke, Inv, Typed
        <3> QED
            BY <2>1, <3>1, AfterAppend DEF NothingRemoves
    <2> QED
        BY Zenon, <1>2, <2>3, <2>4 DEF Invoke, NothingRemoves, clusterVars, backendVars
<1>3. CASE Settle(g)
    <2>1. \A h \in Goroutine : Harmless(routine'[h])
        BY <1>0, <1>3, HarmlessGoto DEF Settle
    <2> QED
        BY Zenon, <1>3, <2>1 DEF Settle, NothingRemoves, clusterVars, backendVars
<1> QED
    BY Zenon, <1>1, <1>2, <1>3 DEF RoutineStep

(* The handler: a listed object that is missing was never there.           *)
LEMMA RemovesHandler ==
    ASSUME Inv, Numbered, NothingRemoves, deletes = 0, HandlerStep
    PROVE  NothingRemoves'
<1> DEFINE m == Head(s2c)
           r == Handler
<1>0. Harmless(Idle) /\ Harmless(r) /\ "handler" \in Goroutine
    BY DEF Harmless, Idle, NothingRemoves, Goroutine, Handler
<1>1. UNCHANGED <<clusterVars, pending, c2s, former, recon>>
    BY Zenon DEF HandlerStep, ClientGetObject, ClientBatch, ClientReceive,
           ReconcileMissing, ReconcileExtra, ReconcileCommon, InBatch,
           backendVars
<1>2. CASE ClientGetObject \/ ClientBatch
    <2>1. s2c # <<>> /\ s2c' = Tail(s2c) /\ s2c \in Seq(ToClient(versions))
        BY Zenon, <1>2 DEF ClientGetObject, ClientBatch, ClientReceive, Inv, Typed
    <2>2. \A i \in DOMAIN s2c' :
             s2c'[i].event = "batch" /\ s2c'[i].item # NoObject => revision # 0
        BY <2>1, AfterTail DEF NothingRemoves
    <2>3. \A h \in Goroutine : Harmless(routine'[h])
        <3>1. CASE ClientGetObject
            <4>1. ASSUME NEW d, NEW o, NEW b PROVE Harmless(Read(d, o, b))
                BY DEF Harmless, Read
            <4> QED
                BY Zenon, <1>0, <3>1, <4>1, HarmlessGoto
                DEF ClientGetObject, NothingRemoves
        <3>2. CASE ClientBatch
            <4>1. m = s2c[1] /\ 1 \in DOMAIN s2c /\ m.event = "batch"
                BY Zenon, <2>1, <3>2, AfterTail DEF ClientBatch, ClientReceive
            <4>2. m.item # NoObject => revision # 0
                BY Zenon, <4>1 DEF NothingRemoves
            <4>3. m.item # NoObject => cluster # NoObject
                BY <4>2, AbsentAssumption DEF Numbered, Inv
            <4>4. Harmless([at |-> "listed", depth |-> m.depth,
                            item |-> m.item, object |-> cluster])
                BY Zenon, <4>3 DEF Harmless
            <4> QED
                BY Zenon, <1>0, <3>2, <4>4, HarmlessGoto DEF ClientBatch, NothingRemoves
        <3> QED
            BY Zenon, <1>2, <3>1, <3>2
    <2> QED
        BY Zenon, <1>1, <2>2, <2>3 DEF NothingRemoves, clusterVars
<1>3. CASE ReconcileMissing \/ ReconcileExtra \/ ReconcileCommon
    <2>1. ASSUME NEW d, NEW o
          PROVE  /\ Harmless(Invoking(NewChecksum(d, o), Keep))
                 /\ Harmless(Invoking(PutObject(d, o), Keep))
        BY DEF Harmless, Invoking, NewChecksum, PutObject, Removes, Keep, Forget
    <2>2. r.at = "listed" /\ (r.item # NoObject => r.object # NoObject)
          /\ s2c' = s2c
        BY Zenon, <1>0, <1>3 DEF Harmless, ReconcileMissing, ReconcileExtra,
                          ReconcileCommon, InBatch, Handler
    <2>3. \E s : Goto("handler", s) /\ Harmless(s)
        BY Zenon, <1>0, <1>3, <2>1, <2>2 DEF ReconcileMissing, ReconcileExtra,
                                      ReconcileCommon, Handler
    <2>4. \A h \in Goroutine : Harmless(routine'[h])
        BY <1>0, <2>3, HarmlessGoto
    <2> QED
        BY Zenon, <1>1, <2>2, <2>4 DEF NothingRemoves, clusterVars
<1> QED
    BY Zenon, <1>2, <1>3 DEF HandlerStep

(* The server and its batches.                                             *)
LEMMA RemovesServer ==
    ASSUME Inv, Numbered, NothingRemoves, deletes = 0,
           (\E ch \in Channel : ServerStep(ch)) \/ ReconcileStep
    PROVE  NothingRemoves'
<1>1. ASSUME NEW ch \in Channel, ServerStep(ch) PROVE NothingRemoves'
    <2> DEFINE m == Head(Incoming(ch))
    <2>1. /\ Incoming(ch) # <<>> /\ Incoming(ch) \in Seq(ToServer(versions))
          /\ IF ch = "live" THEN c2s' = Tail(c2s) /\ former' = former
             ELSE former' = Tail(former) /\ c2s' = c2s
          /\ UNCHANGED <<clusterVars, clientVars, recon>>
        BY Zenon, <1>1, ServerTakes
    <2>2. /\ \A i \in DOMAIN c2s' : ~Removes(c2s'[i])
          /\ \A i \in DOMAIN former' : ~Removes(former'[i])
        <3>1. CASE ch = "live"
            BY <2>1, <3>1, AfterTail DEF Incoming, NothingRemoves
        <3>2. CASE ch # "live"
            BY <2>1, <3>2, AfterTail DEF Incoming, NothingRemoves
        <3> QED
            BY Zenon, <3>1, <3>2
    <2>3. s2c' = s2c \/ s2c' = Append(s2c, GetObject(m.depth, server))
        BY Zenon, <1>1 DEF ServerStep, ServerVerifyObject, ServerDeleteObject,
                    ServerPutObject, ServerPatchObject, Reply
    <2>4. GetObject(m.depth, server) \in ToClient(versions)
          /\ GetObject(m.depth, server).event # "batch"
        <3>1. m.depth \in Nat
            BY Zenon, <1>1, ServerTakes
        <3> QED
            BY <3>1 DEF GetObject, ToClient, Inv, Typed
    <2>5. \A i \in DOMAIN s2c' :
             s2c'[i].event = "batch" /\ s2c'[i].item # NoObject => revision # 0
        <3>1. s2c \in Seq(ToClient(versions))
            BY Zenon DEF Inv, Typed
        <3> QED
            BY <2>3, <2>4, <3>1, AfterAppend DEF NothingRemoves
    <2> QED
        BY Zenon, <2>1, <2>2, <2>5 DEF NothingRemoves, clusterVars, clientVars
<1>2. CASE ReconcileSnapshot
    <2>1. server # NoObject => revision # 0
        BY DEF Numbered, Inv, Typed, Maybe
    <2>2. recon'.item # NoObject => revision # 0
        BY Zenon, <1>2, <2>1 DEF ReconcileSnapshot
    <2> QED
        BY Zenon, <1>2, <2>2 DEF ReconcileSnapshot, NothingRemoves, clusterVars, clientVars
<1>3. CASE ReconcileSend
    <2>1. s2c \in Seq(ToClient(versions)) /\ s2c' = Append(s2c, Batch(recon.item))
        BY Zenon, <1>3 DEF ReconcileSend, Inv, Typed
    <2>2. Batch(recon.item) \in ToClient(versions)
        BY Zenon, <1>3 DEF Batch, ToClient, ReconcileSend, Inv, Counters, Maybe
    <2>3. Batch(recon.item).item # NoObject => revision # 0
        BY Zenon, <1>3 DEF ReconcileSend, Batch, NothingRemoves
    <2>4. \A i \in DOMAIN s2c' :
             s2c'[i].event = "batch" /\ s2c'[i].item # NoObject => revision # 0
        BY <2>1, <2>2, <2>3, AfterAppend DEF NothingRemoves
    <2> QED
        BY Zenon, <1>3, <2>4 DEF ReconcileSend, NothingRemoves, clusterVars, clientVars
<1> QED
    BY Zenon, <1>1, <1>2, <1>3 DEF ReconcileStep

(* Positions in the two parts of a queue.                                  *)
LEMMA PartPositions ==
    ASSUME NEW S, NEW q \in Seq(S), NEW h \in Nat, h <= Len(q)
    PROVE  LET a == SubSeq(q, 1, Len(q) - h)
               b == SubSeq(q, Len(q) - h + 1, Len(q))
           IN  /\ \A i \in DOMAIN a : \E j \in DOMAIN q : a[i] = q[j]
               /\ \A i \in DOMAIN b : \E j \in DOMAIN q : b[i] = q[j]
<1> DEFINE a == SubSeq(q, 1, Len(q) - h)
           b == SubSeq(q, Len(q) - h + 1, Len(q))
<1>1. Len(q) \in Nat /\ DOMAIN q = 1..Len(q)
    BY LenProperties
<1>2. a = [i \in 1..(Len(q) - h) |-> q[i]]
    BY <1>1
<1>3. b = [i \in 1..h |-> q[Len(q) - h + i]]
    BY <1>1
<1>4. \A i \in DOMAIN a : a[i] = q[i] /\ i \in DOMAIN q
    BY <1>1, <1>2
<1>5. \A i \in DOMAIN b : b[i] = q[Len(q) - h + i] /\ Len(q) - h + i \in DOMAIN q
    BY <1>1, <1>3
<1> QED
    BY <1>4, <1>5

(* Faults.                                                                 *)
LEMMA RemovesFaults ==
    ASSUME Inv, NothingRemoves, deletes = 0,
           ConnectionLost \/ ClientRestart \/ FormerLost
    PROVE  NothingRemoves'
<1>0. DOMAIN <<>> = {} /\ Harmless(Idle)
    BY DEF Harmless, Idle
<1>1. CASE ConnectionLost
    <2>1. PICK held \in {0, 1} :
             /\ held <= Len(c2s)
             /\ former' = SubSeq(c2s, 1, Len(c2s) - held)
             /\ c2s' = SubSeq(c2s, Len(c2s) - held + 1, Len(c2s))
        BY Zenon, <1>1 DEF ConnectionLost
    <2>2. /\ \A i \in DOMAIN c2s' : ~Removes(c2s'[i])
          /\ \A i \in DOMAIN former' : ~Removes(former'[i])
        <3>1. c2s \in Seq(ToServer(versions)) /\ held \in Nat
            BY DEF Inv, Typed
        <3> DEFINE a == SubSeq(c2s, 1, Len(c2s) - held)
                   b == SubSeq(c2s, Len(c2s) - held + 1, Len(c2s))
        <3>2. /\ \A i \in DOMAIN a : \E j \in DOMAIN c2s : a[i] = c2s[j]
              /\ \A i \in DOMAIN b : \E j \in DOMAIN c2s : b[i] = c2s[j]
            BY <2>1, <3>1, PartPositions, Zenon
        <3>3. former' = a /\ c2s' = b
            BY <2>1
        <3> HIDE DEF a, b
        <3> QED
            BY Zenon, <3>2, <3>3 DEF NothingRemoves
    <2> QED
        BY Zenon, <1>0, <1>1, <2>2 DEF ConnectionLost, NothingRemoves, clusterVars,
                                clientVars, backendVars
<1>2. CASE ClientRestart
    <2>1. \A g \in Goroutine : Harmless(routine'[g])
        <3>1. Harmless([at |-> "event",
                        event |-> [type |-> "Added", object |-> cluster]])
            BY Zenon DEF Harmless
        <3> QED
            BY Zenon, <1>0, <1>2, <3>1 DEF ClientRestart
    <2>2. pending' # NoObject => pending'.type # "Deleted"
        BY <1>2 DEF ClientRestart
    <2>3. /\ \A i \in DOMAIN c2s' : ~Removes(c2s'[i])
          /\ \A i \in DOMAIN former' : ~Removes(former'[i])
        BY <1>0, <1>2 DEF ClientRestart, NothingRemoves
    <2> QED
        BY Zenon, <1>0, <1>2, <2>1, <2>2, <2>3
        DEF ClientRestart, NothingRemoves, clusterVars, backendVars
<1>3. CASE FormerLost
    BY <1>0, <1>3 DEF FormerLost, NothingRemoves, clusterVars, clientVars,
                      backendVars
<1> QED
    BY Zenon, <1>1, <1>2, <1>3

(* Deletions are counted and nothing else changes their number.            *)
LEMMA DeletesKept ==
    ASSUME Inv, [Next]_vars, deletes' = 0
    PROVE  deletes = 0 /\ ~Delete /\ ~DeletedUnseen
<1>1. ~Delete /\ ~DeletedUnseen
    BY Zenon, DeletionCounted
<1>2. CASE Create \/ Modify
    BY Zenon, <1>1, <1>2 DEF Create, Modify, Write
<1> QED
    BY <1>1, <1>2, ClusterChanges DEF clusterVars

(* No step makes the removal of an undeleted object possible.              *)
LEMMA RemovesNext ==
    ASSUME Inv, Numbered, NothingRemoves, [Next]_vars
    PROVE  NothingRemoves'
<1> SUFFICES ASSUME deletes' = 0 PROVE NothingRemoves'
    BY DEF NothingRemoves
<1>0. deletes = 0 /\ ~Delete /\ ~DeletedUnseen
    BY Zenon, DeletesKept
<1>1. CASE Create \/ Modify
    <2>1. PICK type \in {"Added", "Modified"} : Write(type)
        BY Zenon, <1>1 DEF Create, Modify
    <2>2. /\ revision' # 0 /\ pending'.type = type
          /\ UNCHANGED <<setup, deletes, routine, c2s, s2c, former, backendVars>>
        BY <2>1, WriteEffect
    <2> QED
        BY Zenon, <1>0, <2>2 DEF NothingRemoves, backendVars
<1>2. CASE WatcherStep
    BY <1>0, <1>2, RemovesWatcher
<1>3. CASE HandlerStep
    BY <1>0, <1>3, RemovesHandler
<1>4. CASE \E g \in Goroutine : RoutineStep(g)
    BY <1>0, <1>4, RemovesRoutine
<1>5. CASE (\E ch \in Channel : ServerStep(ch)) \/ ReconcileStep
    BY <1>0, <1>5, RemovesServer
<1>6. CASE ConnectionLost \/ ClientRestart \/ FormerLost
    BY Zenon, <1>0, <1>6, RemovesFaults
<1>7. CASE UNCHANGED vars
    BY <1>7 DEF vars, NothingRemoves, clusterVars, clientVars, backendVars
<1> QED
    BY Zenon, <1>0, <1>1, <1>2, <1>3, <1>4, <1>5, <1>6, <1>7 DEF Next, FaultStep

-----------------------------------------------------------------------------
(***************************************************************************)
(* The protocol implements Replica: every step is a write, a deletion, the *)
(* saving of a newer version or, after a deletion, the removal of the      *)
(* copy, or leaves the object and its copy alone.                          *)
(***************************************************************************)

CopyInv == Inv /\ Numbered /\ NothingRemoves

replica == <<cluster, versions, deletes > 0, server>>

LEMMA CopyInvInit == Init => CopyInv
<1> SUFFICES ASSUME Init PROVE CopyInv
    OBVIOUS
<1>1. \A g \in Goroutine : routine[g] = Idle
    BY Zenon DEF Init
<1>2. /\ c2s = <<>> /\ s2c = <<>> /\ former = <<>>
      /\ revision = 0 /\ versions = {} /\ pending = NoObject /\ recon = NoObject
    BY Zenon DEF Init
<1>3. Idle.at = "idle" /\ DOMAIN <<>> = {}
    BY DEF Idle
<1>4. Numbered
    BY Zenon, <1>2 DEF Numbered
<1>5. NothingRemoves
    BY Zenon, <1>1, <1>2, <1>3 DEF NothingRemoves, Harmless
<1> QED
    BY Zenon, <1>4, <1>5, InvInit DEF CopyInv

LEMMA CopyInvNext == CopyInv /\ [Next]_vars => CopyInv'
BY Zenon, InvNext, NumberedNext, RemovesNext DEF CopyInv

(* A write makes a version with a number above all others.                 *)
LEMMA CopyWrite ==
    ASSUME CopyInv, Create \/ Modify
    PROVE  Copy!Write
<1>1. PICK type : Write(type)
    BY Zenon DEF Create, Modify
<1>2. /\ revision \in Nat /\ revision' = revision + 1
      /\ cluster' \notin {NoObject} /\ RV(cluster') = revision'
      /\ versions' = versions \cup {cluster'}
      /\ deletes' = deletes /\ server' = server
    BY Zenon, <1>1, WriteEffect DEF CopyInv, backendVars
<1>3. \A v \in versions : RV(v) < RV(cluster')
    BY <1>2 DEF CopyInv, Numbered
<1> QED
    BY Zenon, <1>2, <1>3 DEF Copy!Write, Copy!RV, RV

(* A deletion is counted, seen by the watch or not.                        *)
LEMMA CopyDelete ==
    ASSUME CopyInv, Delete \/ DeletedUnseen
    PROVE  Copy!Delete
<1>1. /\ cluster # NoObject /\ cluster' = NoObject /\ deletes' = deletes + 1
      /\ versions' = versions /\ server' = server
    BY Zenon DEF Delete, DeletedUnseen, backendVars
<1>2. (deletes' > 0) = TRUE
    BY <1>1 DEF CopyInv, Inv, Counters
<1> QED
    BY Zenon, <1>1, <1>2 DEF Copy!Delete

(* Whatever else replaces the copy saves a newer version of the object;    *)
(* whatever removes it follows a deletion.                                 *)
LEMMA CopyServer ==
    ASSUME CopyInv, [Next]_vars, UNCHANGED clusterVars, server' # server
    PROVE  Copy!Save \/ Copy!Remove
<1>1. UNCHANGED <<cluster, versions, deletes>>
    BY Zenon DEF clusterVars
<1>2. CASE server' # NoObject
    <2>1. server' \in versions
        BY Zenon, <1>1, <1>2, InvNext DEF CopyInv, Inv, Typed, Maybe
    <2>2. server # NoObject => RV(server') > RV(server)
        BY Zenon, <1>2, ServerNewer
    <2> QED
        BY Zenon, <1>1, <2>1, <2>2 DEF Copy!Save, Copy!RV, RV
<1>3. CASE server' = NoObject
    <2>1. deletes # 0
        BY Zenon, <1>3, ServerMovesOn DEF CopyInv
    <2>2. deletes > 0
        BY <2>1 DEF CopyInv, Inv, Counters
    <2> QED
        BY Zenon, <1>1, <1>3, <2>2 DEF Copy!Remove
<1> QED
    BY <1>2, <1>3

LEMMA CopyStep == CopyInv /\ [Next]_vars => [Copy!Next]_replica
<1> SUFFICES ASSUME CopyInv, [Next]_vars PROVE [Copy!Next]_replica
    OBVIOUS
<1>1. CASE Create \/ Modify
    BY Zenon, <1>1, CopyWrite DEF Copy!Next
<1>2. CASE Delete \/ DeletedUnseen
    BY Zenon, <1>2, CopyDelete DEF Copy!Next
<1>3. CASE UNCHANGED clusterVars /\ server' # server
    BY Zenon, <1>3, CopyServer DEF Copy!Next
<1>4. CASE UNCHANGED clusterVars /\ server' = server
    BY Zenon, <1>4 DEF clusterVars, replica
<1> QED
    BY Zenon, <1>1, <1>2, <1>3, <1>4, ClusterChanges

(* The protocol, with its goroutines, patches, batches, reconnections and  *)
(* restarts, implements the four steps of Replica, for every kind of       *)
(* object and every bound: the copy is a version the object had, moves on  *)
(* to newer ones only, and is never removed unless the object was deleted. *)
THEOREM ImplementsReplica == Spec => CopyKept
<1>1. Init => Copy!Init
    BY DEF Init, Copy!Init
<1> QED
    BY <1>1, CopyInvInit, CopyInvNext, CopyStep, PTL
    DEF Spec, CopyKept, Copy!Spec, replica
=============================================================================
