-------------------------- MODULE SyncExchangeProofs -------------------------
(***************************************************************************)
(* The exchanges of requests and answers, until the object is first        *)
(* deleted: the watcher's messages carry the newest version, a base that   *)
(* the server sends along is one it had, and an object was put before it   *)
(* is patched, so that only patches are deep.                              *)
(***************************************************************************)
EXTENDS SyncProtocolProofs

(* Time for slow machines.                                                 *)
USE SMTT(30), ZenonT(30)

(* The watcher starts exchanges of its own, and once the cooldown queue is *)
(* empty it is busy with the newest version.                               *)
Content(m) == IF m.event = "putObject" THEN m.object ELSE m.checksum

Current(m) == Content(m) = cluster

Busy(r) ==
    /\ r.at = "event" => r.event.object = cluster
    /\ r.at = "read" => r.object = cluster
    /\ r.at = "invoke" => Current(r.msg)
    /\ r.at = "listed" => r.object = cluster

WatchesNewest ==
    LET r == routine["watcher"]
    IN  /\ r.at # "listed"
        /\ r.at = "read" => r.depth = 0 /\ r.base = NoObject
        /\ r.at = "invoke" => r.msg.depth = 1
        /\ deletes = 0 =>
              IF pending = NoObject THEN Busy(r) ELSE pending.object = cluster

(* A base the server sent along is one it had, and it still has an object. *)
BasesKnown ==
    deletes = 0 =>
        /\ \A i \in DOMAIN s2c :
              s2c[i].event = "getObject" /\ s2c[i].base # NoObject
                 => server # NoObject
        /\ \A g \in Goroutine :
              routine[g].at = "read" /\ routine[g].base # NoObject
                 => server # NoObject

(* A reference copy, and with it a patch, exists only after an object was  *)
(* put, and only an answer to a patch is deep.                             *)
PutBefore(i) ==
    server # NoObject \/ \E j \in 1..(i - 1) : c2s[j].event = "putObject"

Shallow(m) ==
    /\ m.event = "newChecksum" => m.depth <= 2
    /\ m.event = "putObject" => m.depth <= 4
    /\ m.event = "patchObject" => PatchStrategy

Answerable(d, base) == d <= 3 \/ (PatchStrategy /\ base # NoObject)

Orderly(r) ==
    /\ r.at = "read" => Answerable(r.depth, r.base)
    /\ r.at = "invoke" =>
          /\ Shallow(r.msg)
          /\ r.msg.event = "patchObject" => PutBefore(Len(c2s) + 1)
          /\ r.msg.event = "newChecksum" => r.then = Keep
    /\ r.at = "settle" => PutBefore(Len(c2s) + 1)
    /\ r.at = "listed" => r.depth = 1

PutsFirst ==
    clean /\ deletes = 0 =>
        /\ \A i \in DOMAIN c2s :
              /\ Shallow(c2s[i])
              /\ c2s[i].event = "patchObject" => PutBefore(i)
        /\ \A i \in DOMAIN s2c :
              IF s2c[i].event = "getObject"
              THEN Answerable(s2c[i].depth, s2c[i].base)
              ELSE s2c[i].depth = 1
        /\ shadow # NoObject => PutBefore(Len(c2s) + 1)
        /\ \A g \in Goroutine : Orderly(routine[g])

-----------------------------------------------------------------------------
(* callPutOrPatch sends the object it has read, whole or as a patch of the *)
(* reference.                                                              *)
LEMMA PutOrPatchEffect ==
    ASSUME Inv, NEW g \in Goroutine, CallPutOrPatch(g)
    PROVE  LET r == routine[g]
               old == Reference(r)
               patch == CreateMergePatch(old, r.object)
           IN  /\ r.at = "read" /\ r.depth \in Nat /\ r.object \in versions
               /\ old \in Maybe(versions)
               /\ UNCHANGED <<clusterVars, pending, c2s, s2c, former,
                              backendVars, faultVars>>
               /\ shadow' \in {shadow, old}
               /\ \/ /\ PatchStrategy => old = NoObject
                     /\ \E t \in {Keep, Store(r.object)} :
                           Goto(g, Invoking(PutObject(r.depth, r.object), t))
                  \/ /\ PatchStrategy /\ old # NoObject
                     /\ emptyPatch(patch) /\ Goto(g, Idle)
                  \/ /\ PatchStrategy /\ old # NoObject
                     /\ Goto(g, Invoking(PatchObject(r.depth, r.object, patch),
                                         Store(r.object)))
<1> DEFINE r == routine[g]
           old == Reference(r)
           patch == CreateMergePatch(old, r.object)
           sum == MergePatch(old, patch)
<1>1. /\ r.at = "read" /\ r.depth \in Nat /\ r.object \in versions
      /\ r.base \in Maybe(versions)
    BY RoutineAt DEF CallPutOrPatch
<1>2. old \in Maybe(versions)
    BY <1>1 DEF Reference, Inv, Typed
<1>3. old # NoObject => sum = r.object
    BY <1>1, <1>2, PatchRoundTrip DEF Inv, Maybe
<1>4. shadow' \in {shadow, old}
      /\ UNCHANGED <<clusterVars, pending, c2s, s2c, former, backendVars,
                     faultVars>>
    BY DEF CallPutOrPatch
<1>5. \/ /\ PatchStrategy => old = NoObject
         /\ \E t \in {Keep, Store(r.object)} :
               Goto(g, Invoking(PutObject(r.depth, r.object), t))
      \/ PatchStrategy /\ old # NoObject /\ emptyPatch(patch) /\ Goto(g, Idle)
      \/ /\ PatchStrategy /\ old # NoObject
         /\ Goto(g, Invoking(PatchObject(r.depth, sum, patch), Store(r.object)))
    BY DEF CallPutOrPatch
<1> HIDE DEF r, old, patch, sum
<1>6. \/ /\ PatchStrategy => old = NoObject
         /\ \E t \in {Keep, Store(r.object)} :
               Goto(g, Invoking(PutObject(r.depth, r.object), t))
      \/ PatchStrategy /\ old # NoObject /\ emptyPatch(patch) /\ Goto(g, Idle)
      \/ /\ PatchStrategy /\ old # NoObject
         /\ Goto(g, Invoking(PatchObject(r.depth, r.object, patch),
                             Store(r.object)))
    BY <1>3, <1>5
<1> QED
    BY Zenon, <1>1, <1>2, <1>4, <1>6 DEF r, old, patch

(* What a goroutine about to send holds.                                   *)
LEMMA Invoked ==
    ASSUME NEW d, NEW o, NEW p, NEW t
    PROVE  /\ LET s == Invoking(NewChecksum(d, o), t)
              IN  /\ s.at = "invoke" /\ s.then = t
                  /\ s.msg.event = "newChecksum" /\ s.msg.depth = d + 1
                  /\ Content(s.msg) = o
           /\ LET s == Invoking(PutObject(d, o), t)
              IN  /\ s.at = "invoke" /\ s.then = t
                  /\ s.msg.event = "putObject" /\ s.msg.depth = d + 1
                  /\ Content(s.msg) = o
           /\ LET s == Invoking(PatchObject(d, o, p), t)
              IN  /\ s.at = "invoke" /\ s.then = t
                  /\ s.msg.event = "patchObject" /\ s.msg.depth = d + 1
                  /\ s.msg.patch = p /\ Content(s.msg) = o
<1>1. LET s == Invoking(NewChecksum(d, o), t)
      IN  /\ s.at = "invoke" /\ s.then = t
          /\ s.msg.event = "newChecksum" /\ s.msg.depth = d + 1
          /\ Content(s.msg) = o
    BY DEF Invoking, NewChecksum, Content
<1>2. LET s == Invoking(PutObject(d, o), t)
      IN  /\ s.at = "invoke" /\ s.then = t
          /\ s.msg.event = "putObject" /\ s.msg.depth = d + 1
          /\ Content(s.msg) = o
    BY DEF Invoking, PutObject, Content
<1>3. LET s == Invoking(PatchObject(d, o, p), t)
      IN  /\ s.at = "invoke" /\ s.then = t
          /\ s.msg.event = "patchObject" /\ s.msg.depth = d + 1
          /\ s.msg.patch = p /\ Content(s.msg) = o
    BY DEF Invoking, PatchObject, Content
<1> QED
    BY <1>1, <1>2, <1>3

(* Which messages a goroutine may be about to send.                        *)
LEMMA OrderlyInvoked ==
    ASSUME NEW d, NEW o, NEW p, NEW t
    PROVE  /\ d + 1 <= 2 => Orderly(Invoking(NewChecksum(d, o), Keep))
           /\ d + 1 <= 4 => Orderly(Invoking(PutObject(d, o), t))
           /\ PatchStrategy /\ PutBefore(Len(c2s) + 1)
                 => Orderly(Invoking(PatchObject(d, o, p), t))
           /\ Orderly(Idle)
<1>1. d + 1 <= 2 => Orderly(Invoking(NewChecksum(d, o), Keep))
    BY Invoked DEF Orderly, Shallow
<1>2. d + 1 <= 4 => Orderly(Invoking(PutObject(d, o), t))
    BY Invoked DEF Orderly, Shallow
<1>3. PatchStrategy /\ PutBefore(Len(c2s) + 1)
         => Orderly(Invoking(PatchObject(d, o, p), t))
    BY Invoked DEF Orderly, Shallow
<1>4. Orderly(Idle)
    BY DEF Orderly, Idle
<1> QED
    BY Zenon, <1>1, <1>2, <1>3, <1>4

(* A goroutine that moves leaves the other where it is.                    *)
LEMMA GotoOnly ==
    ASSUME Inv, NEW g \in Goroutine, NEW r, Goto(g, r)
    PROVE  routine'[g] = r /\ \A h \in Goroutine : h # g => routine'[h] = routine[h]
BY DEF Goto, Inv, Typed

(* The watcher's events, once the cooldown queue is empty.                 *)
LEMMA NewestWatcher ==
    ASSUME Inv, NothingRemoves, WatchesNewest, WatcherStep
    PROVE  WatchesNewest'
<1> DEFINE r == routine["watcher"]
<1>0. "watcher" \in Goroutine /\ cluster' = cluster /\ deletes' = deletes
    BY DEF Goroutine, WatcherStep, TakeEvent, Added, Deleted, Modified,
           Handling, clusterVars
<1>1. CASE TakeEvent
    <2>1. routine'["watcher"] = [at |-> "event", event |-> pending]
          /\ pending # NoObject /\ pending' = NoObject
        BY <1>0, <1>1, GotoOnly DEF TakeEvent
    <2> QED
        BY <1>0, <2>1 DEF WatchesNewest, Busy
<1>2. ASSUME NEW type, Handling(type)
      PROVE  /\ pending' = pending
             /\ deletes = 0 /\ pending = NoObject
                  => Seen = cluster /\ ObjectFromMeta(Seen) = cluster
    BY <1>2 DEF Handling, WatchesNewest, Busy, Seen, ObjectFromMeta
<1>3. CASE Added
    <2>1. PICK sum \in Checksums(Seen) :
              routine'["watcher"] = IF sum = NoObject THEN Idle
                                    ELSE Invoking(NewChecksum(0, sum), Keep)
        BY <1>0, <1>3, GotoOnly DEF Added
    <2>2. pending' = pending
          /\ (deletes = 0 /\ pending = NoObject => sum = cluster)
        BY <1>2, <1>3 DEF Added, Checksums
    <2> QED
        BY <1>0, <2>1, <2>2 DEF WatchesNewest, Busy, Idle, Invoking,
                                NewChecksum, Current, Content
<1>4. CASE Deleted
    <2>1. PICK t : routine'["watcher"] = Invoking(ObjectDeleted(0), t)
        BY <1>0, <1>4, GotoOnly DEF Deleted
    <2>2. deletes # 0
        BY <1>0, <1>4 DEF Deleted, Handling, NothingRemoves, Harmless
    <2> QED
        BY <1>0, <2>1, <2>2 DEF WatchesNewest, Invoking, ObjectDeleted
<1>5. CASE Modified
    <2> DEFINE o == ObjectFromMeta(Seen)
    <2>1. routine'["watcher"] = IF o = NoObject THEN Idle
                                ELSE Read(0, o, NoObject)
        BY <1>0, <1>5, GotoOnly DEF Modified
    <2>2. pending' = pending
          /\ (deletes = 0 /\ pending = NoObject => o = cluster)
        BY <1>2, <1>5 DEF Modified
    <2> QED
        BY <1>0, <2>1, <2>2 DEF WatchesNewest, Busy, Idle, Read
<1> QED
    BY Zenon, <1>1, <1>3, <1>4, <1>5 DEF WatcherStep

(* callPutOrPatch carries on with the object that was read.                *)
LEMMA NewestRoutine ==
    ASSUME Inv, WatchesNewest, RoutineStep("watcher")
    PROVE  WatchesNewest'
<1> DEFINE r == routine["watcher"]
<1>0. "watcher" \in Goroutine /\ cluster' = cluster /\ deletes' = deletes
      /\ pending' = pending
    BY Zenon DEF Goroutine, RoutineStep, CallPutOrPatch, Invoke, Settle, clusterVars
<1>1. CASE CallPutOrPatch("watcher")
    <2>1. r.at = "read" /\ r.depth \in Nat
        BY <1>0, <1>1, PutOrPatchEffect
    <2>2. r.depth = 0 /\ (deletes = 0 /\ pending = NoObject => r.object = cluster)
        BY Zenon, <2>1 DEF WatchesNewest, Busy
    <2>3. \/ routine'["watcher"] = Idle
          \/ \E t : routine'["watcher"] = Invoking(PutObject(r.depth, r.object), t)
          \/ \E t, p : routine'["watcher"]
                          = Invoking(PatchObject(r.depth, r.object, p), t)
        BY <1>0, <1>1, PutOrPatchEffect, GotoOnly
    <2>4. LET s == routine'["watcher"]
          IN  \/ s.at = "idle"
              \/ s.at = "invoke" /\ s.msg.depth = 1 /\ Content(s.msg) = r.object
        BY <2>2, <2>3, Invoked DEF Idle
    <2> QED
        BY Zenon, <1>0, <2>2, <2>4 DEF WatchesNewest, Busy, Current
<1>2. CASE Invoke("watcher") \/ Settle("watcher")
    <2>1. routine'["watcher"] \in {Idle, [at |-> "settle", then |-> r.then]}
        BY <1>0, <1>2, GotoOnly DEF Invoke, Settle
    <2>2. routine'["watcher"].at \in {"idle", "settle"}
        BY <2>1 DEF Idle
    <2> QED
        BY Zenon, <1>0, <2>2 DEF WatchesNewest, Busy
<1> QED
    BY Zenon, <1>1, <1>2 DEF RoutineStep

(* A write leaves an event in the cooldown queue.                          *)
LEMMA WritePends ==
    ASSUME Inv, Create \/ Modify
    PROVE  pending' # NoObject
<1>1. PICK type \in {"Added", "Modified"} : Write(type)
    BY DEF Create, Modify
<1>2. Inv'
    BY <1>1, InvWrite
<1>3. cluster' \in versions' /\ versions' \subseteq Object
    BY <1>1, <1>2, WriteEffect DEF Inv
<1>4. pending' \in Event(Object)
    BY <1>1, <1>3, WriteEffect DEF Event
<1> QED
    BY <1>4, AbsentAssumption

(* The handler's steps leave the cluster and the watcher alone.            *)
LEMMA HandlerSteps ==
    ASSUME Inv, HandlerStep \/ RoutineStep("handler")
    PROVE  UNCHANGED <<clusterVars, pending>>
           /\ routine'["watcher"] = routine["watcher"]
<1>1. UNCHANGED <<clusterVars, pending>>
    BY Zenon DEF HandlerStep, ClientGetObject, ClientBatch, ClientReceive,
           ReconcileMissing, ReconcileExtra, ReconcileCommon, InBatch,
           RoutineStep, CallPutOrPatch, Invoke, Settle
<1>2. routine' = routine \/ \E s : Goto("handler", s)
    BY DEF HandlerStep, ClientGetObject, ClientBatch, ClientReceive,
           ReconcileMissing, ReconcileExtra, ReconcileCommon,
           RoutineStep, CallPutOrPatch, Invoke, Settle
<1>3. routine'["watcher"] = routine["watcher"]
    BY <1>2, GotoOnly DEF Goroutine
<1> QED
    BY Zenon, <1>1, <1>3

(* With an empty cooldown queue, the watcher is busy with the newest       *)
(* version.                                                                *)
LEMMA NewestNext ==
    ASSUME Inv, NothingRemoves, WatchesNewest, [Next]_vars
    PROVE  WatchesNewest'
<1>1. CASE Create \/ Modify
    <2>1. PICK type \in {"Added", "Modified"} : Write(type)
        BY <1>1 DEF Create, Modify
    <2>2. pending' = [type |-> type, object |-> cluster']
          /\ UNCHANGED <<routine, deletes>>
        BY <2>1, WriteEffect
    <2>3. pending' # NoObject
        BY <1>1, WritePends
    <2> QED
        BY <2>2, <2>3 DEF WatchesNewest
<1>2. CASE Delete \/ DeletedUnseen
    <2>1. deletes' # 0 /\ routine' = routine
        BY Zenon, <1>2, DeletionCounted DEF Delete, DeletedUnseen, clientVars
    <2> QED
        BY <2>1 DEF WatchesNewest
<1>3. CASE WatcherStep
    BY <1>3, NewestWatcher
<1>4. CASE RoutineStep("watcher")
    BY Zenon, <1>4, NewestRoutine
<1>5. CASE ClientRestart
    <2> DEFINE seen == [type |-> "Added", object |-> cluster]
    <2>1. /\ cluster' = cluster
          /\ pending' \in {seen, NoObject}
          /\ routine'["watcher"] \in {Idle, [at |-> "event", event |-> seen]}
        BY Zenon, <1>5 DEF ClientRestart, clusterVars, Goroutine
    <2> QED
        BY <2>1 DEF WatchesNewest, Busy, Idle
<1>6. ASSUME UNCHANGED <<cluster, deletes, pending>>,
             routine'["watcher"] = routine["watcher"]
      PROVE  WatchesNewest'
    BY <1>6 DEF WatchesNewest, Busy, Current
<1>7. CASE HandlerStep \/ RoutineStep("handler")
    BY <1>6, <1>7, HandlerSteps DEF clusterVars
<1>8. CASE \/ (\E ch \in Channel : ServerStep(ch)) \/ ReconcileStep
           \/ ConnectionLost \/ FormerLost \/ UNCHANGED vars
    <2>1. UNCHANGED <<cluster, deletes, pending, routine>>
        BY Zenon, <1>8 DEF ServerStep, ServerVerifyObject, ServerDeleteObject,
                    ServerPutObject, ServerPatchObject, Receive,
                    ReconcileStep, ReconcileSnapshot, ReconcileSend,
                    ConnectionLost, FormerLost, vars, clusterVars, clientVars
    <2> QED
        BY <1>6, <2>1
<1> QED
    BY Zenon, <1>1, <1>2, <1>3, <1>4, <1>5, <1>7, <1>8
    DEF Next, FaultStep, Goroutine

-----------------------------------------------------------------------------
(* What a worker of the server answers.                                    *)
LEMMA ServerAnswers ==
    ASSUME Inv, NEW ch \in Channel, ServerStep(ch)
    PROVE  LET m == Head(Incoming(ch))
           IN  \/ s2c' = s2c
               \/ /\ ch = "live" /\ server' = server /\ ~TooDeep(m)
                  /\ m.event \in {"newChecksum", "patchObject"}
                  /\ s2c' = Append(s2c, GetObject(m.depth, server))
                  /\ GetObject(m.depth, server) \in ToClient(versions)
<1> DEFINE m == Head(Incoming(ch))
<1>1. m.depth \in Nat
    BY ServerTakes
<1>2. GetObject(m.depth, server) \in ToClient(versions)
    BY <1>1 DEF GetObject, ToClient, Inv, Typed
<1>3. CASE ServerVerifyObject(ch)
    BY <1>2, <1>3 DEF ServerVerifyObject, Receive, Reply
<1>4. CASE ServerPatchObject(ch)
    BY <1>2, <1>4 DEF ServerPatchObject, Receive, Reply
<1> QED
    BY <1>3, <1>4 DEF ServerStep, ServerDeleteObject, ServerPutObject

(* The client takes the oldest message of the server.                      *)
LEMMA ClientTakes ==
    ASSUME Inv, ClientGetObject \/ ClientBatch
    PROVE  LET m == Head(s2c)
           IN  /\ s2c # <<>> /\ s2c \in Seq(ToClient(versions))
               /\ s2c' = Tail(s2c) /\ m = s2c[1] /\ 1 \in DOMAIN s2c
               /\ m \in ToClient(versions)
               /\ Handler = Idle
               /\ \/ m.event = "getObject" /\ ClientGetObject
                  \/ m.event = "batch" /\ ClientBatch
               /\ \/ routine' = routine /\ (TooDeep(m) \/ cluster = NoObject \/ m.event = "batch")
                  \/ /\ m.event = "getObject" /\ cluster # NoObject
                     /\ routine'["handler"] = Read(m.depth, cluster, m.base)
                  \/ /\ m.event = "batch"
                     /\ routine'["handler"] =
                           [at |-> "listed", depth |-> m.depth,
                            item |-> m.item, object |-> cluster]
               /\ routine'["watcher"] = routine["watcher"]
               /\ UNCHANGED <<clusterVars, pending, shadow, c2s, former,
                              backendVars, faultVars>>
<1> DEFINE m == Head(s2c)
<1>1. /\ s2c # <<>> /\ s2c \in Seq(ToClient(versions)) /\ s2c' = Tail(s2c)
      /\ Handler = Idle
      /\ UNCHANGED <<clusterVars, pending, shadow, c2s, former, backendVars,
                     faultVars>>
    BY DEF ClientGetObject, ClientBatch, ClientReceive, Inv, Typed, Handler
<1>2. m = s2c[1] /\ 1 \in DOMAIN s2c /\ m \in ToClient(versions)
    BY Zenon, <1>1, AfterTail, QueueTypes
<1>3. CASE ClientGetObject
    <2>1. m.event = "getObject"
        BY Zenon, <1>3 DEF ClientGetObject, ClientReceive
    <2>2. \/ routine' = routine /\ (TooDeep(m) \/ cluster = NoObject)
          \/ /\ cluster # NoObject
             /\ Goto("handler", Read(m.depth, cluster, m.base))
        BY Zenon, <1>3 DEF ClientGetObject
    <2> QED
        BY Zenon, <1>1, <1>2, <1>3, <2>1, <2>2, GotoOnly DEF Goroutine
<1>4. CASE ClientBatch
    <2>1. m.event = "batch"
        BY Zenon, <1>4 DEF ClientBatch, ClientReceive
    <2>2. \/ routine' = routine
          \/ Goto("handler", [at |-> "listed", depth |-> m.depth,
                              item |-> m.item, object |-> cluster])
        BY <1>4 DEF ClientBatch
    <2> QED
        BY Zenon, <1>1, <1>2, <1>4, <2>1, <2>2, GotoOnly DEF Goroutine
<1> QED
    BY Zenon, <1>3, <1>4

(* The answer to a batch.                                                  *)
LEMMA ReconcileAnswers ==
    ASSUME Inv, NothingRemoves, deletes = 0,
           ReconcileMissing \/ ReconcileExtra \/ ReconcileCommon
    PROVE  LET r == Handler
           IN  /\ r.at = "listed"
               /\ \/ routine'["handler"] = Idle
                  \/ /\ r.object # NoObject
                     /\ routine'["handler"] =
                           Invoking(NewChecksum(r.depth, r.object), Keep)
                  \/ \E o \in {r.object, cluster} :
                        routine'["handler"] =
                           Invoking(PutObject(r.depth, o), Keep)
               /\ routine'["watcher"] = routine["watcher"]
               /\ shadow' \in {shadow, NoObject}
               /\ UNCHANGED <<clusterVars, pending, c2s, s2c, former,
                              backendVars, faultVars>>
<1> DEFINE r == Handler
<1>1. /\ r.at = "listed"
      /\ UNCHANGED <<clusterVars, pending, c2s, s2c, former, backendVars,
                     faultVars>>
      /\ shadow' \in {shadow, NoObject}
    BY Zenon DEF ReconcileMissing, ReconcileExtra, ReconcileCommon, InBatch, Handler
<1>2. r.item # NoObject => r.object # NoObject
    BY Zenon, <1>1 DEF NothingRemoves, Harmless, Handler, Goroutine
<1>3. CASE ReconcileMissing
    BY Zenon, <1>1, <1>3, GotoOnly DEF ReconcileMissing, Goroutine, Handler
<1>4. CASE ReconcileExtra
    BY Zenon, <1>1, <1>2, <1>4, GotoOnly DEF ReconcileExtra, Goroutine, Handler
<1>5. CASE ReconcileCommon
    BY Zenon, <1>1, <1>5, GotoOnly
    DEF ReconcileCommon, ObjectFromMeta, Goroutine, Handler
<1> QED
    BY Zenon, <1>3, <1>4, <1>5

(* The watcher reads without a base.                                       *)
LEMMA WatcherMoves ==
    ASSUME Inv, NothingRemoves, deletes = 0, WatcherStep
    PROVE  LET s == routine'["watcher"]
           IN  /\ \/ s = Idle
                  \/ s = [at |-> "event", event |-> pending] /\ pending # NoObject
                  \/ \E o : s = Invoking(NewChecksum(0, o), Keep)
                  \/ \E o : s = Read(0, o, NoObject)
               /\ routine'["handler"] = routine["handler"]
               /\ UNCHANGED <<clusterVars, shadow, c2s, s2c, former,
                              backendVars, faultVars>>
<1>0. {"watcher", "handler"} = Goroutine
    BY DEF Goroutine
<1>1. UNCHANGED <<clusterVars, shadow, c2s, s2c, former, backendVars, faultVars>>
    BY Zenon DEF WatcherStep, TakeEvent, Added, Deleted, Modified, Handling
<1>2. ~Deleted
    BY Zenon, <1>0 DEF Deleted, Handling, NothingRemoves, Harmless
<1>3. CASE TakeEvent
    BY Zenon, <1>0, <1>1, <1>3, GotoOnly DEF TakeEvent
<1>4. CASE Added
    BY Zenon, <1>0, <1>1, <1>4, GotoOnly DEF Added
<1>5. CASE Modified
    BY Zenon, <1>0, <1>1, <1>5, GotoOnly DEF Modified
<1> QED
    BY <1>2, <1>3, <1>4, <1>5 DEF WatcherStep

(* The message leaves for the connection.                                  *)
LEMMA InvokeEffect ==
    ASSUME Inv, NEW g \in Goroutine, Invoke(g)
    PROVE  LET r == routine[g]
           IN  /\ r.at = "invoke" /\ r.msg \in ToServer(versions)
               /\ r.msg.depth \in Nat
               /\ c2s \in Seq(ToServer(versions)) /\ c2s' = Append(c2s, r.msg)
               /\ \/ routine'[g] = Idle /\ r.then = Keep
                  \/ /\ routine'[g] = [at |-> "settle", then |-> r.then]
                     /\ r.then # Keep
               /\ \A h \in Goroutine : h # g => routine'[h] = routine[h]
               /\ UNCHANGED <<clusterVars, pending, shadow, s2c, former,
                              backendVars, faultVars>>
<1> DEFINE r == routine[g]
<1>1. r.at = "invoke" /\ r.msg \in ToServer(versions)
    BY RoutineAt DEF Invoke
<1>2. r.msg.depth \in Nat
    BY Zenon, <1>1, MessageAt
<1>3. /\ c2s \in Seq(ToServer(versions)) /\ c2s' = Append(c2s, r.msg)
      /\ UNCHANGED <<clusterVars, pending, shadow, s2c, former, backendVars,
                     faultVars>>
    BY DEF Invoke, Inv, Typed
<1>4. /\ \/ routine'[g] = Idle /\ r.then = Keep
         \/ /\ routine'[g] = [at |-> "settle", then |-> r.then]
            /\ r.then # Keep
      /\ \A h \in Goroutine : h # g => routine'[h] = routine[h]
    BY GotoOnly DEF Invoke
<1> QED
    BY Zenon, <1>1, <1>2, <1>3, <1>4

(* The server still has an object whenever one of its objects is a base.   *)
LEMMA BasesNext ==
    ASSUME Inv, NothingRemoves, BasesKnown, [Next]_vars
    PROVE  BasesKnown'
<1> DEFINE Queue(q) == \A i \in DOMAIN q :
                          q[i].event = "getObject" /\ q[i].base # NoObject
                             => server # NoObject
           Reading(r) == r.at = "read" /\ r.base # NoObject => server # NoObject
<1> SUFFICES ASSUME deletes' = 0 PROVE BasesKnown'
    BY Zenon DEF BasesKnown
<1>0. deletes = 0 /\ ~Delete /\ ~DeletedUnseen
    BY DeletesKept
<1>1. SUFFICES Queue(s2c') /\ \A g \in Goroutine : Reading(routine'[g])
    BY Zenon, <1>0, ServerKept DEF BasesKnown
<1>2. Queue(s2c) /\ \A g \in Goroutine : Reading(routine[g])
    BY <1>0 DEF BasesKnown
<1>3. Goroutine = {"watcher", "handler"} /\ s2c \in Seq(ToClient(versions))
    BY DEF Goroutine, Inv, Typed
<1>4. CASE \/ Create \/ Modify \/ FormerLost \/ ReconcileSnapshot
           \/ UNCHANGED vars
    <2>1. UNCHANGED <<s2c, routine>>
        BY Zenon, <1>4 DEF Create, Modify, Write, FormerLost, ReconcileSnapshot,
                    vars, clientVars
    <2> QED
        BY <1>2, <2>1
<1>5. CASE WatcherStep
    <2>0. LET s == routine'["watcher"] IN s.at # "read" \/ s.base = NoObject
        <3>1. \A o : /\ Invoking(NewChecksum(0, o), Keep).at = "invoke"
                     /\ Read(0, o, NoObject).base = NoObject
            BY DEF Invoking, Read
        <3> QED
            BY <1>0, <1>5, <3>1, WatcherMoves DEF Idle
    <2>1. Reading(routine'["watcher"])
        BY Zenon, <2>0
    <2> QED
        BY Zenon, <1>0, <1>2, <1>3, <1>5, <2>1, WatcherMoves
<1>6. CASE ClientGetObject \/ ClientBatch
    <2>1. Queue(s2c')
        <3>1. s2c # <<>> /\ s2c' = Tail(s2c)
            BY Zenon, <1>6, ClientTakes
        <3> QED
            BY Zenon, <1>2, <1>3, <3>1, AfterTail
    <2>2. Reading(routine'["handler"])
        BY <1>2, <1>3, <1>6, ClientTakes DEF Read
    <2> QED
        BY Zenon, <1>2, <1>3, <1>6, <2>1, <2>2, ClientTakes
<1>7. CASE ReconcileMissing \/ ReconcileExtra \/ ReconcileCommon
    <2>1. Reading(routine'["handler"])
        BY <1>0, <1>7, ReconcileAnswers DEF Idle, Invoking
    <2> QED
        BY Zenon, <1>0, <1>2, <1>3, <1>7, <2>1, ReconcileAnswers
<1>8. ASSUME NEW g \in Goroutine, RoutineStep(g)
      PROVE  Queue(s2c') /\ \A h \in Goroutine : Reading(routine'[h])
    <2>1. s2c' = s2c
        BY Zenon, <1>8 DEF RoutineStep, CallPutOrPatch, Invoke, Settle
    <2>2. \E s : Goto(g, s) /\ s.at # "read"
        BY <1>8 DEF RoutineStep, CallPutOrPatch, Invoke, Settle, Idle, Invoking
    <2>3. \A h \in Goroutine : Reading(routine'[h])
        BY <1>2, <2>2, GotoOnly
    <2> QED
        BY Zenon, <1>2, <2>1, <2>3
<1>9. ASSUME NEW ch \in Channel, ServerStep(ch)
      PROVE  Queue(s2c') /\ \A h \in Goroutine : Reading(routine'[h])
    <2>1. routine' = routine
        BY Zenon, <1>9, ServerTakes DEF clientVars
    <2>2. Queue(s2c')
        <3> DEFINE a == GetObject(Head(Incoming(ch)).depth, server)
        <3>1. s2c' = s2c \/ (s2c' = Append(s2c, a) /\ a \in ToClient(versions))
            BY <1>9, ServerAnswers
        <3>2. a.base = server
            BY Zenon DEF GetObject
        <3> HIDE DEF a
        <3> QED
            BY <1>2, <1>3, <3>1, <3>2, AfterAppend
    <2> QED
        BY <1>2, <2>1, <2>2
<1>10. CASE ReconcileSend
    <2>1. routine' = routine /\ s2c' = Append(s2c, Batch(recon.item))
          /\ Batch(recon.item) \in ToClient(versions)
        BY Zenon, <1>10 DEF ReconcileSend, clientVars, Batch, ToClient, Inv, Counters,
                     Maybe
    <2>2. Queue(s2c')
        BY <1>2, <1>3, <2>1, AfterAppend DEF Batch
    <2> QED
        BY Zenon, <1>2, <2>1, <2>2
<1>11. CASE ConnectionLost
    BY <1>2, <1>11 DEF ConnectionLost, clientVars
<1>12. CASE ClientRestart
    <2>1. s2c' = <<>> /\ \A g \in Goroutine : routine'[g].at # "read"
        BY Zenon, <1>12 DEF ClientRestart, Idle
    <2> QED
        BY <2>1
<1> QED
    BY Zenon, <1>0, <1>4, <1>5, <1>6, <1>7, <1>8, <1>9, <1>10, <1>11, <1>12
    DEF Next, FaultStep, HandlerStep, ReconcileStep

-----------------------------------------------------------------------------
(* A reference copy only exists after an object was put.                   *)

(* Steps of the client that send nothing.                                  *)
LEMMA PutsFrame ==
    ASSUME Inv, PutsFirst, clean, deletes = 0,
           UNCHANGED <<setup, c2s, s2c, server>>,
           shadow' # NoObject => PutBefore(Len(c2s) + 1),
           \A g \in Goroutine : routine'[g] = routine[g] \/ Orderly(routine'[g])
    PROVE  PutsFirst'
<1>1. \A i : PutBefore(i) => PutBefore(i)'
    BY DEF PutBefore
<1>2. PatchStrategy' = PatchStrategy
    BY Zenon DEF PatchStrategy
<1>3. \A m : Shallow(m) => Shallow(m)'
    BY <1>2 DEF Shallow
<1>4. \A d, b : Answerable(d, b) => Answerable(d, b)'
    BY Zenon, <1>2 DEF Answerable
<1>5. \A r : Orderly(r) => Orderly(r)'
    BY Zenon, <1>1, <1>3, <1>4 DEF Orderly
<1>6. \A g \in Goroutine : Orderly(routine[g])'
    BY Zenon, <1>5 DEF PutsFirst
<1>7. \A i \in DOMAIN c2s' :
         /\ Shallow(c2s[i])'
         /\ c2s'[i].event = "patchObject" => PutBefore(i)'
    BY Zenon, <1>1, <1>3 DEF PutsFirst
<1>8. \A i \in DOMAIN s2c' :
         IF s2c'[i].event = "getObject"
         THEN Answerable(s2c[i].depth, s2c[i].base)'
         ELSE s2c'[i].depth = 1
    BY Zenon, <1>4 DEF PutsFirst
<1>9. shadow' # NoObject => PutBefore(Len(c2s) + 1)'
    BY Zenon, <1>1
<1> QED
    BY Zenon, <1>6, <1>7, <1>8, <1>9 DEF PutsFirst

(* The watcher starts with a checksum, or reads the object.                *)
LEMMA PutsWatcher ==
    ASSUME Inv, NothingRemoves, PutsFirst, clean, deletes = 0, WatcherStep
    PROVE  PutsFirst'
<1>1. /\ UNCHANGED <<setup, c2s, s2c, server, shadow>>
      /\ routine'["handler"] = routine["handler"]
    BY Zenon, WatcherMoves DEF clusterVars, backendVars
<1>2. Orderly(Idle) /\ \A e : Orderly([at |-> "event", event |-> e])
    BY DEF Orderly, Idle
<1>3. \A o : Orderly(Invoking(NewChecksum(0, o), Keep))
    <2>1. 0 + 1 <= 2
        OBVIOUS
    <2> QED
        BY Zenon, <2>1, OrderlyInvoked
<1>4. \A o : Orderly(Read(0, o, NoObject))
    BY DEF Orderly, Read, Answerable
<1>5. Orderly(routine'["watcher"])
    BY Zenon, <1>2, <1>3, <1>4, WatcherMoves
<1>6. shadow' # NoObject => PutBefore(Len(c2s) + 1)
    BY Zenon, <1>1 DEF PutsFirst
<1> QED
    BY Zenon, <1>1, <1>5, <1>6, PutsFrame DEF Goroutine

(* callPutOrPatch patches only what it has a reference for.                *)
LEMMA PutsCall ==
    ASSUME Inv, BasesKnown, PutsFirst, clean, deletes = 0,
           NEW g \in Goroutine, CallPutOrPatch(g)
    PROVE  PutsFirst'
<1> DEFINE r == routine[g]
           old == Reference(r)
<1>1. /\ r.at = "read" /\ r.depth \in Nat
      /\ UNCHANGED <<setup, c2s, s2c, server>> /\ shadow' \in {shadow, old}
    BY Zenon, PutOrPatchEffect DEF clusterVars, backendVars
<1>2. old # NoObject => PutBefore(Len(c2s) + 1)
    <2>1. r.base # NoObject => server # NoObject
        BY Zenon, <1>1 DEF BasesKnown
    <2>2. shadow # NoObject => PutBefore(Len(c2s) + 1)
        BY Zenon DEF PutsFirst
    <2> QED
        BY Zenon, <2>1, <2>2 DEF Reference, PutBefore
<1>3. shadow' # NoObject => PutBefore(Len(c2s) + 1)
    BY <1>1, <1>2 DEF PutsFirst
<1>4. (PatchStrategy => old = NoObject) => r.depth <= 3
    <2>1. Answerable(r.depth, r.base)
        BY <1>1 DEF PutsFirst, Orderly
    <2> QED
        BY Zenon, <2>1 DEF Answerable, Reference
<1>5. ASSUME NEW t, PatchStrategy => old = NoObject
      PROVE  Orderly(Invoking(PutObject(r.depth, r.object), t))
    <2>1. r.depth \in Nat /\ r.depth <= 3
        BY Zenon, <1>1, <1>4, <1>5
    <2>2. \A d \in Nat : d <= 3 => d + 1 <= 4
        OBVIOUS
    <2> QED
        BY Zenon, <2>1, <2>2, OrderlyInvoked
<1>6. ASSUME NEW p, NEW t, PatchStrategy, old # NoObject
      PROVE  Orderly(Invoking(PatchObject(r.depth, r.object, p), t))
    BY Zenon, <1>2, <1>6, OrderlyInvoked
<1>7. Orderly(Idle)
    BY Zenon, OrderlyInvoked
<1>8. \E s : Goto(g, s) /\ Orderly(s)
    BY Zenon, <1>5, <1>6, <1>7, PutOrPatchEffect
<1>9. \A h \in Goroutine : routine'[h] = routine[h] \/ Orderly(routine'[h])
    BY Zenon, <1>8, GotoOnly
<1> QED
    BY <1>1, <1>3, <1>9, PutsFrame

(* A message is sent behind the object that was put.                       *)
LEMMA PutsInvoke ==
    ASSUME Inv, NothingRemoves, PutsFirst, clean, deletes = 0,
           NEW g \in Goroutine, Invoke(g)
    PROVE  PutsFirst'
<1> DEFINE r == routine[g]
           n == Len(c2s)
<1>1. /\ r.at = "invoke" /\ r.msg \in ToServer(versions)
      /\ c2s \in Seq(ToServer(versions)) /\ c2s' = Append(c2s, r.msg)
      /\ UNCHANGED <<setup, shadow, s2c, server>>
      /\ \A h \in Goroutine : h # g => routine'[h] = routine[h]
    BY Zenon, InvokeEffect DEF clusterVars, backendVars
<1>2. /\ n \in Nat /\ Len(c2s') = n + 1
      /\ DOMAIN c2s = 1..n /\ DOMAIN c2s' = 1..(n + 1)
      /\ \A i \in 1..n : c2s'[i] = c2s[i]
      /\ c2s'[n + 1] = r.msg
    BY <1>1, AfterAppend
<1>3. /\ Shallow(r.msg)
      /\ r.msg.event = "patchObject" => PutBefore(n + 1)
      /\ r.msg.event = "newChecksum" => r.then = Keep
    BY Zenon, <1>1 DEF PutsFirst, Orderly
<1>4. \A i \in 1..(n + 1), k \in {n + 2} :
         PutBefore(i) => PutBefore(i)' /\ PutBefore(k)'
    BY <1>1, <1>2 DEF PutBefore
<1>5. PatchStrategy' = PatchStrategy
    BY Zenon, <1>1 DEF PatchStrategy
<1>6. \A m : Shallow(m) => Shallow(m)'
    BY Zenon, <1>5 DEF Shallow
<1>7. \A d, b : Answerable(d, b) => Answerable(d, b)'
    BY <1>5 DEF Answerable
<1>8. \A k \in {n + 2} : r.then # Keep => PutBefore(k)'
    <2>1. CASE r.msg.event = "putObject"
        BY <1>2, <2>1 DEF PutBefore
    <2>2. CASE r.msg.event = "patchObject"
        BY <1>2, <1>3, <1>4, <2>2
    <2>3. r.msg.event \in {"newChecksum", "putObject", "patchObject"}
        BY <1>1 DEF ToServer, NothingRemoves, Harmless, Removes
    <2> QED
        BY Zenon, <1>3, <2>1, <2>2, <2>3
<1>9. ASSUME NEW h \in Goroutine PROVE Orderly(routine[h])'
    <2>1. CASE h = g
        <3>1. \/ routine'[g] = Idle
              \/ r.then # Keep /\ routine'[g] = [at |-> "settle", then |-> r.then]
            BY Zenon, InvokeEffect
        <3>2. routine'[g].at = "idle" \/ (r.then # Keep /\ routine'[g].at = "settle")
            BY <3>1 DEF Idle
        <3>3. r.then # Keep => PutBefore(Len(c2s) + 1)'
            BY <1>2, <1>8
        <3> QED
            BY Zenon, <2>1, <3>2, <3>3 DEF Orderly
    <2>2. CASE h # g
        <3>1. Orderly(routine[h]) /\ routine'[h] = routine[h]
            BY Zenon, <1>1, <2>2 DEF PutsFirst
        <3>2. PutBefore(n + 1) => PutBefore(Len(c2s) + 1)'
            BY <1>2, <1>4
        <3> QED
            BY Zenon, <1>6, <1>7, <3>1, <3>2 DEF Orderly
    <2> QED
        BY Zenon, <2>1, <2>2
<1>10. ASSUME NEW i \in DOMAIN c2s'
       PROVE  /\ Shallow(c2s'[i])
              /\ c2s'[i].event = "patchObject" => PutBefore(i)'
    <2>1. CASE i \in 1..n
        BY Zenon, <1>2, <1>4, <2>1 DEF PutsFirst
    <2>2. CASE i = n + 1
        BY Zenon, <1>2, <1>3, <1>4, <2>2
    <2> QED
        BY <1>2, <2>1, <2>2
<1>11. \A i \in DOMAIN c2s' :
          /\ Shallow(c2s[i])'
          /\ c2s'[i].event = "patchObject" => PutBefore(i)'
    BY <1>6, <1>10
<1>12. \A i \in DOMAIN s2c' :
          IF s2c'[i].event = "getObject"
          THEN Answerable(s2c[i].depth, s2c[i].base)'
          ELSE s2c'[i].depth = 1
    BY Zenon, <1>1, <1>7 DEF PutsFirst
<1>13. shadow' # NoObject => PutBefore(Len(c2s) + 1)'
    BY <1>1, <1>2, <1>4 DEF PutsFirst
<1> QED
    BY <1>9, <1>11, <1>12, <1>13 DEF PutsFirst

(* The reference copy is stored after its object was put.                  *)
LEMMA PutsSettle ==
    ASSUME Inv, PutsFirst, clean, deletes = 0,
           NEW g \in Goroutine, Settle(g)
    PROVE  PutsFirst'
<1>1. /\ routine[g].at = "settle" /\ Goto(g, Idle)
      /\ UNCHANGED <<setup, c2s, s2c, server>>
    BY Zenon DEF Settle, clusterVars, backendVars
<1>2. PutBefore(Len(c2s) + 1)
    BY Zenon, <1>1 DEF PutsFirst, Orderly
<1>3. Orderly(Idle)
    BY Zenon DEF Orderly, Idle
<1>4. \A h \in Goroutine : routine'[h] = routine[h] \/ Orderly(routine'[h])
    BY Zenon, <1>1, <1>3, GotoOnly
<1> QED
    BY <1>1, <1>2, <1>4, PutsFrame

(* Answers to a batch are not deep.                                        *)
LEMMA PutsHandler ==
    ASSUME Inv, NothingRemoves, PutsFirst, clean, deletes = 0,
           ReconcileMissing \/ ReconcileExtra \/ ReconcileCommon
    PROVE  PutsFirst'
<1> DEFINE r == Handler
<1>1. /\ r.at = "listed" /\ UNCHANGED <<setup, c2s, s2c, server>>
      /\ shadow' \in {shadow, NoObject}
      /\ routine'["watcher"] = routine["watcher"]
    BY Zenon, ReconcileAnswers DEF clusterVars, backendVars
<1>2. r.depth = 1
    BY <1>1 DEF PutsFirst, Orderly, Handler, Goroutine
<1>3. Orderly(Idle)
    BY Zenon, OrderlyInvoked
<1>4. \A o : /\ Orderly(Invoking(NewChecksum(1, o), Keep))
             /\ Orderly(Invoking(PutObject(1, o), Keep))
    <2>1. 1 + 1 <= 2 /\ 1 + 1 <= 4
        OBVIOUS
    <2> QED
        BY Zenon, <2>1, OrderlyInvoked
<1>5. Orderly(routine'["handler"])
    BY Zenon, <1>2, <1>3, <1>4, ReconcileAnswers
<1>6. shadow' # NoObject => PutBefore(Len(c2s) + 1)
    BY Zenon, <1>1 DEF PutsFirst
<1> QED
    BY Zenon, <1>1, <1>5, <1>6, PutsFrame DEF Goroutine

(* The handler takes a request or a batch.                                 *)
LEMMA PutsReceive ==
    ASSUME Inv, PutsFirst, clean, deletes = 0, ClientGetObject \/ ClientBatch
    PROVE  PutsFirst'
<1> DEFINE m == Head(s2c)
<1>1. /\ s2c # <<>> /\ s2c \in Seq(ToClient(versions)) /\ s2c' = Tail(s2c)
      /\ m = s2c[1] /\ 1 \in DOMAIN s2c
      /\ UNCHANGED <<setup, shadow, c2s, server>>
      /\ routine'["watcher"] = routine["watcher"]
    BY Zenon, ClientTakes DEF clusterVars, backendVars
<1>2. PatchStrategy' = PatchStrategy /\ \A i : PutBefore(i)' = PutBefore(i)
    BY Zenon, <1>1 DEF PatchStrategy, PutBefore
<1>3. \A q : Shallow(q) => Shallow(q)'
    BY <1>2 DEF Shallow
<1>4. \A d, b : Answerable(d, b) => Answerable(d, b)'
    BY Zenon, <1>2 DEF Answerable
<1>5. \A r : Orderly(r) => Orderly(r)'
    BY Zenon, <1>1, <1>2, <1>3, <1>4 DEF Orderly
<1>6. \A i \in DOMAIN s2c' :
         IF s2c'[i].event = "getObject"
         THEN Answerable(s2c[i].depth, s2c[i].base)'
         ELSE s2c'[i].depth = 1
    <2>1. \A i \in DOMAIN s2c' : i + 1 \in DOMAIN s2c /\ s2c'[i] = s2c[i + 1]
        BY Zenon, <1>1, AfterTail
    <2> QED
        BY <1>4, <2>1 DEF PutsFirst
<1>7. Orderly(routine'["handler"])
    <2>1. /\ m.event = "getObject" => Answerable(m.depth, m.base)
          /\ m.event = "batch" => m.depth = 1
        BY <1>1 DEF PutsFirst
    <2>2. m.event = "getObject" => Orderly(Read(m.depth, cluster, m.base))
        BY Zenon, <2>1 DEF Orderly, Read
    <2>3. m.event = "batch" =>
             Orderly([at |-> "listed", depth |-> m.depth, item |-> m.item,
                      object |-> cluster])
        BY <2>1 DEF Orderly
    <2>4. Orderly(routine["handler"])
        BY Zenon DEF PutsFirst, Goroutine
    <2> QED
        BY Zenon, <2>2, <2>3, <2>4, ClientTakes
<1>8. \A g \in Goroutine : Orderly(routine[g])'
    BY Zenon, <1>1, <1>5, <1>7 DEF PutsFirst, Goroutine
<1>9. /\ \A i \in DOMAIN c2s' : /\ Shallow(c2s[i])'
                                /\ c2s'[i].event = "patchObject" => PutBefore(i)'
      /\ shadow' # NoObject => PutBefore(Len(c2s) + 1)'
    BY Zenon, <1>1, <1>2, <1>3 DEF PutsFirst
<1> QED
    BY Zenon, <1>6, <1>8, <1>9 DEF PutsFirst

(* A put that the server takes is not too deep, and is kept.               *)
LEMMA PutTaken ==
    ASSUME Inv, NothingRemoves, PutsFirst, clean, deletes = 0,
           4 <= maxMessageDepth, ServerStep("live"),
           c2s[1].event = "putObject"
    PROVE  server' # NoObject
<1> DEFINE m == Head(Incoming("live"))
<1>1. c2s # <<>> /\ c2s \in Seq(ToServer(versions)) /\ m.depth \in Nat
      /\ m \in ToServer(versions)
    BY Zenon, ServerTakes DEF Incoming, Channel
<1>2. m = c2s[1] /\ 1 \in DOMAIN c2s
    BY Zenon, <1>1, AfterTail DEF Incoming
<1>3. m.depth <= 4 /\ m.event = "putObject"
    BY <1>2 DEF PutsFirst, Shallow
<1>4. ~TooDeep(m)
    BY <1>1, <1>3, SyncAssumption DEF TooDeep
<1>5. ServerPutObject("live")
    BY Zenon, <1>3 DEF ServerStep, ServerVerifyObject, ServerDeleteObject,
                ServerPatchObject, Receive
<1>6. m.object \in versions
    BY Zenon, <1>1, <1>3, MessageAt
<1>7. server' = saveIfNewer(m.object) /\ m.object # NoObject
    BY Zenon, <1>4, <1>5, <1>6, AbsentAssumption DEF ServerPutObject, Inv
<1> QED
    BY Zenon, <1>7 DEF saveIfNewer

(* The server has the object once it has taken what was put.              *)
LEMMA PutsServer ==
    ASSUME Inv, NothingRemoves, PutsFirst, clean, deletes = 0,
           4 <= maxMessageDepth, NEW ch \in Channel, ServerStep(ch)
    PROVE  PutsFirst'
<1> DEFINE m == Head(Incoming(ch))
           n == Len(c2s)
           a == GetObject(m.depth, server)
<1>0. [Next]_vars
    BY Zenon DEF Next
<1>1. /\ Incoming(ch) # <<>> /\ m.depth \in Nat
      /\ m \in ToServer(versions)
      /\ c2s \in Seq(ToServer(versions)) /\ s2c \in Seq(ToClient(versions))
      /\ IF ch = "live" THEN c2s' = Tail(c2s) ELSE c2s' = c2s
      /\ UNCHANGED <<setup, shadow, routine>>
    BY Zenon, ServerTakes DEF clusterVars, clientVars, Inv, Typed
<1>2. server # NoObject => server' # NoObject
    BY <1>0, ServerKept
<1>3. PatchStrategy' = PatchStrategy
    BY Zenon, <1>1 DEF PatchStrategy
<1>4. \A q : Shallow(q) => Shallow(q)'
    BY <1>3 DEF Shallow
<1>5. \A d, b : Answerable(d, b) => Answerable(d, b)'
    BY Zenon, <1>3 DEF Answerable
<1>6. /\ \A i \in DOMAIN c2s' : /\ Shallow(c2s'[i])
                                /\ c2s'[i].event = "patchObject" => PutBefore(i)'
      /\ PutBefore(Len(c2s) + 1) => PutBefore(Len(c2s) + 1)'
    <2>1. CASE ch = "live"
        <3>1. c2s # <<>>
            BY <1>1, <2>1 DEF Incoming
        <3>2. /\ n \in Nat /\ n >= 1 /\ Len(c2s') = n - 1
              /\ DOMAIN c2s' = 1..(n - 1) /\ DOMAIN c2s = 1..n
              /\ \A i \in 1..(n - 1) : c2s'[i] = c2s[i + 1]
            <4>1. c2s' = Tail(c2s)
                BY Zenon, <1>1, <2>1
            <4> QED
                BY Zenon, <1>1, <3>1, <4>1, AfterTail
        <3>3. c2s[1].event = "putObject" => server' # NoObject
            BY Zenon, <2>1, PutTaken
        <3>4. \A i \in 1..n : PutBefore(i + 1) => PutBefore(i)'
            <4> SUFFICES ASSUME NEW i \in 1..n, PutBefore(i + 1), server' = NoObject
                         PROVE  PutBefore(i)'
                BY Zenon DEF PutBefore
            <4>1. PICK j \in 1..i : c2s[j].event = "putObject"
                BY <1>2, <3>2 DEF PutBefore
            <4>2. j # 1
                BY Zenon, <3>3, <4>1
            <4>3. j - 1 \in 1..(i - 1) /\ c2s'[j - 1].event = "putObject"
                BY <3>2, <4>1, <4>2
            <4> QED
                BY Zenon, <4>3 DEF PutBefore
        <3>5. PutBefore(Len(c2s) + 1) => PutBefore(Len(c2s) + 1)'
            BY <3>2, <3>4
        <3> QED
            BY <3>2, <3>4, <3>5 DEF PutsFirst
    <2>2. CASE ch # "live"
        <3>1. c2s' = c2s /\ \A i : PutBefore(i) => PutBefore(i)'
            BY Zenon, <1>1, <1>2, <2>2 DEF PutBefore
        <3> QED
            BY <3>1 DEF PutsFirst
    <2> QED
        BY Zenon, <2>1, <2>2
<1>7. \A r : Orderly(r) => Orderly(r)'
    BY Zenon, <1>4, <1>5, <1>6 DEF Orderly
<1>8. \A g \in Goroutine : Orderly(routine[g])'
    BY Zenon, <1>1, <1>7 DEF PutsFirst
<1>9. \A i \in DOMAIN s2c' :
         IF s2c'[i].event = "getObject"
         THEN Answerable(s2c'[i].depth, s2c'[i].base)
         ELSE s2c'[i].depth = 1
    <2>1. CASE s2c' = s2c
        BY Zenon, <2>1 DEF PutsFirst
    <2>2. CASE s2c' # s2c
        <3>1. /\ ch = "live" /\ m.event \in {"newChecksum", "patchObject"}
              /\ s2c' = Append(s2c, a) /\ a \in ToClient(versions)
            BY <2>2, ServerAnswers
        <3>2. m = c2s[1] /\ 1 \in DOMAIN c2s
            BY Zenon, <1>1, <3>1, AfterTail DEF Incoming
        <3>3. Shallow(m) /\ (m.event = "patchObject" => server # NoObject)
            BY <3>2 DEF PutsFirst, PutBefore
        <3>4. a.event = "getObject" /\ Answerable(a.depth, a.base)
            BY <1>1, <3>1, <3>3 DEF GetObject, Answerable, Shallow
        <3> HIDE DEF a, m
        <3> QED
            BY <1>1, <3>1, <3>4, AfterAppend DEF PutsFirst
    <2> QED
        BY <2>1, <2>2
<1>10. \A i \in DOMAIN s2c' :
          IF s2c'[i].event = "getObject"
          THEN Answerable(s2c[i].depth, s2c[i].base)'
          ELSE s2c'[i].depth = 1
    BY Zenon, <1>5, <1>9
<1>11. /\ \A i \in DOMAIN c2s' : /\ Shallow(c2s[i])'
                                 /\ c2s'[i].event = "patchObject" => PutBefore(i)'
       /\ shadow' # NoObject => PutBefore(Len(c2s) + 1)'
    BY Zenon, <1>1, <1>4, <1>6 DEF PutsFirst
<1> QED
    BY Zenon, <1>8, <1>10, <1>11 DEF PutsFirst

(* Only a restart makes up for a fault.                                    *)
LEMMA CleanKept ==
    ASSUME [Next]_vars, clean', ~ClientRestart
    PROVE  clean
<1>1. ~ConnectionLost /\ ~DeletedUnseen
    BY DEF ConnectionLost, DeletedUnseen, Fault
<1> QED
    BY Zenon, <1>1
    DEF Next, Create, Modify, Delete, Write, WatcherStep, TakeEvent, Added,
        Deleted, Modified, Handling, HandlerStep, ClientGetObject, ClientBatch,
        ClientReceive, ReconcileMissing, ReconcileExtra, ReconcileCommon,
        InBatch, RoutineStep, CallPutOrPatch, Invoke, Settle, ServerStep,
        ServerVerifyObject, ServerDeleteObject, ServerPutObject,
        ServerPatchObject, Receive, ReconcileStep, ReconcileSnapshot,
        ReconcileSend, FaultStep, FormerLost, vars, faultVars

(* Only an answer to a patch is deep, and a patch follows a put.           *)
LEMMA PutsNext ==
    ASSUME Inv, NothingRemoves, BasesKnown, PutsFirst, 4 <= maxMessageDepth,
           [Next]_vars
    PROVE  PutsFirst'
<1> SUFFICES ASSUME clean', deletes' = 0 PROVE PutsFirst'
    BY DEF PutsFirst
<1>0. deletes = 0 /\ ~Delete /\ ~DeletedUnseen
    BY DeletesKept
<1>1. CASE ClientRestart
    <2>1. /\ c2s' = <<>> /\ s2c' = <<>> /\ shadow' = NoObject
          /\ \A g \in Goroutine : routine'[g].at \in {"idle", "event"}
        BY Zenon, <1>1 DEF ClientRestart, Idle
    <2>2. \A g \in Goroutine : Orderly(routine[g])'
        BY <2>1 DEF Orderly
    <2>3. DOMAIN <<>> = {}
        OBVIOUS
    <2> QED
        BY Zenon, <2>1, <2>2, <2>3 DEF PutsFirst
<1>2. ~ConnectionLost
    BY DEF ConnectionLost, Fault
<1>3. ASSUME ~ClientRestart PROVE clean
    BY <1>3, CleanKept
<1>4. CASE clean /\ (\/ Create \/ Modify \/ FormerLost \/ ReconcileSnapshot
                     \/ UNCHANGED vars)
    <2>1. UNCHANGED <<setup, c2s, s2c, server, shadow, routine>>
        BY <1>4 DEF Create, Modify, Write, FormerLost, ReconcileSnapshot, vars,
                    clusterVars, clientVars, backendVars
    <2>2. shadow' # NoObject => PutBefore(Len(c2s) + 1)
        BY Zenon, <1>0, <1>4, <2>1 DEF PutsFirst
    <2> QED
        BY Zenon, <1>0, <1>4, <2>1, <2>2, PutsFrame
<1>5. CASE clean /\ WatcherStep
    BY <1>0, <1>5, PutsWatcher
<1>6. CASE clean /\ HandlerStep
    BY Zenon, <1>0, <1>6, PutsReceive, PutsHandler DEF HandlerStep
<1>7. CASE clean /\ \E g \in Goroutine : RoutineStep(g)
    BY <1>0, <1>7, PutsCall, PutsInvoke, PutsSettle DEF RoutineStep
<1>8. CASE clean /\ \E ch \in Channel : ServerStep(ch)
    BY <1>0, <1>8, PutsServer
<1>9. CASE clean /\ ReconcileSend
    <2>1. /\ UNCHANGED <<setup, c2s, server, shadow, routine>>
          /\ s2c \in Seq(ToClient(versions)) /\ s2c' = Append(s2c, Batch(recon.item))
          /\ Batch(recon.item) \in ToClient(versions)
        BY Zenon, <1>9 DEF ReconcileSend, clusterVars, clientVars, Batch, ToClient,
                    Inv, Typed, Counters, Maybe
    <2>2. Batch(recon.item).depth = 1 /\ Batch(recon.item).event = "batch"
        BY Zenon DEF Batch
    <2>3. PatchStrategy' = PatchStrategy /\ \A i : PutBefore(i)' = PutBefore(i)
        BY Zenon, <2>1 DEF PatchStrategy, PutBefore
    <2>4. \A q : Shallow(q) => Shallow(q)'
        BY <2>3 DEF Shallow
    <2>5. \A d, b : Answerable(d, b) => Answerable(d, b)'
        BY Zenon, <2>3 DEF Answerable
    <2>6. \A r : Orderly(r) => Orderly(r)'
        BY Zenon, <2>1, <2>3, <2>4, <2>5 DEF Orderly
    <2>7. \A i \in DOMAIN s2c' :
             IF s2c'[i].event = "getObject"
             THEN Answerable(s2c'[i].depth, s2c'[i].base)
             ELSE s2c'[i].depth = 1
        BY <1>0, <1>9, <2>1, <2>2, AfterAppend DEF PutsFirst
    <2>8. \A i \in DOMAIN s2c' :
             IF s2c'[i].event = "getObject"
             THEN Answerable(s2c[i].depth, s2c[i].base)'
             ELSE s2c'[i].depth = 1
        BY <2>5, <2>7
    <2> QED
        BY Zenon, <1>0, <1>9, <2>1, <2>3, <2>4, <2>6, <2>8 DEF PutsFirst
<1> QED
    BY Zenon, <1>0, <1>1, <1>2, <1>3, <1>4, <1>5, <1>6, <1>7, <1>8, <1>9
    DEF Next, FaultStep, ReconcileStep
=============================================================================
