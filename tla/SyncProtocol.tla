---------------------------- MODULE SyncProtocol ----------------------------
(***************************************************************************)
(* How one object of a cluster reaches the backend.  The in-cluster client *)
(* (adapters/incluster/v1/client.go) has two goroutines: the watcher that  *)
(* turns watch events into messages, and the worker of the synchronizer's  *)
(* incoming pool that answers the server.  They share the reference copy   *)
(* ShadowObjects, from which patches are computed, without a lock.  The    *)
(* server keeps the object the way the reference ingester does             *)
(* (adapters/mock.go).  Messages travel through core/synchronizer.go,      *)
(* which counts the depth of an exchange and drops what is too deep.       *)
(*                                                                         *)
(* Objects do not share state, so the module follows a single one; the     *)
(* rest of its kind matters only to a reconciliation batch (Others).       *)
(* A checksum is injective: it is modelled by the object.                  *)
(***************************************************************************)
EXTENDS Naturals, Sequences, FiniteSets

CONSTANTS
    Field,             \* the fields of an object besides resourceVersion
    Value,             \* their values
    NoObject,          \* an absent object
    Setups,            \* the kinds of objects, each with its bounds
    maxMessageDepth,
    MaxRevision,       \* bound: writes to the cluster, of every setup
    MaxFaults          \* bound: faults

ASSUME SyncAssumption ==
    /\ "resourceVersion" \notin Field
    /\ Setups \subseteq [patchStrategy : BOOLEAN, reread : BOOLEAN,
                         reconciling : BOOLEAN, others : BOOLEAN,
                         writes : 0..MaxRevision, deletions : Nat]
    /\ maxMessageDepth \in Nat /\ MaxRevision \in Nat /\ MaxFaults \in Nat

VARIABLES
    setup,             \* the kind the object is of; never changes
    cluster,           \* the object in the API server
    revision,          \* its latest resource version
    versions,          \* history: every version the object ever had
    deletes,           \* how often the object was deleted
    pending,           \* CooldownQueue: the event waiting for its cooldown
    routine,           \* where the client's two goroutines are
    shadow,            \* ShadowObjects[id]
    c2s, s2c,          \* the connection, one FIFO queue each way
    former,            \* what the server still reads from a lost connection
    server,            \* the object in the backend
    recon,             \* the batch the backend is about to send
    faults,
    clean              \* history: no fault since the client started

clusterVars == <<setup, cluster, revision, versions, deletes>>
clientVars == <<pending, routine, shadow>>
backendVars == <<server, recon>>
faultVars == <<faults, clean>>
vars == <<clusterVars, clientVars, c2s, s2c, former, backendVars, faultVars>>

Key == Field \cup {"resourceVersion"}
Goroutine == {"watcher", "handler"}
Channel == {"live", "former"}

(* The kind: is its strategy domain.PatchStrategy, is it a kubescape kind, *)
(* read again on every event, does the backend send reconciliation batches *)
(* for it, and are other objects of the kind in every batch.               *)
PatchStrategy == setup.patchStrategy
Reread == setup.reread
Reconciling == setup.reconciling
Others == setup.others

Version(data, rv) ==
    [k \in Key |-> IF k = "resourceVersion" THEN rv ELSE data[k]]

RV(o) == o["resourceVersion"]

(* jsonpatch: the fields that change, and their application.               *)
CreateMergePatch(old, new) ==
    [k \in {j \in Key : old[j] # new[j]} |-> new[k]]

MergePatch(old, patch) ==
    [k \in Key |-> IF k \in DOMAIN patch THEN patch[k] ELSE old[k]]

emptyPatch(patch) == DOMAIN patch = {"resourceVersion"}

-----------------------------------------------------------------------------
(* Messages.  Each send function stamps the depth of its context plus one. *)

NewChecksum(d, o) == [event |-> "newChecksum", depth |-> d + 1, checksum |-> o]
ObjectDeleted(d) == [event |-> "objectDeleted", depth |-> d + 1]
PutObject(d, o) == [event |-> "putObject", depth |-> d + 1, object |-> o]
GetObject(d, o) == [event |-> "getObject", depth |-> d + 1, base |-> o]

\* mutant: a patch starts the count again
PatchObjectFresh(d, o, p) ==
    [event |-> "patchObject", depth |-> 1, checksum |-> o, patch |-> p]

PatchObject(d, o, p) ==
    [event |-> "patchObject", depth |-> d + 1, checksum |-> o, patch |-> p]

Batch(item) == [event |-> "batch", depth |-> 1, item |-> item]

(* What a goroutine does to the reference copy once its message is sent.   *)
Keep == [does |-> "keep"]
Forget == [does |-> "forget"]
Store(o) == [does |-> "store", object |-> o]

Idle == [at |-> "idle"]
Invoking(m, t) == [at |-> "invoke", msg |-> m, then |-> t]
Read(d, o, base) ==
    [at |-> "read", depth |-> d, object |-> o, base |-> base]

Goto(g, state) == routine' = [routine EXCEPT ![g] = state]

Init ==
    /\ setup \in Setups
    /\ cluster = NoObject
    /\ revision = 0
    /\ versions = {}
    /\ deletes = 0
    /\ pending = NoObject
    /\ routine = [g \in Goroutine |-> Idle]
    /\ shadow = NoObject
    /\ c2s = <<>> /\ s2c = <<>> /\ former = <<>>
    /\ server = NoObject
    /\ recon = NoObject
    /\ faults = 0
    /\ clean = TRUE

-----------------------------------------------------------------------------
(* The cluster.  A watch event replaces the one still waiting in the       *)
(* cooldown queue.                                                         *)

Enqueue(type, o) == pending' = [type |-> type, object |-> o]

Write(type) ==
    /\ revision < setup.writes
    /\ revision' = revision + 1
    /\ \E data \in [Field -> Value] :
          LET o == Version(data, revision + 1)
          IN  /\ cluster' = o
              /\ versions' = versions \cup {o}
              /\ Enqueue(type, o)
    /\ UNCHANGED <<setup, deletes, routine, shadow, c2s, s2c, former, backendVars,
                   faultVars>>

Create == cluster = NoObject /\ Write("Added")

Modify == cluster # NoObject /\ Write("Modified")

Delete ==
    /\ cluster # NoObject
    /\ deletes < setup.deletions
    /\ deletes' = deletes + 1
    /\ cluster' = NoObject
    /\ Enqueue("Deleted", cluster)
    /\ UNCHANGED <<setup, revision, versions, routine, shadow, c2s, s2c, former,
                   backendVars, faultVars>>

-----------------------------------------------------------------------------
(* The watcher goroutine: Client.Start.                                    *)

TakeEvent ==
    /\ routine["watcher"] = Idle
    /\ pending # NoObject
    /\ Goto("watcher", [at |-> "event", event |-> pending])
    /\ pending' = NoObject
    /\ UNCHANGED <<clusterVars, shadow, c2s, s2c, former, backendVars, faultVars>>

Handling(type) ==
    /\ routine["watcher"].at = "event"
    /\ routine["watcher"].event.type = type
    /\ UNCHANGED <<clusterVars, pending, shadow, c2s, s2c, former,
                   backendVars, faultVars>>

Seen == routine["watcher"].event.object

(* getObjectFromMeta: the object itself, or what the API server has now.   *)
ObjectFromMeta(o) == IF Reread THEN cluster ELSE o

(* getChecksum: a kubescape object can carry its checksum.                 *)
Checksums(o) == {o, ObjectFromMeta(o)}

Added ==
    /\ Handling("Added")
    /\ \E sum \in Checksums(Seen) :
          IF sum = NoObject THEN Goto("watcher", Idle)
          ELSE Goto("watcher", Invoking(NewChecksum(0, sum), Keep))

Deleted ==
    /\ Handling("Deleted")
    /\ Goto("watcher", Invoking(ObjectDeleted(0),
                                IF PatchStrategy THEN Forget ELSE Keep))

\* mutant: the object is used although it could not be read
ModifiedUnchecked ==
    /\ Handling("Modified")
    /\ Goto("watcher", Read(0, ObjectFromMeta(Seen), NoObject))

Modified ==
    /\ Handling("Modified")
    /\ LET o == ObjectFromMeta(Seen)
       IN  Goto("watcher", IF o = NoObject THEN Idle ELSE Read(0, o, NoObject))

-----------------------------------------------------------------------------
(* Shared by both goroutines: callPutOrPatch up to its callback, the wait  *)
(* for the outgoing pool, and what follows the callback.                   *)

\* mutant: the base object sent along by the server is ignored
ReferenceIgnoresBase(r) == shadow

Reference(r) == IF r.base # NoObject THEN r.base ELSE shadow

CallPutOrPatch(g) ==
    /\ routine[g].at = "read"
    /\ LET r == routine[g]
           old == Reference(r)
           patch == CreateMergePatch(old, r.object)
           sum == MergePatch(old, patch)
       IN  \/ /\ ~PatchStrategy
              /\ Goto(g, Invoking(PutObject(r.depth, r.object), Keep))
              /\ UNCHANGED shadow
           \/ /\ PatchStrategy /\ old = NoObject
              /\ Goto(g, Invoking(PutObject(r.depth, r.object),
                                  Store(r.object)))
              /\ shadow' = old
           \/ /\ PatchStrategy /\ old # NoObject /\ emptyPatch(patch)
              /\ Goto(g, Idle)
              /\ shadow' = old
           \/ /\ PatchStrategy /\ old # NoObject /\ ~emptyPatch(patch)
              /\ Goto(g, Invoking(PatchObject(r.depth, sum, patch),
                                  Store(r.object)))
              /\ shadow' = old
    /\ UNCHANGED <<clusterVars, pending, c2s, s2c, former, backendVars, faultVars>>

Invoke(g) ==
    /\ routine[g].at = "invoke"
    /\ c2s' = Append(c2s, routine[g].msg)
    /\ Goto(g, IF routine[g].then = Keep THEN Idle
               ELSE [at |-> "settle", then |-> routine[g].then])
    /\ UNCHANGED <<clusterVars, pending, shadow, s2c, former, backendVars,
                   faultVars>>

Settle(g) ==
    /\ routine[g].at = "settle"
    /\ shadow' = IF routine[g].then = Forget THEN NoObject
                 ELSE routine[g].then.object
    /\ Goto(g, Idle)
    /\ UNCHANGED <<clusterVars, pending, c2s, s2c, former, backendVars, faultVars>>

-----------------------------------------------------------------------------
(* The handler goroutine: the worker of the client's incoming pool.        *)

TooDeep(m) == m.depth > maxMessageDepth

ClientReceive(event) ==
    /\ routine["handler"] = Idle
    /\ s2c # <<>>
    /\ Head(s2c).event = event
    /\ s2c' = Tail(s2c)
    /\ UNCHANGED <<clusterVars, pending, shadow, c2s, former, backendVars,
                   faultVars>>

ClientGetObject ==
    /\ ClientReceive("getObject")
    /\ LET m == Head(s2c)
       IN  IF TooDeep(m) \/ cluster = NoObject THEN UNCHANGED routine
           ELSE Goto("handler", Read(m.depth, cluster, m.base))

(* reconcileBatchProcessingFunc: an empty batch is refused; otherwise the  *)
(* resources are listed and compared with the batch.                       *)
ClientBatch ==
    /\ ClientReceive("batch")
    /\ LET m == Head(s2c)
       IN  IF TooDeep(m) \/ (m.item = NoObject /\ ~Others)
           THEN UNCHANGED routine
           ELSE Goto("handler", [at |-> "listed", depth |-> m.depth,
                                 item |-> m.item, object |-> cluster])

InBatch ==
    /\ routine["handler"].at = "listed"
    /\ UNCHANGED <<clusterVars, pending, c2s, s2c, former, backendVars, faultVars>>

\* mutant: the reference copy survives the reconciliation
ReconcileMissingKeeps ==
    /\ InBatch
    /\ LET r == routine["handler"]
       IN  /\ r.object # NoObject /\ r.item = NoObject
           /\ Goto("handler", Invoking(NewChecksum(r.depth, r.object), Keep))
    /\ UNCHANGED shadow

ReconcileMissing ==
    /\ InBatch
    /\ LET r == routine["handler"]
       IN  /\ r.object # NoObject /\ r.item = NoObject
           /\ Goto("handler", Invoking(NewChecksum(r.depth, r.object), Keep))
    /\ shadow' = NoObject

\* mutant: the backend's item is not looked up
ReconcileExtraUnlisted ==
    /\ InBatch
    /\ LET r == routine["handler"]
       IN  /\ r.object = NoObject
           /\ Goto("handler", Invoking(ObjectDeleted(r.depth), Keep))
    /\ UNCHANGED shadow

ReconcileExtra ==
    /\ InBatch
    /\ LET r == routine["handler"]
       IN  /\ r.object = NoObject
           /\ Goto("handler", IF r.item = NoObject THEN Idle
                              ELSE Invoking(ObjectDeleted(r.depth), Keep))
    /\ UNCHANGED shadow

ReconcileCommon ==
    /\ InBatch
    /\ LET r == routine["handler"]
           o == ObjectFromMeta(r.object)
       IN  /\ r.object # NoObject /\ r.item # NoObject
           /\ Goto("handler",
                   IF r.item = RV(r.object) \/ o = NoObject THEN Idle
                   ELSE Invoking(PutObject(r.depth, o), Keep))
    /\ UNCHANGED shadow

-----------------------------------------------------------------------------
(* The server: the worker of its incoming pool and the reference ingester. *)
(* While a lost connection still has bytes to read, its worker runs beside *)
(* the one of the new connection, and nobody reads its replies.            *)

Incoming(ch) == IF ch = "live" THEN c2s ELSE former

Receive(ch, event) ==
    /\ Incoming(ch) # <<>>
    /\ Head(Incoming(ch)).event = event
    /\ IF ch = "live" THEN c2s' = Tail(c2s) /\ UNCHANGED former
       ELSE former' = Tail(former) /\ UNCHANGED c2s
    /\ UNCHANGED <<clusterVars, clientVars, recon, faultVars>>

Reply(ch, m) == s2c' = IF ch = "live" THEN Append(s2c, m) ELSE s2c

\* mutant: the version is not compared
saveAlways(o) == o

saveIfNewer(o) ==
    IF server # NoObject /\ ~(RV(o) > RV(server)) THEN server ELSE o

ServerVerifyObject(ch) ==
    /\ Receive(ch, "newChecksum")
    /\ LET m == Head(Incoming(ch))
       IN  IF TooDeep(m) \/ server = m.checksum THEN UNCHANGED s2c
           ELSE Reply(ch, GetObject(m.depth, server))
    /\ UNCHANGED server

ServerDeleteObject(ch) ==
    /\ Receive(ch, "objectDeleted")
    /\ server' = IF TooDeep(Head(Incoming(ch))) THEN server ELSE NoObject
    /\ UNCHANGED s2c

ServerPutObject(ch) ==
    /\ Receive(ch, "putObject")
    /\ LET m == Head(Incoming(ch))
       IN  server' = IF TooDeep(m) THEN server ELSE saveIfNewer(m.object)
    /\ UNCHANGED s2c

\* mutant: the checksum of the result is not verified
AppliesUnverified(m) == server # NoObject

(* patchObject: does the patched object have the announced checksum.       *)
Applies(m) == server # NoObject /\ MergePatch(server, m.patch) = m.checksum

ServerPatchObject(ch) ==
    /\ Receive(ch, "patchObject")
    /\ LET m == Head(Incoming(ch))
       IN  \/ /\ TooDeep(m)
              /\ UNCHANGED <<server, s2c>>
           \/ /\ ~TooDeep(m) /\ Applies(m)
              /\ server' = saveIfNewer(MergePatch(server, m.patch))
              /\ UNCHANGED s2c
           \/ /\ ~TooDeep(m) /\ ~Applies(m)
              /\ Reply(ch, GetObject(m.depth, server))
              /\ UNCHANGED server

-----------------------------------------------------------------------------
(* The backend reads its resource versions, and a batch with them reaches  *)
(* the connection later, when it may be stale.  Bound: the versions are    *)
(* read while no message is under way, batches being hours apart.          *)

ReconcileSnapshot ==
    /\ Reconciling /\ recon = NoObject
    /\ c2s = <<>> /\ s2c = <<>> /\ routine["handler"] = Idle
    /\ recon' = [item |-> IF server = NoObject THEN NoObject ELSE RV(server)]
    /\ UNCHANGED <<clusterVars, clientVars, c2s, s2c, former, server, faultVars>>

ReconcileSend ==
    /\ recon # NoObject
    /\ s2c' = Append(s2c, Batch(recon.item))
    /\ recon' = NoObject
    /\ UNCHANGED <<clusterVars, clientVars, c2s, former, server, faultVars>>

-----------------------------------------------------------------------------
(* Faults.                                                                 *)

Fault(restart) ==
    /\ faults < MaxFaults
    /\ faults' = faults + 1
    /\ clean' = restart

(* The connection breaks.  What the client's outgoing worker holds is sent *)
(* again on the new connection; what it wrote before is lost or is still   *)
(* read from the old one; what the server wrote is lost.  Bound: the bytes *)
(* of one lost connection at a time.                                       *)
ConnectionLost ==
    /\ Fault(FALSE)
    /\ former = <<>>
    /\ \E held \in {0, 1} :
          /\ held <= Len(c2s)
          /\ former' = SubSeq(c2s, 1, Len(c2s) - held)
          /\ c2s' = SubSeq(c2s, Len(c2s) - held + 1, Len(c2s))
    /\ s2c' = <<>>
    /\ UNCHANGED <<clusterVars, clientVars, backendVars>>

FormerLost ==
    /\ former # <<>>
    /\ former' = <<>>
    /\ UNCHANGED <<clusterVars, clientVars, c2s, s2c, backendVars, faultVars>>

\* mutant: existing objects are not announced after a restart
ClientRestartSilent ==
    /\ Fault(TRUE)
    /\ former = <<>>
    /\ shadow' = NoObject
    /\ former' = c2s
    /\ c2s' = <<>> /\ s2c' = <<>>
    /\ pending' = NoObject
    /\ routine' = [g \in Goroutine |-> Idle]
    /\ UNCHANGED <<clusterVars, backendVars>>

(* The client process restarts: existing objects are announced again.      *)
ClientRestart ==
    /\ Fault(TRUE)
    /\ former = <<>>
    /\ shadow' = NoObject
    /\ former' = c2s
    /\ c2s' = <<>> /\ s2c' = <<>>
    /\ LET seen == [type |-> "Added", object |-> cluster]
           listed == cluster # NoObject /\ Reread
       IN  /\ pending' = IF cluster # NoObject /\ ~Reread THEN seen
                         ELSE NoObject
           /\ routine' = [g \in Goroutine |->
                            IF g = "watcher" /\ listed
                            THEN [at |-> "event", event |-> seen] ELSE Idle]
    /\ UNCHANGED <<clusterVars, backendVars>>

(* The watch expires and starts again from a fresh list: a deletion in     *)
(* between has no event.                                                   *)
DeletedUnseen ==
    /\ Fault(FALSE)
    /\ cluster # NoObject
    /\ deletes < setup.deletions
    /\ deletes' = deletes + 1
    /\ cluster' = NoObject
    /\ UNCHANGED <<setup, revision, versions, clientVars, c2s, s2c, former,
                   backendVars>>

-----------------------------------------------------------------------------
WatcherStep == TakeEvent \/ Added \/ Deleted \/ Modified

HandlerStep ==
    ClientGetObject \/ ClientBatch \/ ReconcileMissing \/ ReconcileExtra
        \/ ReconcileCommon

RoutineStep(g) == CallPutOrPatch(g) \/ Invoke(g) \/ Settle(g)

ServerStep(ch) ==
    ServerVerifyObject(ch) \/ ServerDeleteObject(ch) \/ ServerPutObject(ch)
        \/ ServerPatchObject(ch)

ReconcileStep == ReconcileSnapshot \/ ReconcileSend

FaultStep == ConnectionLost \/ ClientRestart \/ DeletedUnseen

Next ==
    \/ Create \/ Modify \/ Delete
    \/ WatcherStep \/ HandlerStep
    \/ \E g \in Goroutine : RoutineStep(g)
    \/ \E ch \in Channel : ServerStep(ch)
    \/ ReconcileStep
    \/ FaultStep \/ FormerLost

Spec == Init /\ [][Next]_vars

(* Every goroutine runs, bytes of a lost connection are read or gone, and  *)
(* the backend's reconciliation ticker fires again and again.              *)
Fairness ==
    /\ WF_vars(WatcherStep) /\ WF_vars(HandlerStep)
    /\ \A g \in Goroutine : WF_vars(RoutineStep(g))
    /\ WF_vars(ServerStep("live"))
    /\ WF_vars(ServerStep("former") \/ FormerLost)
    /\ WF_vars(ReconcileSnapshot) /\ WF_vars(ReconcileSend)

FairSpec == Spec /\ Fairness

-----------------------------------------------------------------------------
(* Properties.                                                             *)

Datum == (0..MaxRevision) \cup Value
Object == {o \in [Key -> Datum] : RV(o) \in 0..MaxRevision}
Patch == UNION {[K -> Datum] : K \in SUBSET Key}
Maybe(S) == S \cup {NoObject}

(* The types, for the objects of a set S.                                  *)
ToServer(S) ==
    [event : {"newChecksum"}, depth : Nat, checksum : S]
        \cup [event : {"objectDeleted"}, depth : Nat]
        \cup [event : {"putObject"}, depth : Nat, object : S]
        \cup [event : {"patchObject"}, depth : Nat, checksum : S,
              patch : Patch]

ToClient(S) ==
    [event : {"getObject"}, depth : Nat, base : Maybe(S)]
        \cup [event : {"batch"}, depth : Nat, item : Maybe(0..MaxRevision)]

Event(S) == [type : {"Added", "Modified", "Deleted"}, object : S]

After(S) == {Keep, Forget} \cup [does : {"store"}, object : S]

Routine(S) ==
    {Idle}
        \cup [at : {"event"}, event : Event(S)]
        \cup [at : {"read"}, depth : Nat, object : S, base : Maybe(S)]
        \cup [at : {"invoke"}, msg : ToServer(S), then : After(S)]
        \cup [at : {"settle"}, then : After(S) \ {Keep}]
        \cup [at : {"listed"}, depth : Nat, item : Maybe(0..MaxRevision),
              object : Maybe(S)]

Typed(S) ==
    /\ cluster \in Maybe(S)
    /\ pending \in Maybe(Event(S))
    /\ routine \in [Goroutine -> Routine(S)]
    /\ shadow \in Maybe(S)
    /\ c2s \in Seq(ToServer(S)) /\ former \in Seq(ToServer(S))
    /\ s2c \in Seq(ToClient(S))
    /\ server \in Maybe(S)

Counters ==
    /\ setup \in Setups
    /\ revision \in 0..MaxRevision
    /\ deletes \in Nat
    /\ recon \in Maybe([item : Maybe(0..MaxRevision)])
    /\ faults \in Nat
    /\ clean \in BOOLEAN

(* An absent object is none of the values it stands beside.                *)
ASSUME AbsentAssumption ==
    NoObject \notin Object \cup Event(Object) \cup (0..MaxRevision)
                     \cup [item : Maybe(0..MaxRevision)]

(* The variables have the types of the fields they stand for.              *)
TypeOK == versions \subseteq Object /\ Typed(Object) /\ Counters

(* Whatever the goroutines, reconnections and restarts do to the reference *)
(* copy, the backend never holds a mixture of versions: a patch computed   *)
(* against another base than the backend's object is refused by its        *)
(* checksum (patchObject), so the stored object is one the cluster had.    *)
FaithfulCopy == server \in Maybe(versions)

(* saveIfNewer: late, repeated or reordered messages never replace the     *)
(* stored object by an older version of it.                                *)
NoRollback ==
    [][server # NoObject /\ server' # NoObject /\ server' # server
          => RV(server') > RV(server)]_vars

(* Together with deletions: events, patches, requests, stale batches and   *)
(* lost connections do to the copy only what module Replica allows.  In    *)
(* particular the backend never drops an object that was never deleted,    *)
(* although a batch can be compared with a list older than the object      *)
(* (reconcileBatchProcessingFunc).                                         *)
Copy == INSTANCE Replica WITH object <- cluster, deleted <- deletes > 0,
                              copy <- server

CopyKept == Copy!Spec

Quiet ==
    /\ pending = NoObject
    /\ routine = [g \in Goroutine |-> Idle]
    /\ c2s = <<>> /\ s2c = <<>> /\ former = <<>>

SameContent(a, b) ==
    \/ a = b
    \/ a # NoObject /\ b # NoObject /\ \A k \in Field : a[k] = b[k]

NoContentRepeats == \A a, b \in versions : SameContent(a, b) => a = b

(* As long as the object is never deleted and no content comes back, every *)
(* interleaving of the watcher, the handler and the server ends with the   *)
(* cluster's version in the backend, whichever messages crossed: a         *)
(* mismatch is answered with the backend's object, against which the next  *)
(* patch is computed (callPutOrPatch).  What a lost connection dropped     *)
(* arrives once the client has restarted and announced the object again.   *)
ChangesArrive ==
    Quiet /\ clean /\ deletes = 0 /\ NoContentRepeats
        => server = cluster

(* No exchange of patches and requests goes on for ever: once the cluster  *)
(* stops changing, the depth of messages brings the system to rest, even   *)
(* when the reference copy and the backend disagree for good.  (Batches    *)
(* for a reconciled kind come for ever.)                                   *)
ComesToRest == ~Reconciling => <>[]Quiet

(* Where the backend keeps sending reconciliation batches that are not     *)
(* empty, it ends up with exactly the cluster's object, or without it,     *)
(* whatever was lost before.                                               *)
Repaired == Reconciling /\ Others => <>[](server = cluster)

(* Deletion of a single entity: nothing having failed, the backend does    *)
(* not keep an object the cluster no longer has.                           *)
DeletionsArrive == Quiet /\ faults = 0 /\ cluster = NoObject => server = NoObject
=============================================================================
