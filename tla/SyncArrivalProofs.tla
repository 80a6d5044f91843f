-------------------------- MODULE SyncArrivalProofs --------------------------
(***************************************************************************)
(* Changes arrive: on a connection that holds, and after lost connections  *)
(* and restarts as far as the depth of messages allows, the system comes   *)
(* to rest only once the backend has the newest version.  The invariant    *)
(* follows that version from the watcher through requests and answers.     *)
(***************************************************************************)
EXTENDS SyncExchangeProofs

(* Time for slow machines.                                                 *)
USE SMTT(30), ZenonT(30)

(* How many more versions, older than the newest, messages of a lost       *)
(* connection can bring, and how many exchanges that can cost a patch      *)
(* against the version b.                                                  *)
Overtaking ==
    LET gap == (revision - 1) - RV(server)
    IN  IF Len(former) < gap THEN Len(former) ELSE gap

Setback(b) == 2 * (Overtaking + IF server = b THEN 0 ELSE 1)

(* The newest version on its way, K being the number of versions that can  *)
(* overtake it: with the watcher; in its first message, the answer to it   *)
(* and the next message; or, after that, in exchanges that only the lost   *)
(* connection disturbs, every other message carrying the newest version.   *)
WithWatcher == pending # NoObject \/ routine["watcher"].at \notin {"idle", "settle"}

First ==
    \/ \E i \in DOMAIN c2s :
          Current(c2s[i]) /\ (c2s[i].event = "putObject" \/ c2s[i].depth = 1)
    \/ \E i \in DOMAIN s2c : s2c[i].event = "getObject" /\ s2c[i].depth <= 2
    \/ Handler.at = "read" /\ Handler.object = cluster /\ Handler.depth <= 2
    \/ /\ Handler.at = "invoke" /\ Current(Handler.msg)
       /\ \/ Handler.msg.event = "putObject"
          \/ Handler.msg.event = "patchObject" /\ Handler.msg.depth <= 3

Second ==
    /\ Busy(Handler)
    /\ \E i \in DOMAIN c2s :
          /\ c2s[i].event = "patchObject" /\ Current(c2s[i])
          /\ c2s[i].depth <= 3
          /\ \A j \in DOMAIN c2s : j > i => Current(c2s[j])

Asked(d, b, K) == b \in versions /\ d + Setback(b) <= 2 * K + 4

Rebased(m, K) ==
    /\ m.event = "patchObject" /\ Current(m)
    /\ \E b \in versions : /\ m.patch = CreateMergePatch(b, cluster)
                           /\ m.depth + Setback(b) <= 2 * K + 5

Later(K) ==
    /\ Busy(Handler)
    /\ server # NoObject
    /\ \A j \in DOMAIN c2s : Current(c2s[j])
    /\ \/ \E i \in DOMAIN s2c :
             s2c[i].event = "getObject" /\ Asked(s2c[i].depth, s2c[i].base, K)
       \/ Handler.at = "read" /\ Asked(Handler.depth, Handler.base, K)
       \/ Handler.at = "invoke" /\ Rebased(Handler.msg, K)
       \/ \E i \in DOMAIN c2s : Rebased(c2s[i], K)

Awaited ==
    clean /\ deletes = 0 /\ NoContentRepeats /\ revision # 0 /\ server # cluster

OnItsWay(K) == Awaited => WithWatcher \/ First \/ Second \/ Later(K)

ArrivalInv(K) ==
    /\ Inv /\ Numbered /\ NothingRemoves /\ WatchesNewest /\ BasesKnown
    /\ PutsFirst /\ OnItsWay(K)

(* At most K versions can overtake the newest: as many as a lost           *)
(* connection still holds messages, or as there are versions in all.       *)
AtMost(K) == Len(former) <= K \/ MaxRevision <= K + 2
-----------------------------------------------------------------------------
(* The newest version is on its way until the backend has it.              *)

(* While the newest version is awaited the server has an older one or none. *)
LEMMA AwaitedFacts ==
    ASSUME Inv, Numbered, Awaited
    PROVE  /\ cluster \in versions /\ cluster \in Object /\ cluster # NoObject
           /\ revision \in Nat /\ RV(cluster) = revision
           /\ server \in Maybe(versions)
           /\ server # NoObject => /\ server \in versions /\ server \in Object
                                   /\ RV(server) \in 1..(revision - 1)
<1>1. revision \in Nat /\ server \in Maybe(versions)
    BY DEF Inv, Counters, Typed
<1>2. cluster \in versions /\ RV(cluster) = revision
    BY DEF Awaited, Numbered
<1>3. cluster \in Object /\ cluster # NoObject
    BY <1>2, AbsentAssumption DEF Inv
<1>4. ASSUME server # NoObject
      PROVE  /\ server \in versions /\ server \in Object
             /\ RV(server) \in 1..(revision - 1)
    <2>1. server \in versions /\ server \in Object
        BY <1>1, <1>4 DEF Maybe, Inv
    <2>2. RV(server) \in 1..revision /\ RV(server) # revision
        BY <1>2, <2>1 DEF Numbered, Awaited
    <2> QED
        BY <1>1, <2>1, <2>2
<1> QED
    BY <1>1, <1>2, <1>3, <1>4

(* What is awaited after a step that writes nothing was awaited before it. *)
LEMMA StillAwaited ==
    ASSUME Inv, Numbered, NothingRemoves, [Next]_vars, Awaited',
           ~Create, ~Modify, ~ClientRestart
    PROVE  Awaited /\ UNCHANGED clusterVars
<1>1. clean' /\ deletes' = 0 /\ server' # cluster'
    BY DEF Awaited
<1>2. deletes = 0 /\ ~Delete /\ ~DeletedUnseen
    BY <1>1, DeletesKept
<1>3. clean
    BY <1>1, CleanKept
<1>4. UNCHANGED clusterVars
    BY <1>2, ClusterChanges
<1>5. NoContentRepeats /\ revision # 0
    BY <1>4 DEF Awaited, NoContentRepeats, clusterVars
<1>6. server # cluster
    <2> SUFFICES ASSUME server = cluster PROVE FALSE
        OBVIOUS
    <2>1. cluster \in versions /\ RV(cluster) = revision /\ revision \in Nat
        BY <1>2, <1>5 DEF Numbered, Inv, Counters
    <2>2. server # NoObject
        BY <2>1, AbsentAssumption DEF Inv
    <2>3. server' # server
        BY <1>1, <1>4 DEF clusterVars
    <2>4. server' \in versions /\ RV(server') > RV(server)
        BY <1>2, <2>2, <2>3, ServerMovesOn
    <2>5. RV(server') \in 1..revision
        BY <2>4 DEF Numbered
    <2> QED
        BY <2>1, <2>4, <2>5
<1> QED
    BY <1>2, <1>3, <1>4, <1>5, <1>6 DEF Awaited

(* The costs of being overtaken.                                           *)
LEMMA SetbackFacts ==
    ASSUME Inv, Numbered, Awaited, server # NoObject
    PROVE  /\ Overtaking \in Nat /\ Overtaking <= Len(former)
           /\ Overtaking <= (revision - 1) - RV(server)
           /\ Overtaking = Len(former) \/ Overtaking = (revision - 1) - RV(server)
           /\ \A b : /\ Setback(b) \in Nat
                     /\ server = b => Setback(b) = 2 * Overtaking
                     /\ server # b => Setback(b) = 2 * Overtaking + 2
<1>1. Len(former) \in Nat
    BY LenProperties DEF Inv, Typed
<1>2. revision \in Nat /\ RV(server) \in 1..(revision - 1)
    BY AwaitedFacts
<1>3. /\ Overtaking \in Nat /\ Overtaking <= Len(former)
      /\ Overtaking <= (revision - 1) - RV(server)
      /\ Overtaking = Len(former) \/ Overtaking = (revision - 1) - RV(server)
    BY <1>1, <1>2 DEF Overtaking
<1> QED
    BY <1>3 DEF Setback

(* With the objects and the lost connection unchanged, so are the measures. *)
LEMMA SameMeasures ==
    ASSUME NEW K, UNCHANGED <<cluster, versions, revision, server, former>>
    PROVE  /\ \A m : Current(m)' = Current(m)
           /\ \A r : Busy(r)' = Busy(r)
           /\ \A d, b : Asked(d, b, K)' = Asked(d, b, K)
           /\ \A m : Rebased(m, K)' = Rebased(m, K)
<1>1. \A m : Current(m)' = Current(m)
    BY DEF Current
<1>2. \A r : Busy(r)' = Busy(r)
    BY <1>1 DEF Busy
<1>3. \A b : Setback(b)' = Setback(b)
    BY DEF Setback, Overtaking
<1>4. \A d, b : Asked(d, b, K)' = Asked(d, b, K)
    BY <1>3 DEF Asked
<1>5. \A m : Rebased(m, K)' = Rebased(m, K)
    BY <1>1, <1>3 DEF Rebased
<1> QED
    BY <1>1, <1>2, <1>4, <1>5

(* Two versions with different contents make a patch that is not empty.    *)
LEMMA PatchNotEmpty ==
    ASSUME Inv, NoContentRepeats, NEW old \in versions, NEW new \in versions
    PROVE  ~emptyPatch(CreateMergePatch(old, new))
<1> SUFFICES ASSUME {j \in Key : old[j] # new[j]} = {"resourceVersion"}
             PROVE  FALSE
    BY DEF emptyPatch, CreateMergePatch
<1>1. \A k \in Field : old[k] = new[k]
    BY SyncAssumption DEF Key
<1>2. old # NoObject /\ new # NoObject
    BY AbsentAssumption DEF Inv
<1>3. old = new
    BY Zenon, <1>1, <1>2 DEF NoContentRepeats, SameContent
<1> QED
    BY <1>3

(* Steps that leave queues and objects alone, the handler carrying on with *)
(* what it has or starting nothing stale.                                  *)
LEMMA WayFrame ==
    ASSUME NEW K,
           UNCHANGED <<cluster, versions, revision, server, former, c2s, s2c>>,
           \/ Handler' = Handler
           \/ /\ Handler.at \notin {"read", "invoke"}
              /\ Busy(Handler) => Busy(Handler'),
           First \/ Second \/ Later(K)
    PROVE  (First \/ Second \/ Later(K))'
<1>1. /\ \A m : Current(m)' = Current(m)
      /\ \A r : Busy(r)' = Busy(r)
      /\ \A d, b : Asked(d, b, K)' = Asked(d, b, K)
      /\ \A m : Rebased(m, K)' = Rebased(m, K)
    BY Zenon, SameMeasures
<1>2. Busy(Handler) => Busy(Handler)'
    BY Zenon, <1>1
<1>3. CASE First
    BY Zenon, <1>1, <1>3 DEF First
<1>4. CASE Second
    BY Zenon, <1>1, <1>2, <1>4 DEF Second
<1>5. CASE Later(K)
    BY Zenon, <1>1, <1>2, <1>5 DEF Later
<1> QED
    BY Zenon, <1>3, <1>4, <1>5

(* The watcher holds on to the newest version until its message is sent.   *)
LEMMA WayWatcher ==
    ASSUME NEW K, Inv, Numbered, NothingRemoves, WatchesNewest, Awaited,
           WithWatcher \/ First \/ Second \/ Later(K),
           WatcherStep \/ RoutineStep("watcher")
    PROVE  (WithWatcher \/ First \/ Second \/ Later(K))'
<1> DEFINE r == routine["watcher"]
<1>0. /\ "watcher" \in Goroutine /\ "handler" \in Goroutine
      /\ deletes = 0 /\ NoContentRepeats
    BY Zenon DEF Goroutine, Awaited
<1>1. cluster \in versions /\ cluster # NoObject
    BY Zenon, AwaitedFacts
<1>2. pending = NoObject => Busy(r)
    BY Zenon, <1>0 DEF WatchesNewest
<1>3. CASE WatcherStep
    <2>1. CASE TakeEvent
        <3>1. routine'["watcher"] = [at |-> "event", event |-> pending]
            BY Zenon, <1>0, <2>1, GotoOnly DEF TakeEvent
        <3>2. routine'["watcher"].at = "event"
            BY <3>1
        <3> QED
            BY Zenon, <3>2 DEF WithWatcher
    <2>2. CASE pending # NoObject /\ ~TakeEvent
        <3>1. pending' = pending
            BY <1>3, <2>2 DEF WatcherStep, Added, Deleted, Modified, Handling
        <3> QED
            BY Zenon, <2>2, <3>1 DEF WithWatcher
    <2>3. CASE pending = NoObject /\ ~TakeEvent
        <3>1. r.at = "event" /\ Seen = cluster /\ ObjectFromMeta(Seen) = cluster
            BY Zenon, <1>2, <1>3, <2>3 DEF WatcherStep, Added, Deleted, Modified,
                                    Handling, Busy, Seen, ObjectFromMeta
        <3>2. CASE Added
            <4>1. routine'["watcher"] = Invoking(NewChecksum(0, cluster), Keep)
                BY Zenon, <1>0, <1>1, <3>1, <3>2, GotoOnly DEF Added, Checksums
            <4> QED
                BY <4>1, Invoked DEF WithWatcher
        <3>3. CASE Modified
            <4>1. routine'["watcher"] = Read(0, cluster, NoObject)
                BY Zenon, <1>0, <1>1, <3>1, <3>3, GotoOnly DEF Modified
            <4>2. routine'["watcher"].at = "read"
                BY <4>1 DEF Read
            <4> QED
                BY <4>2 DEF WithWatcher
        <3>4. ~Deleted
            BY <1>0, <3>1 DEF Deleted, Handling, NothingRemoves, Harmless
        <3> QED
            BY Zenon, <1>3, <2>3, <3>2, <3>3, <3>4 DEF WatcherStep
    <2> QED
        BY Zenon, <2>1, <2>2, <2>3
<1>4. CASE RoutineStep("watcher") /\ pending # NoObject
    <2>1. pending' = pending
        BY Zenon, <1>4 DEF RoutineStep, CallPutOrPatch, Invoke, Settle
    <2> QED
        BY Zenon, <1>4, <2>1 DEF WithWatcher
<1>5. CASE CallPutOrPatch("watcher") /\ pending = NoObject
    <2>1. r.at = "read" /\ r.object = cluster
        BY <1>0, <1>2, <1>5, PutOrPatchEffect DEF Busy
    <2>2. Reference(r) # NoObject
            => ~emptyPatch(CreateMergePatch(Reference(r), cluster))
        <3>1. Reference(r) \in Maybe(versions)
            BY Zenon, <1>0, <1>5, PutOrPatchEffect
        <3> QED
            BY Zenon, <1>0, <1>1, <3>1, PatchNotEmpty DEF Maybe
    <2>3. routine'["watcher"].at = "invoke"
        BY <1>0, <1>5, <2>1, <2>2, PutOrPatchEffect, GotoOnly, Invoked
    <2> QED
        BY Zenon, <2>3 DEF WithWatcher
<1>6. CASE Invoke("watcher") /\ pending = NoObject
    <2>1. /\ r.at = "invoke" /\ r.msg \in ToServer(versions)
          /\ c2s \in Seq(ToServer(versions)) /\ c2s' = Append(c2s, r.msg)
          /\ cluster' = cluster
        BY Zenon, <1>0, <1>6, InvokeEffect DEF clusterVars
    <2>2. Content(r.msg) = cluster /\ r.msg.depth = 1
        BY Zenon, <1>2, <1>6, <2>1 DEF Busy, Current, WatchesNewest
    <2>3. \E i \in DOMAIN c2s' : c2s'[i] = r.msg
        BY <2>1, AfterAppend
    <2> QED
        BY <2>1, <2>2, <2>3 DEF First, Current
<1>7. CASE Settle("watcher") /\ pending = NoObject
    <2>1. /\ r.at = "settle" /\ Handler' = Handler
          /\ UNCHANGED <<cluster, versions, revision, server, former, c2s, s2c>>
        BY <1>0, <1>7, GotoOnly DEF Settle, Handler, clusterVars, backendVars
    <2>2. First \/ Second \/ Later(K)
        BY <1>7, <2>1 DEF WithWatcher
    <2> QED
        BY Zenon, <2>1, <2>2, WayFrame
<1> QED
    BY <1>3, <1>4, <1>5, <1>6, <1>7 DEF RoutineStep

(* The client takes a message of the server: a request for the newest      *)
(* version is not too deep.                                                *)
LEMMA WayReceive ==
    ASSUME NEW K \in Nat, 2 * K + 5 <= maxMessageDepth,
           Inv, Numbered, Awaited, First \/ Second \/ Later(K),
           ClientGetObject \/ ClientBatch
    PROVE  (First \/ Second \/ Later(K))'
<1> DEFINE m == Head(s2c)
           s == routine'["handler"]
<1>1. /\ s2c # <<>> /\ s2c \in Seq(ToClient(versions)) /\ s2c' = Tail(s2c)
      /\ m = s2c[1] /\ 1 \in DOMAIN s2c /\ m \in ToClient(versions)
      /\ Handler = Idle
      /\ UNCHANGED <<cluster, versions, revision, server, former, c2s>>
    BY Zenon, ClientTakes DEF clusterVars, backendVars
<1>2. /\ \A q : Current(q)' = Current(q)
      /\ \A r : Busy(r)' = Busy(r)
      /\ \A d, b : Asked(d, b, K)' = Asked(d, b, K)
      /\ \A q : Rebased(q, K)' = Rebased(q, K)
    BY Zenon, <1>1, SameMeasures
<1>3. cluster # NoObject /\ cluster \in versions
    BY AwaitedFacts
<1>4. Busy(Handler)'
    <2>1. Busy(Idle) /\ \A d, b : Busy(Read(d, cluster, b))
        BY Zenon DEF Busy, Idle, Read
    <2>2. Busy([at |-> "listed", depth |-> m.depth, item |-> m.item,
                object |-> cluster])
        BY Zenon DEF Busy
    <2>3. Busy(s)
        BY Zenon, <1>1, <2>1, <2>2, ClientTakes DEF Handler
    <2> QED
        BY Zenon, <1>2, <2>3 DEF Handler
<1>5. /\ m.depth \in Nat
      /\ m.event = "getObject" /\ ~TooDeep(m) =>
            /\ s.at = "read" /\ s.object = cluster
            /\ s.depth = m.depth /\ s.base = m.base
    <2>1. m.depth \in Nat
        BY Zenon, <1>1, ReplyAt
    <2>2. m.event = "getObject" /\ ~TooDeep(m) => s = Read(m.depth, cluster, m.base)
        BY Zenon, <1>3, ClientTakes
    <2> QED
        BY <2>1, <2>2 DEF Read
<1>6. \A i \in DOMAIN s2c : i # 1 => i - 1 \in DOMAIN s2c' /\ s2c'[i - 1] = s2c[i]
    BY Zenon, <1>1, AfterTail
<1>7. Handler.at = "idle"
    BY Zenon, <1>1 DEF Idle
<1> HIDE DEF m, s
<1>8. CASE First
    <2>1. CASE \E i \in DOMAIN c2s :
                  Current(c2s[i]) /\ (c2s[i].event = "putObject" \/ c2s[i].depth = 1)
        BY <1>1, <1>2, <2>1 DEF First
    <2>2. CASE \E i \in DOMAIN s2c :
                  s2c[i].event = "getObject" /\ s2c[i].depth <= 2
        <3>1. PICK i \in DOMAIN s2c : s2c[i].event = "getObject" /\ s2c[i].depth <= 2
            BY Zenon, <2>2
        <3>2. CASE i = 1
            <4>1. m.event = "getObject" /\ m.depth <= 2 /\ ~TooDeep(m)
                BY <1>1, <1>5, <3>1, <3>2, SyncAssumption DEF TooDeep
            <4> QED
                BY Zenon, <1>1, <1>5, <4>1 DEF First, Handler, s
        <3>3. CASE i # 1
            BY <1>6, <3>1, <3>3 DEF First
        <3> QED
            BY Zenon, <3>2, <3>3
    <2> QED
        BY Zenon, <1>7, <1>8, <2>1, <2>2 DEF First
<1>9. CASE Second
    BY Zenon, <1>1, <1>2, <1>4, <1>9 DEF Second
<1>10. CASE Later(K)
    <2>1. server' # NoObject /\ \A j \in DOMAIN c2s' : Current(c2s[j])'
        BY Zenon, <1>1, <1>2, <1>10 DEF Later
    <2>2. CASE \E i \in DOMAIN s2c : /\ s2c[i].event = "getObject"
                                     /\ Asked(s2c[i].depth, s2c[i].base, K)
        <3>1. PICK i \in DOMAIN s2c : /\ s2c[i].event = "getObject"
                                      /\ Asked(s2c[i].depth, s2c[i].base, K)
            BY Zenon, <2>2
        <3>2. CASE i = 1
            <4>1. m.event = "getObject" /\ Asked(m.depth, m.base, K)
                BY Zenon, <1>1, <3>1, <3>2
            <4>2. m.depth <= 2 * K + 4
                <5>1. server # NoObject
                    BY Zenon, <1>10 DEF Later
                <5>2. Setback(m.base) \in Nat
                    BY Zenon, <5>1, SetbackFacts
                <5> QED
                    BY <1>5, <4>1, <5>2 DEF Asked
            <4>3. ~TooDeep(m)
                BY <1>5, <4>2, SyncAssumption DEF TooDeep
            <4>4. Handler'.at = "read" /\ Asked(Handler.depth, Handler.base, K)'
                BY Zenon, <1>2, <1>5, <4>1, <4>3 DEF Handler, s
            <4> QED
                BY Zenon, <1>4, <2>1, <4>4 DEF Later
        <3>3. CASE i # 1
            <4>1. \E j \in DOMAIN s2c' :
                     s2c'[j].event = "getObject" /\ Asked(s2c[j].depth, s2c[j].base, K)'
                BY <1>2, <1>6, <3>1, <3>3
            <4> QED
                BY Zenon, <1>4, <2>1, <4>1 DEF Later
        <3> QED
            BY <3>2, <3>3
    <2>3. CASE \E i \in DOMAIN c2s : Rebased(c2s[i], K)
        BY Zenon, <1>1, <1>2, <1>4, <2>1, <2>3 DEF Later
    <2> QED
        BY Zenon, <1>7, <1>10, <2>2, <2>3 DEF Later
<1> QED
    BY Zenon, <1>8, <1>9, <1>10

(* The answer to a batch carries what was listed.                          *)
LEMMA WayReconcile ==
    ASSUME NEW K, Inv, NothingRemoves, Awaited, First \/ Second \/ Later(K),
           ReconcileMissing \/ ReconcileExtra \/ ReconcileCommon
    PROVE  (First \/ Second \/ Later(K))'
<1> DEFINE r == Handler
<1>1. /\ r.at = "listed"
      /\ UNCHANGED <<cluster, versions, revision, server, former, c2s, s2c>>
    BY Zenon, ReconcileAnswers DEF Awaited, clusterVars, backendVars
<1>2. Busy(r) => Busy(routine'["handler"])
    <2>1. Busy(Idle)
        BY Zenon DEF Busy, Idle
    <2>2. /\ Busy(Invoking(NewChecksum(r.depth, cluster), Keep))
          /\ Busy(Invoking(PutObject(r.depth, cluster), Keep))
        BY Invoked DEF Busy, Current
    <2>3. Busy(r) => r.object = cluster
        BY Zenon, <1>1 DEF Busy
    <2> QED
        BY Zenon, <2>1, <2>2, <2>3, ReconcileAnswers DEF Awaited
<1> QED
    BY Zenon, <1>1, <1>2, WayFrame DEF Handler

(* The handler sends the newest version whole, or as a patch of the base   *)
(* that came with the request.                                             *)
LEMMA WayCall ==
    ASSUME NEW K \in Nat, Inv, Numbered, Awaited, First \/ Second \/ Later(K),
           CallPutOrPatch("handler")
    PROVE  (First \/ Second \/ Later(K))'
<1> DEFINE r == Handler
           old == Reference(r)
           patch == CreateMergePatch(old, r.object)
           s == routine'["handler"]
<1>0. "handler" \in Goroutine
    BY Zenon DEF Goroutine
<1>1. /\ r.at = "read" /\ r.depth \in Nat /\ r.object \in versions
      /\ old \in Maybe(versions)
      /\ UNCHANGED <<cluster, versions, revision, server, former, c2s, s2c>>
    BY Zenon, <1>0, PutOrPatchEffect DEF clusterVars, backendVars, Handler
<1>2. \/ /\ PatchStrategy => old = NoObject
         /\ s.at = "invoke" /\ s.msg.event = "putObject"
         /\ s.msg.depth = r.depth + 1 /\ Content(s.msg) = r.object
      \/ PatchStrategy /\ old # NoObject /\ emptyPatch(patch) /\ s = Idle
      \/ /\ PatchStrategy /\ old # NoObject
         /\ s.at = "invoke" /\ s.msg.event = "patchObject"
         /\ s.msg.depth = r.depth + 1 /\ Content(s.msg) = r.object
         /\ s.msg.patch = patch
    <2>1. \/ /\ PatchStrategy => old = NoObject
             /\ \E t : s = Invoking(PutObject(r.depth, r.object), t)
          \/ PatchStrategy /\ old # NoObject /\ emptyPatch(patch) /\ s = Idle
          \/ /\ PatchStrategy /\ old # NoObject
             /\ \E t : s = Invoking(PatchObject(r.depth, r.object, patch), t)
        BY Zenon, <1>0, PutOrPatchEffect, GotoOnly DEF Handler
    <2> HIDE DEF r, old, patch, s
    <2> QED
        BY <2>1, Invoked
<1>3. cluster \in versions /\ NoContentRepeats
    BY Zenon, AwaitedFacts DEF Awaited
<1>4. r.object = cluster /\ old # NoObject => ~emptyPatch(patch)
    BY Zenon, <1>1, <1>3, PatchNotEmpty DEF Maybe
<1>5. /\ \A q : Current(q)' = Current(q)
      /\ \A q : Busy(q)' = Busy(q)
      /\ \A d, b : Asked(d, b, K)' = Asked(d, b, K)
      /\ \A q : Rebased(q, K)' = Rebased(q, K)
    BY Zenon, <1>1, SameMeasures
<1> HIDE DEF patch, old, s
<1>6. Busy(r) => Busy(Handler)'
    <2>1. Busy(r) => r.object = cluster
        BY Zenon, <1>1 DEF Busy
    <2>2. Busy(r) => Busy(s)
        BY Zenon, <1>2, <1>4, <2>1 DEF Busy, Current
    <2> QED
        BY Zenon, <1>5, <2>2 DEF Handler, s
<1>7. CASE First
    <2>1. CASE r.object = cluster /\ r.depth <= 2
        <3>1. /\ s.at = "invoke" /\ Content(s.msg) = cluster
              /\ \/ s.msg.event = "putObject"
                 \/ s.msg.event = "patchObject" /\ s.msg.depth <= 3
            BY <1>1, <1>2, <1>4, <2>1
        <3> QED
            BY Zenon, <1>1, <3>1 DEF First, Current, Handler, s
    <2>2. CASE ~(r.object = cluster /\ r.depth <= 2)
        BY Zenon, <1>1, <1>5, <1>7, <2>2 DEF First
    <2> QED
        BY Zenon, <2>1, <2>2
<1>8. CASE Second
    BY <1>1, <1>5, <1>6, <1>8 DEF Second
<1>9. CASE Later(K)
    <2>1. /\ Busy(r) /\ server' # NoObject
          /\ \A j \in DOMAIN c2s' : Current(c2s[j])'
        BY Zenon, <1>1, <1>5, <1>9 DEF Later
    <2>2. CASE Asked(r.depth, r.base, K)
        <3>1. r.object = cluster
            BY Zenon, <1>1, <2>1 DEF Busy
        <3>2. r.base \in versions /\ r.base # NoObject /\ old = r.base
            BY Zenon, <2>2, AbsentAssumption DEF Asked, Reference, Inv, old
        <3>3. CASE s.msg.event = "putObject" /\ s.at = "invoke"
                   /\ Content(s.msg) = cluster
            BY Zenon, <1>1, <3>3 DEF First, Current, Handler, s
        <3>4. CASE s.msg.event = "patchObject" /\ s.at = "invoke"
                   /\ Content(s.msg) = cluster /\ s.msg.depth = r.depth + 1
                   /\ s.msg.patch = patch
            <4>1. r.depth + Setback(r.base) <= 2 * K + 4
                BY <2>2 DEF Asked
            <4>2. Setback(r.base) \in Nat
                BY Zenon, <1>9, SetbackFacts DEF Later
            <4>3. s.msg.depth + Setback(r.base) <= 2 * K + 5
                BY <1>1, <3>4, <4>1, <4>2
            <4>4. s.msg.patch = CreateMergePatch(r.base, cluster)
                BY <3>1, <3>2, <3>4 DEF patch
            <4>5. Rebased(s.msg, K)
                BY Zenon, <3>2, <3>4, <4>3, <4>4 DEF Rebased, Current
            <4>6. Handler'.at = "invoke" /\ Rebased(Handler.msg, K)'
                BY <1>5, <3>4, <4>5 DEF Handler, s
            <4> QED
                BY Zenon, <1>6, <2>1, <4>6 DEF Later
        <3> QED
            BY Zenon, <1>2, <1>4, <3>1, <3>2, <3>3, <3>4
    <2>3. CASE ~Asked(r.depth, r.base, K)
        <3>1. \/ \E i \in DOMAIN s2c : /\ s2c[i].event = "getObject"
                                       /\ Asked(s2c[i].depth, s2c[i].base, K)
              \/ \E i \in DOMAIN c2s : Rebased(c2s[i], K)
            BY Zenon, <1>1, <1>9, <2>3 DEF Later
        <3>2. \/ \E i \in DOMAIN s2c' : /\ s2c'[i].event = "getObject"
                                        /\ Asked(s2c[i].depth, s2c[i].base, K)'
              \/ \E i \in DOMAIN c2s' : Rebased(c2s[i], K)'
            BY Zenon, <1>1, <1>5, <3>1
        <3> QED
            BY Zenon, <1>6, <2>1, <3>2 DEF Later
    <2> QED
        BY Zenon, <2>2, <2>3
<1> QED
    BY <1>7, <1>8, <1>9

(* The handler's message joins the connection.                             *)
LEMMA WayInvoke ==
    ASSUME NEW K \in Nat, Inv, First \/ Second \/ Later(K), Invoke("handler")
    PROVE  (First \/ Second \/ Later(K))'
<1> DEFINE r == Handler
           n == Len(c2s)
<1>0. "handler" \in Goroutine
    BY DEF Goroutine
<1>1. /\ r.at = "invoke" /\ r.msg \in ToServer(versions)
      /\ c2s \in Seq(ToServer(versions)) /\ c2s' = Append(c2s, r.msg)
      /\ UNCHANGED <<cluster, versions, revision, server, former, s2c>>
      /\ Handler'.at \in {"idle", "settle"}
    <2>1. Handler' = Idle \/ Handler' = [at |-> "settle", then |-> r.then]
        BY Zenon, <1>0, InvokeEffect DEF Handler
    <2>2. Handler'.at \in {"idle", "settle"}
        BY <2>1 DEF Idle
    <2> QED
        BY Zenon, <1>0, <2>2, InvokeEffect DEF clusterVars, backendVars, Handler
<1>2. /\ n \in Nat /\ DOMAIN c2s = 1..n /\ DOMAIN c2s' = 1..(n + 1)
      /\ \A i \in 1..n : c2s'[i] = c2s[i]
      /\ c2s'[n + 1] = r.msg
    BY <1>1, AfterAppend
<1>3. /\ \A q : Current(q)' = Current(q)
      /\ \A q : Busy(q)' = Busy(q)
      /\ \A d, b : Asked(d, b, K)' = Asked(d, b, K)
      /\ \A q : Rebased(q, K)' = Rebased(q, K)
    BY Zenon, <1>1, SameMeasures
<1>4. Busy(Handler)' /\ (Busy(r) => Current(r.msg))
    BY <1>1 DEF Busy
<1>5. CASE First
    <2>1. CASE /\ Current(r.msg)
               /\ \/ r.msg.event = "putObject"
                  \/ r.msg.event = "patchObject" /\ r.msg.depth <= 3
        <3>1. CASE r.msg.event = "putObject"
            BY <1>2, <1>3, <2>1, <3>1 DEF First
        <3>2. CASE r.msg.event = "patchObject" /\ r.msg.depth <= 3
            <4>1. /\ c2s'[n + 1].event = "patchObject" /\ Current(r.msg)
                  /\ c2s'[n + 1].depth <= 3 /\ n + 1 \in DOMAIN c2s'
                  /\ \A j \in DOMAIN c2s' : ~(j > n + 1)
                BY <1>2, <2>1, <3>2
            <4>2. \E i \in DOMAIN c2s' :
                     /\ c2s'[i].event = "patchObject" /\ Current(c2s[i])'
                     /\ c2s'[i].depth <= 3
                     /\ \A j \in DOMAIN c2s' : j > i => Current(c2s[j])'
                BY Zenon, <1>2, <1>3, <4>1
            <4> QED
                BY Zenon, <1>4, <4>2 DEF Second
        <3> QED
            BY Zenon, <2>1, <3>1, <3>2
    <2>2. CASE \E i \in DOMAIN c2s :
                  Current(c2s[i]) /\ (c2s[i].event = "putObject" \/ c2s[i].depth = 1)
        BY <1>2, <1>3, <2>2 DEF First
    <2>3. CASE \E i \in DOMAIN s2c :
                  s2c[i].event = "getObject" /\ s2c[i].depth <= 2
        BY Zenon, <1>1, <2>3 DEF First
    <2> QED
        BY Zenon, <1>1, <1>5, <2>1, <2>2, <2>3 DEF First
<1>6. CASE Second
    <2>1. Current(r.msg)
        BY <1>4, <1>6 DEF Second
    <2>2. PICK i \in DOMAIN c2s :
             /\ c2s[i].event = "patchObject" /\ Current(c2s[i])
             /\ c2s[i].depth <= 3
             /\ \A j \in DOMAIN c2s : j > i => Current(c2s[j])
        BY Zenon, <1>6 DEF Second
    <2>3. /\ i \in DOMAIN c2s' /\ c2s'[i] = c2s[i]
          /\ \A j \in DOMAIN c2s' : j > i => Current(c2s'[j])
        BY <1>2, <2>1, <2>2
    <2>4. \E k \in DOMAIN c2s' :
             /\ c2s'[k].event = "patchObject" /\ Current(c2s[k])'
             /\ c2s'[k].depth <= 3
             /\ \A j \in DOMAIN c2s' : j > k => Current(c2s[j])'
        BY <1>3, <2>2, <2>3
    <2> QED
        BY Zenon, <1>4, <2>4 DEF Second
<1>7. CASE Later(K)
    <2>1. server' # NoObject /\ \A j \in DOMAIN c2s' : Current(c2s[j])'
        BY <1>1, <1>2, <1>3, <1>4, <1>7 DEF Later
    <2>2. \/ \E i \in DOMAIN s2c' : /\ s2c'[i].event = "getObject"
                                    /\ Asked(s2c[i].depth, s2c[i].base, K)'
          \/ \E i \in DOMAIN c2s' : Rebased(c2s[i], K)'
        BY <1>1, <1>2, <1>3, <1>7 DEF Later
    <2> QED
        BY Zenon, <1>4, <2>1, <2>2 DEF Later
<1> QED
    BY <1>5, <1>6, <1>7

(* A message with the newest version reaches the server: either it stores  *)
(* the version, or it asks for it with its own object as the base.         *)
LEMMA NewestReaches ==
    ASSUME Inv, Numbered, NothingRemoves, Awaited, Awaited',
           ServerStep("live"), Current(c2s[1]), cluster' = cluster
    PROVE  /\ server' = server
           /\ ~TooDeep(c2s[1]) =>
                 /\ c2s[1].event \in {"newChecksum", "patchObject"}
                 /\ c2s[1].event = "patchObject" => ~Applies(c2s[1])
                 /\ s2c' = Append(s2c, GetObject(c2s[1].depth, server))
<1> DEFINE m == Head(Incoming("live"))
<1>1. /\ c2s # <<>> /\ c2s \in Seq(ToServer(versions))
      /\ m \in ToServer(versions)
    BY Zenon, ServerTakes DEF Incoming, Channel
<1>2. m = c2s[1] /\ 1 \in DOMAIN c2s
    BY Zenon, <1>1, AfterTail DEF Incoming
<1>3. /\ revision \in Nat /\ RV(cluster) = revision /\ server # cluster
      /\ server # NoObject => RV(server) \in 1..(revision - 1)
      /\ server' # cluster
    BY Zenon, AwaitedFacts DEF Awaited
<1>4. saveIfNewer(cluster) = cluster
    BY <1>3 DEF saveIfNewer
<1>5. m.event # "objectDeleted" /\ Content(m) = cluster
    BY Zenon, <1>2 DEF NothingRemoves, Removes, Current, Awaited
<1> HIDE DEF m
<1>6. CASE ServerVerifyObject("live")
    <2>1. m.event = "newChecksum" /\ m.checksum = cluster
        BY Zenon, <1>5, <1>6 DEF ServerVerifyObject, Receive, Content, m
    <2> QED
        BY Zenon, <1>2, <1>3, <1>6, <2>1 DEF ServerVerifyObject, Reply, m
<1>7. CASE ServerPutObject("live")
    <2>1. m.object = cluster
        BY Zenon, <1>5, <1>7 DEF ServerPutObject, Receive, Content, m
    <2>2. TooDeep(m) /\ server' = server
        BY Zenon, <1>3, <1>4, <1>7, <2>1 DEF ServerPutObject, m
    <2> QED
        BY Zenon, <1>2, <2>2
<1>8. CASE ServerPatchObject("live")
    <2>1. m.event = "patchObject" /\ m.checksum = cluster
        BY Zenon, <1>5, <1>8 DEF ServerPatchObject, Receive, Content, m
    <2>2. ~TooDeep(m) => ~Applies(m)
        <3> SUFFICES ASSUME ~TooDeep(m), Applies(m) PROVE FALSE
            OBVIOUS
        <3>1. MergePatch(server, m.patch) = cluster
            BY Zenon, <2>1 DEF Applies
        <3>2. server' = saveIfNewer(MergePatch(server, m.patch))
            BY Zenon, <1>8 DEF ServerPatchObject, m
        <3> QED
            BY Zenon, <1>3, <1>4, <3>1, <3>2
    <2> QED
        BY Zenon, <1>2, <1>8, <2>1, <2>2 DEF ServerPatchObject, Reply, m
<1>9. CASE ServerDeleteObject("live")
    BY Zenon, <1>5, <1>9 DEF ServerDeleteObject, Receive, m
<1> QED
    BY Zenon, <1>6, <1>7, <1>8, <1>9 DEF ServerStep

(* The server takes a message of the live connection.                      *)
LEMMA WayServer ==
    ASSUME NEW K \in Nat, 2 * K + 5 <= maxMessageDepth, AtMost(K),
           Inv, Numbered, NothingRemoves, PutsFirst, Awaited, Awaited',
           First \/ Second \/ Later(K), ServerStep("live")
    PROVE  (First \/ Second \/ Later(K))'
<1> DEFINE m == c2s[1]
           n == Len(c2s)
           a == GetObject(m.depth, server)
<1>1. /\ c2s # <<>> /\ c2s \in Seq(ToServer(versions)) /\ c2s' = Tail(c2s)
      /\ Head(c2s) = Head(Incoming("live"))
      /\ Head(c2s) \in ToServer(versions) /\ Head(c2s).depth \in Nat
      /\ UNCHANGED <<cluster, versions, revision, former, routine>>
    BY Zenon, ServerTakes DEF Incoming, Channel, clusterVars, clientVars
<1>2. /\ Head(c2s) = m /\ n \in Nat /\ n >= 1
      /\ DOMAIN c2s = 1..n /\ DOMAIN c2s' = 1..(n - 1)
      /\ \A i \in 1..n : i # 1 => i - 1 \in 1..(n - 1) /\ c2s'[i - 1] = c2s[i]
      /\ \A i \in 1..(n - 1) : c2s'[i] = c2s[i + 1]
    BY Zenon, <1>1, AfterTail
<1>3. m.depth \in Nat /\ m \in ToServer(versions)
    BY Zenon, <1>1, <1>2
<1>4. s2c \in Seq(ToClient(versions)) /\ a \in ToClient(versions)
      /\ a.event = "getObject" /\ a.depth = m.depth + 1 /\ a.base = server
    BY <1>3 DEF GetObject, ToClient, Inv, Typed
<1>5. s2c' = s2c \/ s2c' = Append(s2c, a)
    BY Zenon, <1>1, <1>2, ServerAnswers DEF Channel
<1> HIDE DEF a
<1>6. \A i \in DOMAIN s2c : i \in DOMAIN s2c' /\ s2c'[i] = s2c[i]
    BY <1>4, <1>5, AfterAppend
<1>7. s2c' = Append(s2c, a) => \E i \in DOMAIN s2c' : s2c'[i] = a
    BY <1>4, AfterAppend
<1>8. /\ \A q : Current(q)' = Current(q)
      /\ \A q : Busy(q)' = Busy(q)
    BY Zenon, <1>1 DEF Current, Busy
<1>9. Handler' = Handler
    BY Zenon, <1>1 DEF Handler
<1>10. Current(m) =>
         /\ server' = server
         /\ ~TooDeep(m) => /\ m.event \in {"newChecksum", "patchObject"}
                           /\ m.event = "patchObject" => ~Applies(m)
                           /\ s2c' = Append(s2c, a)
    BY Zenon, <1>1, NewestReaches DEF a
<1>11. maxMessageDepth \in Nat /\ 5 <= maxMessageDepth
    BY SyncAssumption
<1>12. CASE First
    <2>1. CASE \E i \in DOMAIN c2s :
                  Current(c2s[i]) /\ (c2s[i].event = "putObject" \/ c2s[i].depth = 1)
        <3>1. PICK i \in DOMAIN c2s :
                 Current(c2s[i]) /\ (c2s[i].event = "putObject" \/ c2s[i].depth = 1)
            BY Zenon, <2>1
        <3>2. CASE i = 1
            <4>1. m.event = "putObject" => m.depth <= 4
                BY Zenon, <1>2, <3>2 DEF PutsFirst, Shallow, Awaited
            <4>2. ~TooDeep(m)
                BY <1>3, <1>11, <3>1, <3>2, <4>1 DEF TooDeep
            <4>3. m.depth = 1 /\ s2c' = Append(s2c, a)
                BY Zenon, <1>10, <3>1, <3>2, <4>2
            <4>4. a.event = "getObject" /\ a.depth <= 2
                BY <1>4, <4>3
            <4> QED
                BY Zenon, <1>7, <4>3, <4>4 DEF First
        <3>3. CASE i # 1
            BY Zenon, <1>2, <1>8, <3>1, <3>3 DEF First
        <3> QED
            BY Zenon, <3>2, <3>3
    <2>2. CASE \E i \in DOMAIN s2c :
                  s2c[i].event = "getObject" /\ s2c[i].depth <= 2
        BY Zenon, <1>6, <2>2 DEF First
    <2>3. CASE Handler.at = "read" /\ Handler.object = cluster /\ Handler.depth <= 2
        BY Zenon, <1>1, <1>9, <2>3 DEF First
    <2>4. CASE /\ Handler.at = "invoke" /\ Current(Handler.msg)
               /\ \/ Handler.msg.event = "putObject"
                  \/ Handler.msg.event = "patchObject" /\ Handler.msg.depth <= 3
        BY Zenon, <1>8, <1>9, <2>4 DEF First
    <2> QED
        BY Zenon, <1>12, <2>1, <2>2, <2>3, <2>4 DEF First
<1>13. ASSUME server' = server, server # NoObject, Busy(Handler),
              \A j \in DOMAIN c2s : j # 1 => Current(c2s[j]),
              s2c' = Append(s2c, a), Asked(a.depth, a.base, K)
       PROVE  Later(K)'
    <2>1. \A d, b : Asked(d, b, K)' = Asked(d, b, K)
        BY <1>1, <1>13, SameMeasures
    <2>2. \A j \in DOMAIN c2s' : Current(c2s[j])'
        <3> SUFFICES ASSUME NEW j \in DOMAIN c2s' PROVE Current(c2s'[j])
            BY <1>8
        <3>1. j + 1 \in DOMAIN c2s /\ j + 1 # 1 /\ c2s'[j] = c2s[j + 1]
            BY <1>2
        <3> QED
            BY Zenon, <1>13, <3>1
    <2>3. Busy(Handler)' /\ server' # NoObject
        BY Zenon, <1>8, <1>9, <1>13
    <2>4. PICK i \in DOMAIN s2c' : s2c'[i] = a
        BY Zenon, <1>7, <1>13
    <2>5. s2c'[i].event = "getObject" /\ Asked(s2c[i].depth, s2c[i].base, K)'
        BY Zenon, <1>4, <1>13, <2>1, <2>4
    <2> QED
        BY Zenon, <2>2, <2>3, <2>4, <2>5 DEF Later
<1>14. CASE Second
    <2>1. Busy(Handler) /\ Busy(Handler)'
        BY Zenon, <1>8, <1>9, <1>14 DEF Second
    <2>2. PICK i \in DOMAIN c2s :
             /\ c2s[i].event = "patchObject" /\ Current(c2s[i])
             /\ c2s[i].depth <= 3
             /\ \A j \in DOMAIN c2s : j > i => Current(c2s[j])
        BY Zenon, <1>14 DEF Second
    <2>3. CASE i # 1
        <3>1. i - 1 \in DOMAIN c2s' /\ c2s'[i - 1] = c2s[i]
            BY Zenon, <1>2, <2>3
        <3>2. ASSUME NEW j \in DOMAIN c2s', j > i - 1
              PROVE  Current(c2s'[j])
            <4>1. j + 1 \in DOMAIN c2s /\ j + 1 > i /\ c2s'[j] = c2s[j + 1]
                BY <1>2, <3>2
            <4> QED
                BY Zenon, <2>2, <4>1
        <3>3. \E k \in DOMAIN c2s' :
                 /\ c2s'[k].event = "patchObject" /\ Current(c2s[k])'
                 /\ c2s'[k].depth <= 3
                 /\ \A j \in DOMAIN c2s' : j > k => Current(c2s[j])'
            BY Zenon, <1>8, <2>2, <3>1, <3>2
        <3> QED
            BY Zenon, <2>1, <3>3 DEF Second
    <2>4. CASE i = 1
        <3>1. ~TooDeep(m)
            BY <1>3, <1>11, <2>2, <2>4 DEF TooDeep
        <3>2. server' = server /\ s2c' = Append(s2c, a)
            BY Zenon, <1>10, <2>2, <2>4, <3>1
        <3>3. server # NoObject
            BY <1>2, <2>2, <2>4 DEF PutsFirst, PutBefore, Awaited
        <3>4. \A j \in DOMAIN c2s : j # 1 => Current(c2s[j])
            BY <1>2, <2>2, <2>4
        <3>5. Overtaking <= K /\ Setback(server) = 2 * Overtaking
              /\ server \in versions /\ Overtaking \in Nat
            <4>1. revision \in Nat /\ RV(server) \in 1..(revision - 1)
                  /\ server \in versions
                BY Zenon, <3>3, AwaitedFacts
            <4>2. revision <= MaxRevision /\ MaxRevision \in Nat
                BY SyncAssumption DEF Inv, Counters
            <4>3. /\ Overtaking \in Nat /\ Overtaking <= Len(former)
                  /\ Overtaking <= (revision - 1) - RV(server)
                  /\ Setback(server) = 2 * Overtaking
                BY Zenon, <3>3, SetbackFacts
            <4>4. Len(former) \in Nat
                BY Zenon, LenProperties DEF Inv, Typed
            <4>5. CASE Len(former) <= K
                BY <4>1, <4>3, <4>4, <4>5
            <4>6. CASE MaxRevision <= K + 2
                BY <4>1, <4>2, <4>3, <4>6
            <4> QED
                BY Zenon, <4>1, <4>3, <4>5, <4>6 DEF AtMost
        <3>6. Asked(a.depth, a.base, K)
            BY <1>3, <1>4, <2>2, <2>4, <3>5 DEF Asked
        <3> QED
            BY Zenon, <1>13, <2>1, <3>2, <3>3, <3>4, <3>6
    <2> QED
        BY Zenon, <2>3, <2>4
<1>15. CASE Later(K)
    <2>1. /\ Busy(Handler) /\ server # NoObject
          /\ \A j \in DOMAIN c2s : Current(c2s[j])
        BY Zenon, <1>15 DEF Later
    <2>2. server' = server
        BY <1>2, <1>10, <2>1
    <2>3. /\ \A d, b : Asked(d, b, K)' = Asked(d, b, K)
          /\ \A q : Rebased(q, K)' = Rebased(q, K)
        BY Zenon, <1>1, <2>2, SameMeasures
    <2>4. Busy(Handler)' /\ server' # NoObject
        BY Zenon, <1>8, <1>9, <2>1, <2>2
    <2>5. \A j \in DOMAIN c2s' : Current(c2s[j])'
        <3> SUFFICES ASSUME NEW j \in DOMAIN c2s' PROVE Current(c2s'[j])
            BY <1>8
        <3>1. j + 1 \in DOMAIN c2s /\ c2s'[j] = c2s[j + 1]
            BY <1>2
        <3> QED
            BY Zenon, <2>1, <3>1
    <2>6. CASE \E i \in DOMAIN s2c : /\ s2c[i].event = "getObject"
                                     /\ Asked(s2c[i].depth, s2c[i].base, K)
        <3>1. \E i \in DOMAIN s2c' :
                 s2c'[i].event = "getObject" /\ Asked(s2c[i].depth, s2c[i].base, K)'
            BY Zenon, <1>6, <2>3, <2>6
        <3> QED
            BY Zenon, <2>4, <2>5, <3>1 DEF Later
    <2>7. CASE Handler.at = "read" /\ Asked(Handler.depth, Handler.base, K)
        BY Zenon, <1>9, <2>3, <2>4, <2>5, <2>7 DEF Later
    <2>8. CASE Handler.at = "invoke" /\ Rebased(Handler.msg, K)
        BY Zenon, <1>9, <2>3, <2>4, <2>5, <2>8 DEF Later
    <2>9. CASE \E i \in DOMAIN c2s : Rebased(c2s[i], K)
        <3>1. PICK i \in DOMAIN c2s : Rebased(c2s[i], K)
            BY <2>9
        <3>2. CASE i # 1
            <4>1. \E k \in DOMAIN c2s' : Rebased(c2s[k], K)'
                BY Zenon, <1>2, <2>3, <3>1, <3>2
            <4> QED
                BY Zenon, <2>4, <2>5, <4>1 DEF Later
        <3>3. CASE i = 1
            <4>1. PICK b \in versions : /\ m.patch = CreateMergePatch(b, cluster)
                                        /\ m.depth + Setback(b) <= 2 * K + 5
                BY Zenon, <3>1, <3>3 DEF Rebased
            <4>2. m.event = "patchObject" /\ m.checksum = cluster
                BY Zenon, <3>1, <3>3 DEF Rebased, Current, Content
            <4>3. /\ Overtaking \in Nat /\ Setback(b) \in Nat
                  /\ Setback(server) = 2 * Overtaking
                  /\ server # b => Setback(b) = 2 * Overtaking + 2
                BY Zenon, <2>1, SetbackFacts
            <4>4. ~TooDeep(m)
                BY <1>3, <1>11, <4>1, <4>3 DEF TooDeep
            <4>5. ~Applies(m) /\ s2c' = Append(s2c, a)
                <5>1. Current(m)
                    BY Zenon, <3>1, <3>3 DEF Rebased
                <5> QED
                    BY Zenon, <1>10, <4>2, <4>4, <5>1
            <4>6. cluster \in Object /\ server \in Object /\ server \in versions
                BY Zenon, <2>1, AwaitedFacts
            <4>7. server # b
                BY <2>1, <4>1, <4>2, <4>5, <4>6, PatchRoundTrip DEF Applies
            <4>8. Asked(a.depth, a.base, K)
                <5>1. \A d, v, k \in Nat : d + (2 * v + 2) <= 2 * k + 5
                                             => (d + 1) + 2 * v <= 2 * k + 4
                    OBVIOUS
                <5>2. m.depth + (2 * Overtaking + 2) <= 2 * K + 5
                    BY Zenon, <4>1, <4>3, <4>7
                <5>3. (m.depth + 1) + 2 * Overtaking <= 2 * K + 4
                    BY Zenon, <1>3, <4>3, <5>1, <5>2
                <5> QED
                    BY Zenon, <1>4, <4>3, <4>6, <5>3 DEF Asked
            <4> QED
                BY Zenon, <1>13, <2>1, <2>2, <4>5, <4>8
        <3> QED
            BY <3>2, <3>3
    <2> QED
        BY Zenon, <1>15, <2>6, <2>7, <2>8, <2>9 DEF Later
<1> QED
    BY Zenon, <1>12, <1>14, <1>15

(* The handler has sent its message.                                       *)
LEMMA WaySettle ==
    ASSUME NEW K, Inv, First \/ Second \/ Later(K), Settle("handler")
    PROVE  (First \/ Second \/ Later(K))'
<1>1. /\ Handler.at = "settle"
      /\ UNCHANGED <<cluster, versions, revision, server, former, c2s, s2c>>
    BY Zenon DEF Settle, Handler, clusterVars, backendVars
<1>2. Handler' = Idle
    BY Zenon DEF Settle, Goto, Handler, Inv, Typed, Goroutine
<1>3. Busy(Idle)
    BY Zenon DEF Busy, Idle
<1>4. Handler.at \notin {"read", "invoke"} /\ (Busy(Handler) => Busy(Handler'))
    BY Zenon, <1>1, <1>2, <1>3
<1> QED
    BY Zenon, <1>1, <1>4, WayFrame

(* A batch is added to what the server has sent.                           *)
LEMMA WaySend ==
    ASSUME NEW K, Inv, First \/ Second \/ Later(K), ReconcileSend
    PROVE  (First \/ Second \/ Later(K))'
<1>1. /\ s2c' = Append(s2c, Batch(recon.item)) /\ s2c \in Seq(ToClient(versions))
      /\ UNCHANGED <<cluster, versions, revision, server, former, c2s, routine>>
    BY Zenon DEF ReconcileSend, clusterVars, clientVars, Inv, Typed
<1>2. Batch(recon.item) \in ToClient(versions)
    BY AbsentAssumption DEF ReconcileSend, Batch, ToClient, Inv, Counters, Maybe
<1>3. \A i \in DOMAIN s2c : i \in DOMAIN s2c' /\ s2c'[i] = s2c[i]
    BY <1>1, <1>2, AfterAppend
<1>4. Handler' = Handler
    BY Zenon, <1>1 DEF Handler
<1>5. /\ \A m : Current(m)' = Current(m)
      /\ \A r : Busy(r)' = Busy(r)
      /\ \A d, b : Asked(d, b, K)' = Asked(d, b, K)
      /\ \A m : Rebased(m, K)' = Rebased(m, K)
    BY Zenon, <1>1, SameMeasures
<1>6. CASE First
    BY Zenon, <1>1, <1>3, <1>4, <1>5, <1>6 DEF First
<1>7. CASE Second
    BY Zenon, <1>1, <1>4, <1>5, <1>7 DEF Second
<1>8. CASE Later(K)
    <2>1. /\ Busy(Handler)' /\ server' # NoObject
          /\ \A j \in DOMAIN c2s' : Current(c2s[j])'
        BY Zenon, <1>1, <1>4, <1>5, <1>8 DEF Later
    <2>2. CASE \E i \in DOMAIN s2c : /\ s2c[i].event = "getObject"
                                     /\ Asked(s2c[i].depth, s2c[i].base, K)
        <3>1. \E i \in DOMAIN s2c' :
                 s2c'[i].event = "getObject" /\ Asked(s2c[i].depth, s2c[i].base, K)'
            BY Zenon, <1>3, <1>5, <2>2
        <3> QED
            BY Zenon, <2>1, <3>1 DEF Later
    <2>3. CASE Handler.at = "read" /\ Asked(Handler.depth, Handler.base, K)
        BY Zenon, <1>4, <1>5, <2>1, <2>3 DEF Later
    <2>4. CASE Handler.at = "invoke" /\ Rebased(Handler.msg, K)
        BY <1>4, <1>5, <2>1, <2>4 DEF Later
    <2>5. CASE \E i \in DOMAIN c2s : Rebased(c2s[i], K)
        BY Zenon, <1>1, <1>5, <2>1, <2>5 DEF Later
    <2> QED
        BY Zenon, <1>8, <2>2, <2>3, <2>4, <2>5 DEF Later
<1> QED
    BY <1>6, <1>7, <1>8

(* Messages of the lost connection are taken or dropped: what they change  *)
(* was counted.                                                            *)
LEMMA WayFormer ==
    ASSUME NEW K \in Nat, Inv, Numbered, NothingRemoves, Awaited, Awaited',
           First \/ Second \/ Later(K), ServerStep("former") \/ FormerLost
    PROVE  (First \/ Second \/ Later(K))'
<1>1. /\ UNCHANGED <<cluster, versions, revision, c2s, s2c, routine>>
      /\ Len(former) \in Nat /\ Len(former') \in Nat
      /\ Len(former') <= Len(former) - 1
    <2>1. CASE ServerStep("former")
        <3>1. /\ former # <<>> /\ former \in Seq(ToServer(versions))
              /\ former' = Tail(former) /\ c2s' = c2s
              /\ UNCHANGED <<cluster, versions, revision, routine>>
            BY Zenon, <2>1, ServerTakes DEF Incoming, Channel, clusterVars, clientVars
        <3>2. s2c' = s2c
            BY Zenon, <2>1, ServerAnswers DEF Channel
        <3>3. Len(former) \in Nat /\ Len(former) >= 1
              /\ Len(Tail(former)) = Len(former) - 1
            BY Zenon, <3>1, AfterTail
        <3> QED
            BY <3>1, <3>2, <3>3
    <2>2. CASE FormerLost
        <3>1. Len(former) \in Nat /\ Len(former) >= 1
            BY Zenon, <2>2, AfterTail DEF FormerLost, Inv, Typed
        <3>2. former' = <<>> /\ Len(<<>>) = 0
              /\ UNCHANGED <<cluster, versions, revision, c2s, s2c, routine>>
            BY <2>2, EmptySeq DEF FormerLost, clusterVars, clientVars
        <3> QED
            BY <3>1, <3>2
    <2> QED
        BY Zenon, <2>1, <2>2
<1>2. /\ \A m : Current(m)' = Current(m)
      /\ \A r : Busy(r)' = Busy(r)
      /\ Handler' = Handler
    BY Zenon, <1>1 DEF Current, Busy, Handler
<1>3. CASE First
    BY Zenon, <1>1, <1>2, <1>3 DEF First
<1>4. CASE Second
    BY <1>1, <1>2, <1>4 DEF Second
<1>5. CASE Later(K)
    <2>1. /\ Busy(Handler)' /\ server # NoObject
          /\ \A j \in DOMAIN c2s' : Current(c2s[j])'
        BY Zenon, <1>1, <1>2, <1>5 DEF Later
    <2>2. [Next]_vars
        BY Zenon DEF Next, Channel
    <2>3. server' # NoObject
        BY Zenon, <2>1, <2>2, ServerKept DEF Awaited
    <2>4. \A b : Setback(b) \in Nat /\ Setback(b)' \in Nat
                 /\ Setback(b)' <= Setback(b)
        <3> SUFFICES ASSUME NEW b
                     PROVE  Setback(b) \in Nat /\ Setback(b)' \in Nat
                            /\ Setback(b)' <= Setback(b)
            OBVIOUS
        <3> DEFINE gap == (revision - 1) - RV(server)
        <3>1. /\ revision \in Nat /\ RV(server) \in 1..(revision - 1)
              /\ RV(server)' \in 1..(revision - 1)
            <4>1. /\ revision \in Nat /\ RV(server) \in 1..(revision - 1)
                  /\ server \in versions
                  /\ cluster \in versions /\ RV(cluster) = revision
                BY Zenon, <2>1, AwaitedFacts
            <4>2. server' \in versions /\ server' # cluster
                BY Zenon, <1>1, <2>2, <4>1, ServerMovesOn DEF Awaited
            <4>3. RV(server') \in 1..revision /\ RV(server') # revision
                BY Zenon, <4>1, <4>2 DEF Numbered
            <4> QED
                BY <4>1, <4>3 DEF RV
        <3>2. CASE server' = server
            BY <1>1, <3>1, <3>2 DEF Setback, Overtaking, RV
        <3>3. CASE server' # server
            <4>1. RV(server)' > RV(server)
                BY Zenon, <2>1, <2>2, <3>3, ServerMovesOn DEF Awaited, RV
            <4>2. Overtaking \in Nat /\ Overtaking' \in Nat
                  /\ Overtaking' <= Overtaking - 1
                BY <1>1, <3>1, <4>1 DEF Overtaking
            <4>3. Setback(b) = 2 * Overtaking \/ Setback(b) = 2 * (Overtaking + 1)
                BY <4>2 DEF Setback
            <4>4. \/ Setback(b)' = 2 * Overtaking'
                  \/ Setback(b)' = 2 * (Overtaking' + 1)
                BY <4>2 DEF Setback
            <4> QED
                BY <4>2, <4>3, <4>4
        <3> QED
            BY Zenon, <3>2, <3>3
    <2>5. \A d \in Nat : \A b : Asked(d, b, K) => Asked(d, b, K)'
        BY <1>1, <2>4 DEF Asked
    <2>6. \A m : m.depth \in Nat /\ Rebased(m, K) => Rebased(m, K)'
        <3> SUFFICES ASSUME NEW m, m.depth \in Nat, Rebased(m, K)
                     PROVE  Rebased(m, K)'
            OBVIOUS
        <3>1. PICK b \in versions : /\ m.patch = CreateMergePatch(b, cluster)
                                    /\ m.depth + Setback(b) <= 2 * K + 5
            BY Zenon DEF Rebased
        <3>2. m.depth + Setback(b)' <= 2 * K + 5
            BY <2>4, <3>1
        <3> QED
            BY Zenon, <1>1, <1>2, <3>1, <3>2 DEF Rebased
    <2>7. CASE \E i \in DOMAIN s2c : /\ s2c[i].event = "getObject"
                                     /\ Asked(s2c[i].depth, s2c[i].base, K)
        <3>1. PICK i \in DOMAIN s2c : /\ s2c[i].event = "getObject"
                                      /\ Asked(s2c[i].depth, s2c[i].base, K)
            BY Zenon, <2>7
        <3>2. s2c[i].depth \in Nat
            BY <3>1, ReplyAt DEF Inv, Typed
        <3>3. Asked(s2c[i].depth, s2c[i].base, K)'
            BY <1>1, <2>5, <3>1, <3>2
        <3> QED
            BY Zenon, <1>1, <2>1, <2>3, <3>1, <3>3 DEF Later
    <2>8. CASE Handler.at = "read" /\ Asked(Handler.depth, Handler.base, K)
        <3>1. Handler.depth \in Nat
            BY Zenon, <2>8, RoutineAt DEF Handler, Goroutine
        <3>2. Asked(Handler.depth, Handler.base, K)'
            BY Zenon, <1>2, <2>5, <2>8, <3>1
        <3> QED
            BY Zenon, <1>2, <2>1, <2>3, <2>8, <3>2 DEF Later
    <2>9. CASE Handler.at = "invoke" /\ Rebased(Handler.msg, K)
        <3>1. Handler.msg.depth \in Nat
            BY Zenon, <2>9, RoutineAt, MessageAt DEF Handler, Goroutine
        <3>2. Rebased(Handler.msg, K)'
            BY Zenon, <1>2, <2>6, <2>9, <3>1
        <3> QED
            BY Zenon, <1>2, <2>1, <2>3, <2>9, <3>2 DEF Later
    <2>10. CASE \E i \in DOMAIN c2s : Rebased(c2s[i], K)
        <3>1. PICK i \in DOMAIN c2s : Rebased(c2s[i], K)
            BY Zenon, <2>10
        <3>2. c2s[i].depth \in Nat
            <4>1. c2s[i] \in ToServer(versions)
                BY <3>1 DEF Inv, Typed
            <4> QED
                BY Zenon, <4>1, MessageAt
        <3>3. Rebased(c2s[i], K)'
            BY Zenon, <1>1, <2>6, <3>1, <3>2
        <3> QED
            BY Zenon, <1>1, <2>1, <2>3, <3>1, <3>3 DEF Later
    <2> QED
        BY Zenon, <1>5, <2>7, <2>8, <2>9, <2>10 DEF Later
<1> QED
    BY Zenon, <1>3, <1>4, <1>5

(* The newest version stays on its way until it has arrived.               *)
LEMMA WayNext ==
    ASSUME NEW K \in Nat, 2 * K + 5 <= maxMessageDepth, AtMost(K),
           ArrivalInv(K), [Next]_vars
    PROVE  OnItsWay(K)'
<1> SUFFICES ASSUME Awaited' PROVE (WithWatcher \/ First \/ Second \/ Later(K))'
    BY Zenon DEF OnItsWay
<1> USE DEF ArrivalInv
<1>1. CASE Create \/ Modify
    BY Zenon, <1>1, WritePends DEF WithWatcher
<1>2. CASE ClientRestart
    <2>1. cluster \in versions /\ cluster # NoObject
        <3>1. deletes = 0 /\ revision # 0
            BY Zenon, <1>2 DEF ClientRestart, clusterVars, Awaited
        <3>2. cluster \in versions
            BY <3>1 DEF Numbered
        <3> QED
            BY Zenon, <3>2, AbsentAssumption DEF Inv
    <2>2. CASE Reread
        <3>1. routine'["watcher"] = [at |-> "event",
                                     event |-> [type |-> "Added", object |-> cluster]]
            BY Zenon, <1>2, <2>1, <2>2 DEF ClientRestart, Goroutine
        <3>2. routine'["watcher"].at = "event"
            BY <3>1
        <3> QED
            BY Zenon, <3>2 DEF WithWatcher
    <2>3. CASE ~Reread
        <3>1. pending' = [type |-> "Added", object |-> cluster]
            BY Zenon, <1>2, <2>1, <2>3 DEF ClientRestart
        <3>2. [type |-> "Added", object |-> cluster] \in Event(Object)
            BY Zenon, <2>1 DEF Event, Inv
        <3> QED
            BY Zenon, <3>1, <3>2, AbsentAssumption DEF WithWatcher
    <2> QED
        BY <2>2, <2>3
<1>3. CASE ~Create /\ ~Modify /\ ~ClientRestart
    <2>1. Awaited /\ UNCHANGED clusterVars
        BY Zenon, <1>3, StillAwaited
    <2>2. WithWatcher \/ First \/ Second \/ Later(K)
        BY Zenon, <2>1 DEF OnItsWay
    <2>3. CASE WatcherStep \/ RoutineStep("watcher")
        BY Zenon, <2>1, <2>2, <2>3, WayWatcher
    <2>4. ASSUME UNCHANGED pending, routine'["watcher"] = routine["watcher"],
                 First \/ Second \/ Later(K) => (First \/ Second \/ Later(K))'
          PROVE  (WithWatcher \/ First \/ Second \/ Later(K))'
        BY Zenon, <2>2, <2>4 DEF WithWatcher
    <2>5. CASE HandlerStep
        <3>1. UNCHANGED pending /\ routine'["watcher"] = routine["watcher"]
            BY Zenon, <2>5, HandlerSteps
        <3>2. First \/ Second \/ Later(K) => (First \/ Second \/ Later(K))'
            BY Zenon, <2>1, <2>5, WayReceive, WayReconcile DEF HandlerStep
        <3> QED
            BY Zenon, <2>4, <3>1, <3>2
    <2>6. CASE RoutineStep("handler")
        <3>1. UNCHANGED pending /\ routine'["watcher"] = routine["watcher"]
            BY Zenon, <2>6, HandlerSteps
        <3>2. First \/ Second \/ Later(K) => (First \/ Second \/ Later(K))'
            BY Zenon, <2>1, <2>6, WayCall, WayInvoke, WaySettle DEF RoutineStep
        <3> QED
            BY <2>4, <3>1, <3>2
    <2>7. CASE ServerStep("live")
        <3>1. UNCHANGED <<pending, routine>>
            BY Zenon, <2>7, ServerTakes DEF Channel, clientVars
        <3>2. First \/ Second \/ Later(K) => (First \/ Second \/ Later(K))'
            BY Zenon, <2>1, <2>7, WayServer
        <3> QED
            BY Zenon, <2>4, <3>1, <3>2
    <2>8. CASE ServerStep("former") \/ FormerLost
        <3>1. UNCHANGED <<pending, routine>>
            BY Zenon, <2>8, ServerTakes DEF Channel, clientVars, FormerLost
        <3>2. First \/ Second \/ Later(K) => (First \/ Second \/ Later(K))'
            BY Zenon, <2>1, <2>8, WayFormer
        <3> QED
            BY <2>4, <3>1, <3>2
    <2>9. CASE ReconcileSend
        <3>1. UNCHANGED <<pending, routine>>
            BY Zenon, <2>9 DEF ReconcileSend, clientVars
        <3>2. First \/ Second \/ Later(K) => (First \/ Second \/ Later(K))'
            BY Zenon, <2>9, WaySend
        <3> QED
            BY <2>4, <3>1, <3>2
    <2>10. CASE ReconcileSnapshot \/ UNCHANGED vars
        <3>1. UNCHANGED <<pending, routine, cluster, versions, revision, server,
                          former, c2s, s2c>>
            BY Zenon, <2>10 DEF ReconcileSnapshot, vars, clusterVars, clientVars,
                         backendVars
        <3>2. Handler' = Handler
            BY Zenon, <3>1 DEF Handler
        <3>3. First \/ Second \/ Later(K) => (First \/ Second \/ Later(K))'
            BY Zenon, <3>1, <3>2, WayFrame
        <3> QED
            BY Zenon, <2>4, <3>1, <3>3
    <2>11. CASE Delete \/ DeletedUnseen
        BY Zenon, <2>11, DeletionCounted DEF Awaited
    <2>12. CASE ConnectionLost
        BY <2>12 DEF ConnectionLost, Fault, Awaited
    <2> QED
        BY <1>3, <2>3, <2>5, <2>6, <2>7, <2>8, <2>9, <2>10, <2>11, <2>12
           DEF Next, Goroutine, Channel, ReconcileStep, FaultStep
<1> QED
    BY Zenon, <1>1, <1>2, <1>3

-----------------------------------------------------------------------------
(* The invariant holds at the start, is kept, and gives ChangesArrive.     *)

(* Nothing is written, sent or stored at the start.                        *)
LEMMA ArrivalInit ==
    ASSUME NEW K \in Nat, Init
    PROVE  ArrivalInv(K)
<1>1. Inv
    BY Zenon, InvInit
<1>2. \A g \in Goroutine : routine[g] = Idle
    BY Zenon DEF Init
<1>3. c2s = <<>> /\ s2c = <<>> /\ former = <<>> /\ shadow = NoObject
      /\ revision = 0 /\ versions = {} /\ pending = NoObject
      /\ recon = NoObject
    BY Zenon DEF Init
<1>4. Idle.at = "idle" /\ DOMAIN <<>> = {}
    BY DEF Idle
<1>5. Numbered
    BY Zenon, <1>3 DEF Numbered
<1>6. NothingRemoves
    BY Zenon, <1>2, <1>3, <1>4 DEF NothingRemoves, Harmless
<1>7. WatchesNewest
    BY Zenon, <1>2, <1>3, <1>4 DEF WatchesNewest, Busy, Goroutine
<1>8. BasesKnown
    BY Zenon, <1>2, <1>3, <1>4 DEF BasesKnown
<1>9. PutsFirst
    BY Zenon, <1>2, <1>3, <1>4 DEF PutsFirst, Orderly
<1>10. OnItsWay(K)
    BY Zenon, <1>3 DEF OnItsWay, Awaited
<1> QED
    BY <1>1, <1>5, <1>6, <1>7, <1>8, <1>9, <1>10 DEF ArrivalInv

(* Every step keeps it.                                                    *)
LEMMA ArrivalNext ==
    ASSUME NEW K \in Nat, 2 * K + 5 <= maxMessageDepth, AtMost(K),
           ArrivalInv(K), [Next]_vars
    PROVE  ArrivalInv(K)'
<1>1. OnItsWay(K)'
    BY Zenon, WayNext
<1>2. 4 <= maxMessageDepth
    BY SyncAssumption
<1>3. Inv /\ Numbered /\ NothingRemoves /\ WatchesNewest /\ BasesKnown /\ PutsFirst
    BY Zenon DEF ArrivalInv
<1>4. Inv' /\ Numbered' /\ NothingRemoves' /\ WatchesNewest'
    BY Zenon, <1>3, InvNext, NumberedNext, RemovesNext, NewestNext
<1>5. BasesKnown' /\ PutsFirst'
    BY Zenon, <1>2, <1>3, BasesNext, PutsNext
<1> QED
    BY Zenon, <1>1, <1>4, <1>5 DEF ArrivalInv

(* At rest the newest version is nowhere on its way, so it has arrived.    *)
LEMMA ArrivedAtRest ==
    ASSUME NEW K \in Nat, ArrivalInv(K)
    PROVE  ChangesArrive
<1> SUFFICES ASSUME Quiet, clean, deletes = 0, NoContentRepeats,
                    server # cluster
             PROVE  FALSE
    BY Zenon DEF ChangesArrive
<1>1. /\ pending = NoObject /\ c2s = <<>> /\ s2c = <<>>
      /\ routine["watcher"] = Idle /\ Handler = Idle
    BY Zenon DEF Quiet, Handler, Goroutine
<1>2. Idle.at = "idle" /\ DOMAIN <<>> = {}
    BY DEF Idle
<1>3. ~WithWatcher /\ ~First /\ ~Second /\ ~Later(K)
    BY Zenon, <1>1, <1>2 DEF WithWatcher, First, Second, Later
<1>4. revision = 0
    BY Zenon, <1>3 DEF ArrivalInv, OnItsWay, Awaited
<1>5. versions = {}
    BY <1>4 DEF ArrivalInv, Numbered
<1> QED
    BY Zenon, <1>5 DEF ArrivalInv, Inv, Typed, Maybe

(* Where at most K versions can overtake the newest one, and the depth of  *)
(* a message allows for the two messages each of them costs, everything    *)
(* that was written reaches the backend.                                   *)
THEOREM ArriveWhenFewOvertake ==
    ASSUME NEW K \in Nat, 2 * K + 5 <= maxMessageDepth
    PROVE  Spec /\ []AtMost(K) => []ChangesArrive
<1>1. Init => ArrivalInv(K)
    BY Zenon, ArrivalInit
<1>2. AtMost(K) /\ ArrivalInv(K) /\ [Next]_vars => ArrivalInv(K)'
    BY Zenon, ArrivalNext
<1>3. ArrivalInv(K) => ChangesArrive
    BY Zenon, ArrivedAtRest
<1> QED
    BY <1>1, <1>2, <1>3, PTL DEF Spec

(* Without faults there is no lost connection.                             *)
LEMMA NothingLost ==
    ASSUME MaxFaults = 0
    PROVE  Spec => [](former = <<>>)
<1> DEFINE None == former = <<>>
<1>1. Init => None
    BY Zenon DEF Init
<1>2. Inv /\ None /\ [Next]_vars => None'
    <2> SUFFICES ASSUME Inv, former = <<>>, [Next]_vars PROVE former' = <<>>
        OBVIOUS
    <2>1. faults \in Nat
        BY DEF Inv, Counters
    <2>2. ~FaultStep
        <3>1. ~(faults < MaxFaults)
            BY <2>1
        <3> QED
            BY Zenon, <3>1
            DEF FaultStep, ConnectionLost, ClientRestart, DeletedUnseen, Fault
    <2>3. \A ch \in Channel : ServerStep(ch) => former' = former
        BY ServerTakes DEF Incoming, Channel
    <2> QED
        BY Zenon, <2>2, <2>3
        DEF Next, Create, Modify, Write, Enqueue, Delete, WatcherStep, TakeEvent,
            Added, Deleted, Modified, Handling, HandlerStep, ClientGetObject,
            ClientBatch, ClientReceive, ReconcileMissing, ReconcileExtra,
            ReconcileCommon, InBatch, RoutineStep, CallPutOrPatch, Invoke,
            Settle, ReconcileStep, ReconcileSnapshot, ReconcileSend,
            FormerLost, vars
<1>3. Spec => []None
    <2> HIDE DEF None
    <2> QED
        BY <1>1, <1>2, Genuine, PTL DEF Spec
<1> QED
    BY Zenon, <1>3

(* However often the object changes and whichever messages cross, a        *)
(* connection that holds brings every change to the backend: the depth     *)
(* that callPutOrPatch and getObject need is 5.                            *)
THEOREM ArriveOnOneConnection ==
    ASSUME MaxFaults = 0, 5 <= maxMessageDepth
    PROVE  Spec => []ChangesArrive
<1>1. Spec => [](former = <<>>)
    BY Zenon, NothingLost
<1>2. former = <<>> => AtMost(0)
    BY EmptySeq DEF AtMost
<1>3. 0 \in Nat /\ 2 * 0 + 5 <= maxMessageDepth
    OBVIOUS
<1>4. Init => ArrivalInv(0)
    BY Zenon, <1>3, ArrivalInit
<1>5. AtMost(0) /\ ArrivalInv(0) /\ [Next]_vars => ArrivalInv(0)'
    BY Zenon, <1>3, ArrivalNext
<1>6. ArrivalInv(0) => ChangesArrive
    BY <1>3, ArrivedAtRest
<1> QED
    BY <1>1, <1>2, <1>4, <1>5, <1>6, PTL DEF Spec

(* With any number of lost connections and restarts, the depth that is     *)
(* needed grows with the number of versions that can overtake the newest.  *)
THEOREM ArriveAfterRestarts ==
    ASSUME 5 <= maxMessageDepth, 2 * MaxRevision + 1 <= maxMessageDepth
    PROVE  Spec => []ChangesArrive
<1> DEFINE K == IF MaxRevision <= 2 THEN 0 ELSE MaxRevision - 2
<1>1. K \in Nat /\ 2 * K + 5 <= maxMessageDepth /\ MaxRevision <= K + 2
    BY SyncAssumption
<1>2. AtMost(K)
    BY Zenon, <1>1 DEF AtMost
<1> HIDE DEF K
<1>3. Init => ArrivalInv(K)
    BY Zenon, <1>1, ArrivalInit
<1>4. ArrivalInv(K) /\ [Next]_vars => ArrivalInv(K)'
    BY Zenon, <1>1, <1>2, ArrivalNext
<1>5. ArrivalInv(K) => ChangesArrive
    BY <1>1, ArrivedAtRest
<1> QED
    BY <1>3, <1>4, <1>5, PTL DEF Spec
=============================================================================
