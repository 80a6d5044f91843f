---------------------------- MODULE WatchQueue ----------------------------
(***************************************************************************)
(* How a change in the cluster reaches the in-cluster client of one        *)
(* resource: existing objects are listed or come first in the watch, the   *)
(* watch is resumed from the resource version of the last event when it    *)
(* closes, and events wait in the cooldown queue, where a later event of   *)
(* an object replaces an earlier one, until the client handles them        *)
(* (Start and watchRetry in adapters/incluster/v1/client.go,               *)
(* utils/cooldownqueue.go).                                                *)
(*                                                                         *)
(* The API server is modelled by its log of changes; the revision of a     *)
(* change is its place in the log.  An event stands for its revision.      *)
(* Objects that isFiltered skips are not among the keys.                   *)
(***************************************************************************)
EXTENDS Naturals, Sequences

CONSTANTS
    Key,               \* objects of the resource
    MaxRevision,       \* changes in the cluster
    MaxFaults          \* watches that end and lists that fail

ASSUME BoundAssumption == MaxRevision \in Nat /\ MaxFaults \in Nat

VARIABLES
    storage,           \* is the resource one of kubescapeCustomResourceGroup
    log,               \* API server: the changes so far
    compacted,         \* API server: changes up to here cannot be replayed
    phase,             \* of the client: "list", "listing", "retry", "watch", "over"
    rv,                \* watchOpts.ResourceVersion; 0 stands for ""
    snapshot,          \* revision of the list, or of the beginning of the watch
    existing,          \* objects of the snapshot that are still to come
    cursor,            \* last revision the watch has delivered
    seenEvents,        \* CooldownQueue: Key -> the event that cools down, or 0
    innerChan,         \* CooldownQueue: Key -> its event being handed over, or 0
    told,              \* Key -> the event the client handled last
    received,          \* Key -> the last event of the list or of the watch
    restarted,         \* the list or the watch has begun anew
    blind,             \* a watch of the storage began after the first change
    interrupted,       \* a watch ended before it delivered an existing object
                       \* that is not newer than the version it resumes from
    faults

apiVars == <<log, compacted>>
watchVars == <<storage, phase, rv, snapshot, existing, cursor, restarted, blind,
               interrupted>>
queueVars == <<seenEvents, innerChan>>
vars == <<apiVars, watchVars, queueVars, told, received, faults>>

Last(changes) ==
    IF changes = {} THEN 0
    ELSE CHOOSE r \in changes : \A s \in changes : s <= r

(* The revision of an object as of revision n; 0 when it never existed.    *)
Revision(k, n) == Last({r \in 1..n : log[r].key = k})

Exists(k, n) ==
    Revision(k, n) > 0 /\ log[Revision(k, n)].type # "Deleted"

Init ==
    /\ storage \in BOOLEAN
    /\ log = <<>> /\ compacted = 0
    /\ phase = IF storage THEN "list" ELSE "retry"
    /\ rv = 0 /\ snapshot = 0 /\ existing = {} /\ cursor = 0
    /\ seenEvents = [k \in Key |-> 0] /\ innerChan = [k \in Key |-> 0]
    /\ told = [k \in Key |-> 0] /\ received = [k \in Key |-> 0]
    /\ restarted = FALSE /\ blind = FALSE /\ interrupted = FALSE
    /\ faults = 0

-----------------------------------------------------------------------------
(* The API server.                                                         *)

Change(k, type) ==
    /\ Len(log) < MaxRevision
    /\ (type = "Added") = ~ Exists(k, Len(log))
    /\ log' = Append(log, [key |-> k, type |-> type])
    /\ UNCHANGED <<compacted, watchVars, queueVars, told, received, faults>>

Compact ==
    /\ compacted < Len(log)
    /\ compacted' = Len(log)
    /\ UNCHANGED <<log, watchVars, queueVars, told, received, faults>>

-----------------------------------------------------------------------------
(* getExistingStorageObjects: every object of a list is told at once, and  *)
(* the version of the last one is where the watch will begin.              *)

List ==
    /\ phase = "list"
    /\ phase' = "listing"
    /\ snapshot' = Len(log)
    /\ existing' = {k \in Key : Exists(k, Len(log))}
    /\ UNCHANGED <<apiVars, storage, rv, cursor, restarted, blind, interrupted,
                   queueVars, told, received, faults>>

ListItem(k) ==
    /\ phase = "listing"
    /\ k \in existing
    /\ existing' = existing \ {k}
    /\ rv' = Revision(k, snapshot)
    /\ told' = [told EXCEPT ![k] = Revision(k, snapshot)]
    /\ received' = [received EXCEPT ![k] = Revision(k, snapshot)]
    /\ UNCHANGED <<apiVars, storage, phase, snapshot, cursor, restarted, blind,
                   interrupted, queueVars, faults>>

ListEnds ==
    /\ phase = "listing"
    /\ existing = {}
    /\ phase' = "retry"
    /\ UNCHANGED <<apiVars, storage, rv, snapshot, existing, cursor, restarted, blind,
                   interrupted, queueVars, told, received, faults>>

(* A page that cannot be had: from the start again, and no version.        *)
ListFails ==
    /\ phase = "listing"
    /\ faults < MaxFaults
    /\ faults' = faults + 1
    /\ phase' = "list"
    /\ rv' = 0
    /\ restarted' = TRUE
    /\ UNCHANGED <<apiVars, storage, snapshot, existing, cursor, blind, interrupted,
                   queueVars, told, received>>

-----------------------------------------------------------------------------
(* watchRetry.                                                             *)

(* A watch from "" begins with the objects that exist, in any order,       *)
(* except for the storage, which only reports changes.                     *)
WatchExisting ==
    /\ phase = "retry"
    /\ rv = 0
    /\ phase' = "watch"
    /\ snapshot' = Len(log)
    /\ cursor' = Len(log)
    /\ existing' = IF storage THEN {} ELSE {k \in Key : Exists(k, Len(log))}
    /\ blind' = (blind \/ (storage /\ Len(log) > 0))
    /\ UNCHANGED <<apiVars, storage, rv, restarted, interrupted, queueVars, told,
                   received, faults>>

WatchResume ==
    /\ phase = "retry"
    /\ rv > 0 /\ rv >= compacted
    /\ phase' = "watch"
    /\ cursor' = rv
    /\ existing' = {}
    /\ UNCHANGED <<apiVars, storage, rv, snapshot, restarted, blind, interrupted,
                   queueVars, told, received, faults>>

(* The only event of the watch is an error, and the Status it carries has  *)
(* no resource version.                                                    *)
WatchExpired ==
    /\ phase = "retry"
    /\ rv > 0 /\ rv < compacted
    /\ rv' = 0
    /\ restarted' = TRUE
    /\ UNCHANGED <<apiVars, storage, phase, snapshot, existing, cursor,
                   blind, interrupted, queueVars, told, received, faults>>

(* The resource is not known to the API server: no watch, and no exit.     *)
WatchNotFound ==
    /\ phase = "retry"
    /\ log = <<>>
    /\ phase' = "over"
    /\ UNCHANGED <<apiVars, storage, rv, snapshot, existing, cursor, restarted, blind,
                   interrupted, queueVars, told, received, faults>>

(* Enqueue replaces the event of the same object.                          *)
Enqueue(k, r) ==
    /\ seenEvents' = [seenEvents EXCEPT ![k] = r]
    /\ received' = [received EXCEPT ![k] = r]

ReceiveExisting(k) ==
    /\ phase = "watch"
    /\ k \in existing
    /\ existing' = existing \ {k}
    /\ rv' = Revision(k, snapshot)
    /\ Enqueue(k, Revision(k, snapshot))
    /\ UNCHANGED <<apiVars, storage, phase, snapshot, cursor, restarted, blind,
                   interrupted, innerChan, told, faults>>

\* mutant: the watch is resumed after the event that comes next
ReceiveNextVersion ==
    /\ phase = "watch"
    /\ existing = {}
    /\ cursor < Len(log)
    /\ cursor' = cursor + 1
    /\ rv' = cursor + 2
    /\ Enqueue(log[cursor + 1].key, cursor + 1)
    /\ UNCHANGED <<apiVars, storage, phase, snapshot, existing, restarted, blind,
                   interrupted, innerChan, told, faults>>

Receive ==
    /\ phase = "watch"
    /\ existing = {}
    /\ cursor < Len(log)
    /\ cursor' = cursor + 1
    /\ rv' = cursor + 1
    /\ Enqueue(log[cursor + 1].key, cursor + 1)
    /\ UNCHANGED <<apiVars, storage, phase, snapshot, existing, restarted, blind,
                   interrupted, innerChan, told, faults>>

\* mutant: a watch that closes is followed by one from ""
WatchClosedFromScratch ==
    /\ phase = "watch"
    /\ faults < MaxFaults
    /\ faults' = faults + 1
    /\ phase' = "retry"
    /\ rv' = 0
    /\ UNCHANGED <<apiVars, storage, snapshot, existing, cursor, restarted, blind,
                   interrupted, queueVars, told, received>>

(* The channel of the watch is closed; the next watch begins where the     *)
(* last event was.  An object that has not come by then does not come.     *)
WatchClosed ==
    /\ phase = "watch"
    /\ faults < MaxFaults
    /\ faults' = faults + 1
    /\ phase' = "retry"
    /\ interrupted' = \/ interrupted
                      \/ \E k \in existing : Revision(k, snapshot) <= rv
    /\ UNCHANGED <<apiVars, storage, rv, snapshot, existing, cursor, restarted, blind,
                   queueVars, told, received>>

(* The watch delivers an error event.                                      *)
WatchError ==
    /\ phase = "watch"
    /\ faults < MaxFaults
    /\ faults' = faults + 1
    /\ phase' = "retry"
    /\ rv' = 0
    /\ restarted' = TRUE
    /\ UNCHANGED <<apiVars, storage, snapshot, existing, cursor, blind, interrupted,
                   queueVars, told, received>>

-----------------------------------------------------------------------------
(* The cooldown queue and its consumer.                                    *)

\* mutant: the eviction does not wait for the consumer
EvictUnblocked(k) ==
    /\ seenEvents[k] > 0
    /\ innerChan' = [j \in Key |-> IF j = k THEN seenEvents[k] ELSE 0]
    /\ seenEvents' = [seenEvents EXCEPT ![k] = 0]
    /\ UNCHANGED <<apiVars, watchVars, told, received, faults>>

(* The eviction of an event that has cooled down waits for the consumer,   *)
(* and the evictions of the others wait for it.                            *)
Evict(k) ==
    /\ seenEvents[k] > 0
    /\ \A j \in Key : innerChan[j] = 0
    /\ innerChan' = [innerChan EXCEPT ![k] = seenEvents[k]]
    /\ seenEvents' = [seenEvents EXCEPT ![k] = 0]
    /\ UNCHANGED <<apiVars, watchVars, told, received, faults>>

(* The loop of Start: the callback for the type of the event.              *)
HandleEvent(k) ==
    /\ innerChan[k] > 0
    /\ told' = [told EXCEPT ![k] = innerChan[k]]
    /\ innerChan' = [innerChan EXCEPT ![k] = 0]
    /\ UNCHANGED <<apiVars, watchVars, seenEvents, received, faults>>

-----------------------------------------------------------------------------
ListStep == List \/ (\E k \in Key : ListItem(k)) \/ ListEnds

WatchStep ==
    \/ WatchExisting \/ WatchResume \/ WatchExpired
    \/ (\E k \in Key : ReceiveExisting(k)) \/ Receive

Next ==
    \/ \E k \in Key : \E type \in {"Added", "Modified", "Deleted"} :
          Change(k, type)
    \/ Compact
    \/ ListStep \/ ListFails
    \/ WatchStep \/ WatchNotFound \/ WatchClosed \/ WatchError
    \/ \E k \in Key : Evict(k) \/ HandleEvent(k)

Spec == Init /\ [][Next]_vars

(* The goroutines run, and the callbacks return.                           *)
Fairness ==
    /\ WF_vars(ListStep) /\ WF_vars(WatchStep)
    /\ \A k \in Key : SF_vars(Evict(k)) /\ WF_vars(HandleEvent(k))

FairSpec == Spec /\ Fairness

-----------------------------------------------------------------------------
Event == [key : Key, type : {"Added", "Modified", "Deleted"}]

LogTypes == log \in Seq(Event) /\ compacted \in 0..Len(log)

WatchTypes ==
    /\ phase \in {"list", "listing", "retry", "watch", "over"}
    /\ rv \in 0..Len(log) /\ snapshot \in 0..Len(log) /\ cursor \in 0..Len(log)
    /\ existing \subseteq Key
    /\ faults \in 0..MaxFaults

FlagTypes ==
    /\ storage \in BOOLEAN /\ restarted \in BOOLEAN
    /\ blind \in BOOLEAN /\ interrupted \in BOOLEAN

QueueTypes ==
    /\ seenEvents \in [Key -> 0..Len(log)] /\ innerChan \in [Key -> 0..Len(log)]
    /\ told \in [Key -> 0..Len(log)] /\ received \in [Key -> 0..Len(log)]

(* The types of the variables; no revision is ahead of the log.            *)
TypeOK == LogTypes /\ WatchTypes /\ FlagTypes /\ QueueTypes

(* The queue drops only events that a later one of the same object has     *)
(* replaced: the last event received of an object is cooling down, being   *)
(* handed over, or told, and when it is told nothing older is on its way.  *)
NothingDropped ==
    \A k \in Key :
        IF seenEvents[k] > 0 THEN seenEvents[k] = received[k]
        ELSE IF innerChan[k] > 0 THEN innerChan[k] = received[k]
        ELSE told[k] = received[k]

Latest(k) == Revision(k, Len(log))

(* The last change of every object is told in the end, and told last,      *)
(* although closed watches replay older changes.  The exceptions are: a    *)
(* resource the API server did not know, an object that a closed watch had *)
(* yet to deliver, any object when the watch of the storage began without  *)
(* a version, and a deletion when the list or the watch began anew.        *)
Missed(k) ==
    \/ phase = "over" \/ interrupted \/ blind
    \/ restarted /\ ~ Exists(k, Len(log))

Unknown(k) == told[k] = 0 /\ ~ Exists(k, Len(log))

UpToDate == \A k \in Key : told[k] = Latest(k) \/ Unknown(k) \/ Missed(k)

Settles == <>[]UpToDate

(* A watch that has delivered everything, with the queue empty.            *)
CaughtUp ==
    /\ phase = "watch" /\ existing = {} /\ cursor = Len(log)
    /\ \A k \in Key : seenEvents[k] = 0 /\ innerChan[k] = 0

(* Whenever there is nothing left to deliver or to hand over, the client   *)
(* has been told the last change of every object last: what a list or a    *)
(* watch that ended early left out is in the log after the version from    *)
(* which the next watch resumes (watchRetry), with the same exceptions.    *)
ToldAtRest == CaughtUp => UpToDate
=============================================================================
