-------------------------- MODULE WatchQueueProofs --------------------------
(***************************************************************************)
(* Proofs about the watch and its cooldown queue, for any objects and any  *)
(* number of changes and faults.                                           *)
(***************************************************************************)
EXTENDS WatchQueue, WellFoundedInduction, TLAPS

(* Time for slow machines.                                                 *)
USE SMTT(30), ZenonT(30)

(* Objects that are still to come were changed before the snapshot.        *)
ExistingKnown == \A k \in existing : Revision(k, snapshot) > 0

(* The list is read before anything is put into the queue.                 *)
ListedFirst ==
    phase \in {"list", "listing"} =>
        \A k \in Key : seenEvents[k] = 0 /\ innerChan[k] = 0

WatchInv == TypeOK /\ NothingDropped /\ ExistingKnown /\ ListedFirst

-----------------------------------------------------------------------------
(* A set of numbers between 1 and n has a greatest element, by the         *)
(* well-foundedness of <.                                                  *)
LEMMA Greatest ==
    ASSUME NEW n \in Nat, NEW S, S \subseteq 1..n, S # {}
    PROVE  \E r \in S : \A s \in S : s <= r
  <1> DEFINE T == {m \in Nat : \A s \in S : s <= m}
             R == OpToRel(<, Nat)
  <1>1. n \in T
    OBVIOUS
  <1>2. PICK m \in T : \A y \in T : ~ (<<y, m>> \in R)
    <2>1. IsWellFoundedOn(R, Nat)
      BY Zenon, NatLessThanWellFounded
    <2> HIDE DEF R
    <2> QED
      BY Zenon, <1>1, <2>1, WFMin
  <1>3. \A y \in T : ~ (y < m)
    BY Zenon, <1>2 DEF OpToRel
  <1>4. m \in S
    <2> SUFFICES ASSUME m \notin S PROVE FALSE
      OBVIOUS
    <2>1. PICK s \in S : TRUE
      BY Zenon
    <2>2. m - 1 \in Nat /\ \A t \in S : t <= m - 1
      BY <2>1
    <2>3. m - 1 \in T
      BY <2>2
    <2> QED
      BY <1>3, <2>2, <2>3
  <1> QED
    BY <1>4

(* The revision of an object is a change of that object.                   *)
LEMMA RevisionRange ==
    ASSUME log \in Seq(Event), NEW n \in 0..Len(log), NEW k \in Key
    PROVE  Revision(k, n) \in 0..n
  <1> DEFINE changes == {r \in 1..n : log[r].key = k}
  <1>1. CASE changes = {}
    BY <1>1 DEF Revision, Last
  <1>2. CASE changes # {}
    <2>1. \E r \in changes : \A s \in changes : s <= r
      <3> HIDE DEF changes
      <3>1. changes \subseteq 1..n
        BY DEF changes
      <3>2. n \in Nat
        BY DEF Event
      <3> QED
        BY Zenon, <1>2, <3>1, <3>2, Greatest
    <2>2. Revision(k, n) \in changes
      BY Zenon, <1>2, <2>1 DEF Revision, Last
    <2> QED
      BY <2>2
  <1> QED
    BY <1>1, <1>2

(* A change does not alter what an object was before it.                   *)
LEMMA RevisionKept ==
    ASSUME log \in Seq(Event), NEW e \in Event, log' = Append(log, e),
           NEW n \in 0..Len(log), NEW k \in Key
    PROVE  Revision(k, n)' = Revision(k, n)
  <1>1. \A r \in 1..n : log'[r] = log[r]
    OBVIOUS
  <1>2. {r \in 1..n : log'[r].key = k} = {r \in 1..n : log[r].key = k}
    BY <1>1
  <1> QED
    BY Zenon, <1>2 DEF Revision

-----------------------------------------------------------------------------
(* A client starts with an empty queue and knows of nothing.               *)
LEMMA InitWatch == Init => WatchInv
  <1> SUFFICES ASSUME Init PROVE WatchInv
    OBVIOUS
  <1>1. FlagTypes
    BY Zenon DEF Init, FlagTypes
  <1>2. log \in Seq(Event) /\ Len(log) = 0
    BY DEF Init
  <1>3. LogTypes /\ WatchTypes /\ QueueTypes
    BY <1>2, BoundAssumption DEF Init, LogTypes, WatchTypes, QueueTypes
  <1>4. NothingDropped /\ ExistingKnown /\ ListedFirst
    BY DEF Init, NothingDropped, ExistingKnown, ListedFirst
  <1> QED
    BY <1>1, <1>3, <1>4 DEF WatchInv, TypeOK

(* A new change leaves what is known of the earlier ones.                  *)
LEMMA ChangeStep ==
    ASSUME WatchInv, NEW k \in Key, NEW type \in {"Added", "Modified", "Deleted"},
           Change(k, type)
    PROVE  WatchInv'
  <1> USE DEF WatchInv, TypeOK
  <1> DEFINE e == [key |-> k, type |-> type]
  <1>1. log \in Seq(Event) /\ e \in Event /\ log' = Append(log, e)
    BY DEF LogTypes, Event, Change
  <1>2. log' \in Seq(Event) /\ Len(log') = Len(log) + 1 /\ Len(log) \in Nat
    BY <1>1
  <1>3. UNCHANGED <<phase, rv, snapshot, existing, cursor, faults>>
    BY DEF Change, watchVars
  <1>4. UNCHANGED <<seenEvents, innerChan, told, received, compacted>>
    BY DEF Change, queueVars
  <1>5. FlagTypes'
    BY DEF Change, watchVars, FlagTypes
  <1>6. LogTypes'
    BY <1>2, <1>4 DEF LogTypes
  <1>7. WatchTypes'
    BY <1>2, <1>3 DEF WatchTypes
  <1>8. QueueTypes'
    BY <1>2, <1>4 DEF QueueTypes
  <1>9. NothingDropped' /\ ListedFirst'
    BY <1>3, <1>4 DEF NothingDropped, ListedFirst
  <1>10. ExistingKnown'
    <2> SUFFICES ASSUME NEW j \in existing PROVE Revision(j, snapshot)' > 0
      BY <1>3 DEF ExistingKnown
    <2>1. j \in Key /\ snapshot \in 0..Len(log)
      BY DEF WatchTypes
    <2>2. Revision(j, snapshot)' = Revision(j, snapshot)
      BY <1>1, <1>3, <2>1, RevisionKept DEF Revision
    <2> QED
      BY <2>2 DEF ExistingKnown
  <1> QED
    BY <1>5, <1>6, <1>7, <1>8, <1>9, <1>10

(* A list or a watch that begins with what exists knows its revisions.     *)
LEMMA BeginStep ==
    ASSUME WatchInv, List \/ WatchExisting
    PROVE  WatchInv'
  <1> USE DEF WatchInv, TypeOK
  <1>1. UNCHANGED <<log, compacted, seenEvents, innerChan, told, received>>
    BY DEF List, WatchExisting, apiVars, queueVars
  <1>2. Len(log) \in Nat
    BY DEF LogTypes
  <1>3. LogTypes' /\ QueueTypes'
    BY <1>1 DEF LogTypes, QueueTypes
  <1>4. FlagTypes'
    BY DEF FlagTypes, List, WatchExisting
  <1>5. WatchTypes'
    <2>1. existing' \subseteq Key
      BY DEF List, WatchExisting
    <2>2. UNCHANGED <<rv, faults>> /\ snapshot' = Len(log)
          /\ cursor' \in {cursor, Len(log)} /\ phase' \in {"listing", "watch"}
      BY DEF List, WatchExisting
    <2> QED
      BY <1>1, <1>2, <2>1, <2>2 DEF WatchTypes
  <1>6. NothingDropped'
    BY <1>1 DEF NothingDropped
  <1>7. ListedFirst'
    BY <1>1 DEF ListedFirst, List, WatchExisting
  <1>8. ExistingKnown'
    <2>1. snapshot' = Len(log) /\ \A k \in existing' : Exists(k, Len(log))
      BY DEF List, WatchExisting
    <2> QED
      BY <1>1, <2>1 DEF ExistingKnown, Exists, Revision
  <1> QED
    BY <1>3, <1>4, <1>5, <1>6, <1>7, <1>8

(* An object of the list is told at once: nothing is in the queue then.    *)
LEMMA ListItemStep ==
    ASSUME WatchInv, NEW k \in Key, ListItem(k)
    PROVE  WatchInv'
  <1> USE DEF WatchInv, TypeOK
  <1> DEFINE r == Revision(k, snapshot)
  <1>1. r \in 0..Len(log)
    <2>1. snapshot \in 0..Len(log) /\ log \in Seq(Event)
      BY DEF WatchTypes, LogTypes
    <2>2. r \in 0..snapshot
      BY <2>1, RevisionRange
    <2> QED
      BY <2>1, <2>2
  <1>2. /\ UNCHANGED <<log, compacted, seenEvents, innerChan, snapshot, cursor,
                       phase, faults>>
        /\ rv' = r /\ existing' = existing \ {k} /\ phase = "listing"
        /\ told' = [told EXCEPT ![k] = r] /\ received' = [received EXCEPT ![k] = r]
    BY DEF ListItem, apiVars, queueVars
  <1>3. FlagTypes'
    BY DEF FlagTypes, ListItem
  <1>4. ExistingKnown'
    BY <1>2 DEF ExistingKnown, Revision
  <1> HIDE DEF r
  <1>5. LogTypes' /\ WatchTypes'
    BY <1>1, <1>2 DEF LogTypes, WatchTypes
  <1>6. QueueTypes'
    BY <1>1, <1>2 DEF QueueTypes
  <1>7. NothingDropped' /\ ListedFirst'
    BY <1>2 DEF NothingDropped, ListedFirst, QueueTypes
  <1> QED
    BY <1>3, <1>4, <1>5, <1>6, <1>7

(* An event that is put into the queue is the last one of its object.      *)
LEMMA EnqueueStep ==
    ASSUME QueueTypes, NothingDropped, NEW k \in Key, NEW r \in 1..Len(log),
           Len(log) \in Nat, Enqueue(k, r), UNCHANGED <<log, innerChan, told>>
    PROVE  NothingDropped' /\ QueueTypes'
  <1>1. r \in 0..Len(log) /\ r > 0
    OBVIOUS
  <1>2. QueueTypes'
    BY <1>1 DEF QueueTypes, Enqueue
  <1>3. NothingDropped'
    BY <1>1 DEF QueueTypes, NothingDropped, Enqueue
  <1> QED
    BY <1>2, <1>3

(* The first events of a watch, of the objects that exist.                 *)
LEMMA ReceiveExistingStep ==
    ASSUME WatchInv, NEW k \in Key, ReceiveExisting(k)
    PROVE  WatchInv'
  <1> USE DEF WatchInv, TypeOK
  <1> DEFINE r == Revision(k, snapshot)
  <1>1. r \in 1..Len(log) /\ Len(log) \in Nat
    <2>1. snapshot \in 0..Len(log) /\ log \in Seq(Event)
      BY DEF WatchTypes, LogTypes
    <2>2. r \in 0..snapshot /\ r > 0
      BY <2>1, RevisionRange DEF ExistingKnown, ReceiveExisting
    <2>3. Len(log) \in Nat
      BY <2>1
    <2> HIDE DEF r
    <2> QED
      BY <2>1, <2>2, <2>3
  <1>2. /\ UNCHANGED <<log, compacted, innerChan, told, snapshot, cursor, phase,
                       faults>>
        /\ rv' = r /\ existing' = existing \ {k} /\ phase = "watch"
        /\ Enqueue(k, r)
    BY DEF ReceiveExisting, apiVars
  <1>3. FlagTypes'
    BY DEF FlagTypes, ReceiveExisting
  <1>4. ExistingKnown'
    BY <1>2 DEF ExistingKnown, Revision
  <1> HIDE DEF r
  <1>5. LogTypes' /\ WatchTypes'
    BY <1>1, <1>2 DEF LogTypes, WatchTypes
  <1>6. NothingDropped' /\ QueueTypes'
    BY <1>1, <1>2, EnqueueStep
  <1>7. ListedFirst'
    BY <1>2 DEF ListedFirst
  <1> QED
    BY <1>3, <1>4, <1>5, <1>6, <1>7

(* Its later events, one for every change.                                 *)
LEMMA ReceiveStep ==
    ASSUME WatchInv, Receive
    PROVE  WatchInv'
  <1> USE DEF WatchInv, TypeOK
  <1> DEFINE r == cursor + 1
             k == log[r].key
  <1>1. r \in 1..Len(log) /\ Len(log) \in Nat
    BY DEF Receive, WatchTypes, LogTypes
  <1>2. k \in Key
    <2>1. log \in Seq(Event)
      BY DEF LogTypes
    <2>2. log[r] \in Event
      BY <1>1, <2>1
    <2> QED
      BY <2>2 DEF Event
  <1>3. /\ UNCHANGED <<log, compacted, innerChan, told, snapshot, existing, phase,
                       faults>>
        /\ rv' = r /\ cursor' = r /\ phase = "watch"
        /\ Enqueue(k, r)
    BY DEF Receive, apiVars
  <1>4. FlagTypes'
    BY DEF FlagTypes, Receive
  <1>5. ExistingKnown'
    BY <1>3 DEF ExistingKnown, Revision
  <1> HIDE DEF r, k
  <1>6. LogTypes' /\ WatchTypes'
    BY <1>1, <1>3 DEF LogTypes, WatchTypes
  <1>7. NothingDropped' /\ QueueTypes'
    BY <1>1, <1>2, <1>3, EnqueueStep
  <1>8. ListedFirst'
    BY <1>3 DEF ListedFirst
  <1> QED
    BY <1>4, <1>5, <1>6, <1>7, <1>8

(* Steps that leave the queue and the objects to come as they are.         *)
LEMMA ControlStep ==
    ASSUME WatchInv,
           Compact \/ ListEnds \/ ListFails \/ WatchResume \/ WatchExpired
             \/ WatchNotFound \/ WatchClosed \/ WatchError
    PROVE  WatchInv'
  <1> USE DEF WatchInv, TypeOK
  <1>1. UNCHANGED <<log, seenEvents, innerChan, told, received>>
    BY Zenon DEF Compact, ListEnds, ListFails, WatchResume, WatchExpired, WatchNotFound,
           WatchClosed, WatchError, apiVars, queueVars
  <1>2. Len(log) \in Nat
    BY DEF LogTypes
  <1>3. FlagTypes'
    BY Zenon DEF FlagTypes, Compact, ListEnds, ListFails, WatchResume, WatchExpired,
           WatchNotFound, WatchClosed, WatchError, watchVars
  <1>4. LogTypes'
    <2>1. compacted' = compacted \/ compacted' = Len(log)
      BY Zenon DEF Compact, ListEnds, ListFails, WatchResume, WatchExpired, WatchNotFound,
             WatchClosed, WatchError, apiVars
    <2> QED
      BY <1>1, <1>2, <2>1 DEF LogTypes
  <1>5. QueueTypes' /\ NothingDropped'
    BY <1>1 DEF QueueTypes, NothingDropped
  <1>6. /\ existing' \subseteq existing /\ UNCHANGED snapshot
        /\ rv' \in {0, rv} /\ cursor' \in {cursor, rv}
        /\ phase' \in {phase, "list", "retry", "watch", "over"}
        /\ faults' \in {faults, faults + 1} /\ (faults' # faults => faults < MaxFaults)
    BY Zenon DEF Compact, ListEnds, ListFails, WatchResume, WatchExpired, WatchNotFound,
           WatchClosed, WatchError, watchVars
  <1>7. WatchTypes'
    BY <1>1, <1>2, <1>6, BoundAssumption DEF WatchTypes
  <1>8. ListedFirst'
    <2>1. phase' \in {"list", "listing"} => phase \in {"list", "listing"}
      BY Zenon DEF Compact, ListEnds, ListFails, WatchResume, WatchExpired,
             WatchNotFound, WatchClosed, WatchError, watchVars
    <2> QED
      BY <1>1, <2>1 DEF ListedFirst
  <1>9. ExistingKnown'
    BY <1>1, <1>6 DEF ExistingKnown, Revision
  <1> QED
    BY <1>3, <1>4, <1>5, <1>7, <1>8, <1>9

(* The eviction waits until the event before it has been taken.            *)
LEMMA QueueStep ==
    ASSUME WatchInv, NEW k \in Key, Evict(k) \/ HandleEvent(k)
    PROVE  WatchInv'
  <1> USE DEF WatchInv, TypeOK
  <1>1. UNCHANGED <<log, compacted, phase, rv, snapshot, cursor, existing, faults>>
    BY DEF Evict, HandleEvent, apiVars, watchVars
  <1>2. FlagTypes'
    BY DEF FlagTypes, Evict, HandleEvent, watchVars
  <1>3. LogTypes' /\ WatchTypes' /\ ExistingKnown'
    BY <1>1 DEF LogTypes, WatchTypes, ExistingKnown, Revision
  <1>4. Len(log) \in Nat
    BY DEF LogTypes
  <1>5. QueueTypes' /\ NothingDropped'
    <2>1. CASE Evict(k)
      <3>1. /\ UNCHANGED <<told, received>>
            /\ seenEvents[k] > 0 /\ \A j \in Key : innerChan[j] = 0
            /\ innerChan' = [innerChan EXCEPT ![k] = seenEvents[k]]
            /\ seenEvents' = [seenEvents EXCEPT ![k] = 0]
        BY <2>1 DEF Evict
      <3>2. QueueTypes'
        BY <1>1, <1>4, <3>1 DEF QueueTypes
      <3>3. NothingDropped'
        BY <1>4, <3>1 DEF QueueTypes, NothingDropped
      <3> QED
        BY <3>2, <3>3
    <2>2. CASE HandleEvent(k)
      <3>1. /\ UNCHANGED <<seenEvents, received>>
            /\ innerChan[k] > 0
            /\ told' = [told EXCEPT ![k] = innerChan[k]]
            /\ innerChan' = [innerChan EXCEPT ![k] = 0]
        BY <2>2 DEF HandleEvent
      <3>2. QueueTypes'
        BY <1>1, <1>4, <3>1 DEF QueueTypes
      <3>3. NothingDropped'
        BY <1>4, <3>1 DEF QueueTypes, NothingDropped
      <3> QED
        BY <3>2, <3>3
    <2> QED
      BY <2>1, <2>2
  <1>6. ListedFirst'
    BY <1>1, <1>4 DEF ListedFirst, QueueTypes, Evict, HandleEvent
  <1> QED
    BY <1>2, <1>3, <1>5, <1>6

(* Every step keeps the invariant.                                         *)
LEMMA NextWatch == WatchInv /\ [Next]_vars => WatchInv'
  <1> SUFFICES ASSUME WatchInv, [Next]_vars PROVE WatchInv'
    OBVIOUS
  <1>1. ASSUME UNCHANGED vars PROVE WatchInv'
    <2>1. UNCHANGED <<apiVars, watchVars, queueVars, told, received, faults>>
      BY <1>1 DEF vars
    <2>2. FlagTypes'
      BY <2>1 DEF watchVars, FlagTypes, WatchInv, TypeOK
    <2>3. LogTypes' /\ WatchTypes' /\ QueueTypes'
      BY <2>1 DEF apiVars, watchVars, queueVars, LogTypes, WatchTypes, QueueTypes,
                  WatchInv, TypeOK
    <2>4. NothingDropped' /\ ExistingKnown' /\ ListedFirst'
      BY <2>1 DEF apiVars, watchVars, queueVars, NothingDropped, ExistingKnown,
                  ListedFirst, Revision, WatchInv
    <2> QED
      BY <2>2, <2>3, <2>4 DEF WatchInv, TypeOK
  <1> QED
    BY <1>1, ChangeStep, BeginStep, ListItemStep, ReceiveExistingStep, ReceiveStep,
       ControlStep, QueueStep
    DEF Next, ListStep, WatchStep

-----------------------------------------------------------------------------
(* Every variable keeps its type; the version a watch is resumed from is   *)
(* never ahead of the cluster.                                             *)
THEOREM WatchTypeCorrect == Spec => []TypeOK
  <1>1. WatchInv => TypeOK
    BY DEF WatchInv
  <1> QED
    BY <1>1, InitWatch, NextWatch, PTL DEF Spec

(* The cooldown queue loses no last event of an object, for any objects    *)
(* and changes: Enqueue replaces, the eviction waits, and nothing is put   *)
(* into the queue before the list is done.                                 *)
THEOREM QueueDropsNothing == Spec => []NothingDropped
  <1>1. WatchInv => NothingDropped
    BY DEF WatchInv
  <1> QED
    BY <1>1, InitWatch, NextWatch, PTL DEF Spec

-----------------------------------------------------------------------------
(***************************************************************************)
(* Why the client is up to date once nothing is left to deliver: wherever  *)
(* a watch resumes, the log behind that place or what was received before  *)
(* has the last change of every object.                                    *)
(***************************************************************************)

(* A watch that goes on from the version n brings the last change of k,    *)
(* unless it has come already; or k is gone, and was never heard of or     *)
(* went unnoticed while the list or the watch began anew.                  *)
Covered(k, n) ==
    \/ Latest(k) > n
    \/ received[k] = Latest(k)
    \/ ~ Exists(k, Len(log)) /\ (restarted \/ received[k] = 0)

CoveredBut(S, n) ==
    interrupted \/ blind \/ \A k \in Key \ S : Covered(k, n)

NothingYet == rv = 0 /\ ~ restarted => \A k \in Key : received[k] = 0

(* Objects still to come are in the snapshot, where a watch begins; from   *)
(* the version of the last event, which is no later than that, a closed    *)
(* watch resumes.                                                          *)
Resumable ==
    /\ phase = "list" => rv = 0
    /\ phase = "listing" => rv <= snapshot /\ CoveredBut(existing, snapshot)
    /\ phase = "retry" => rv = 0 \/ CoveredBut({}, rv)
    /\ phase = "watch" => /\ rv <= cursor /\ CoveredBut(existing, cursor)
                          /\ existing # {} => cursor = snapshot

RestInv == WatchInv /\ NothingYet /\ Resumable

-----------------------------------------------------------------------------
(* The last change of an object in the first n entries of a log.           *)
LastOf(L, n, k) == Last({i \in 1..n : L[i].key = k})

(* It is a change of the object, and the last one.                         *)
LEMMA LastChange ==
    ASSUME NEW L \in Seq(Event), NEW n \in 0..Len(L), NEW k
    PROVE  /\ LastOf(L, n, k) \in 0..n
           /\ LastOf(L, n, k) > 0 => L[LastOf(L, n, k)].key = k
           /\ \A s \in 1..n : L[s].key = k => s <= LastOf(L, n, k)
  <1> DEFINE changes == {i \in 1..n : L[i].key = k}
             r == Last(changes)
  <1>1. n \in Nat
    OBVIOUS
  <1>2. CASE changes = {}
    BY <1>1, <1>2 DEF Last, LastOf
  <1>3. CASE changes # {}
    <2>1. \E i \in changes : \A s \in changes : s <= i
      <3>1. changes \subseteq 1..n
        OBVIOUS
      <3> HIDE DEF changes
      <3> QED
        BY Zenon, <1>1, <1>3, <3>1, Greatest
    <2>2. r \in changes /\ \A s \in changes : s <= r
      <3> HIDE DEF changes
      <3> QED
        BY <1>3, <2>1 DEF Last
    <2> HIDE DEF r
    <2>3. r \in 1..n /\ L[r].key = k /\ \A s \in 1..n : L[s].key = k => s <= r
      BY <2>2
    <2> QED
      BY <1>1, <2>3 DEF r, LastOf
  <1> QED
    BY <1>2, <1>3

(* Two logs that agree up to n, read up to n and up to m.                  *)
LEMMA LastLater ==
    ASSUME NEW L \in Seq(Event), NEW M \in Seq(Event), NEW k,
           NEW n \in 0..Len(L), NEW m \in 0..Len(M), n <= m,
           \A i \in 1..n : M[i] = L[i]
    PROVE  LastOf(M, m, k) > n \/ LastOf(M, m, k) = LastOf(L, n, k)
  <1> DEFINE a == LastOf(L, n, k)
             b == LastOf(M, m, k)
  <1>1. /\ a \in 0..n /\ (a > 0 => L[a].key = k)
        /\ \A s \in 1..n : L[s].key = k => s <= a
    BY LastChange
  <1>2. /\ b \in 0..m /\ (b > 0 => M[b].key = k)
        /\ \A s \in 1..m : M[s].key = k => s <= b
    BY LastChange
  <1> HIDE DEF a, b
  <1>3. n \in Nat /\ m \in Nat
    OBVIOUS
  <1>4. a <= b
    <2>1. a > 0 => a \in 1..n /\ a \in 1..m /\ M[a].key = k
      BY <1>1, <1>3
    <2> QED
      BY <1>1, <1>2, <1>3, <2>1
  <1>5. b <= n => b <= a
    <2>1. b > 0 /\ b <= n => b \in 1..n /\ L[b].key = k
      BY <1>2, <1>3
    <2> QED
      BY <1>1, <1>2, <1>3, <2>1
  <1>6. b > n \/ b = a
    BY <1>1, <1>2, <1>3, <1>4, <1>5
  <1> QED
    BY <1>6 DEF a, b

(* The latest revision of an object, compared with an earlier one.         *)
LEMMA LatestLater ==
    ASSUME TypeOK, NEW k \in Key, NEW n \in 0..Len(log)
    PROVE  /\ Latest(k) \in Nat /\ Latest(k) <= Len(log)
           /\ Latest(k) > n \/ Latest(k) = Revision(k, n)
  <1>1. log \in Seq(Event) /\ Len(log) \in Nat
    BY DEF TypeOK, LogTypes
  <1>2. Len(log) \in 0..Len(log) /\ n <= Len(log)
    BY <1>1
  <1>3. Latest(k) \in 0..Len(log)
    BY <1>1, <1>2, RevisionRange DEF Latest
  <1>4. Latest(k) > n \/ Latest(k) = Revision(k, n)
    <2>1. Latest(k) = LastOf(log, Len(log), k) /\ Revision(k, n) = LastOf(log, n, k)
      BY DEF Latest, Revision, LastOf
    <2>2. \A i \in 1..n : log[i] = log[i]
      OBVIOUS
    <2>3. LastOf(log, Len(log), k) > n \/ LastOf(log, Len(log), k) = LastOf(log, n, k)
      BY Zenon, <1>1, <1>2, <2>2, LastLater
    <2> QED
      BY Zenon, <2>1, <2>3
  <1> QED
    BY <1>1, <1>3, <1>4

(* A new change is behind every version a watch can go on from.            *)
LEMMA CoveredGrows ==
    ASSUME TypeOK, NEW j \in Key, NEW type \in {"Added", "Modified", "Deleted"},
           Change(j, type),
           NEW k \in Key, NEW n \in 0..Len(log), Covered(k, n)
    PROVE  Covered(k, n)'
  <1> DEFINE e == [key |-> j, type |-> type]
  <1>1. log \in Seq(Event) /\ e \in Event /\ log' = Append(log, e)
    BY DEF TypeOK, LogTypes, Event, Change
  <1>2. /\ log' \in Seq(Event) /\ Len(log') = Len(log) + 1 /\ Len(log) \in Nat
        /\ \A i \in 1..Len(log) : log'[i] = log[i]
    BY <1>1
  <1>3. UNCHANGED <<received, restarted>>
    BY DEF Change, watchVars
  <1>4. Latest(k)' > Len(log) \/ Latest(k)' = Latest(k)
    <2>1. Len(log) \in 0..Len(log) /\ Len(log') \in 0..Len(log') /\ Len(log) <= Len(log')
      BY <1>2
    <2>2. /\ Latest(k) = LastOf(log, Len(log), k)
          /\ Latest(k)' = LastOf(log', Len(log'), k)
      BY DEF Latest, Revision, LastOf
    <2>3. \/ LastOf(log', Len(log'), k) > Len(log)
          \/ LastOf(log', Len(log'), k) = LastOf(log, Len(log), k)
      BY Zenon, <1>1, <1>2, <2>1, LastLater
    <2> QED
      BY Zenon, <2>2, <2>3
  <1>5. Latest(k) \in 0..Len(log)
    BY <1>2, LatestLater
  <1>6. ASSUME Latest(k)' = Latest(k)
        PROVE  Exists(k, Len(log))' = Exists(k, Len(log))
    <2>1. Latest(k) > 0 => log'[Latest(k)] = log[Latest(k)]
      BY <1>2, <1>5
    <2> QED
      BY <1>6, <2>1 DEF Exists, Latest
  <1>7. CASE Latest(k)' = Latest(k)
    BY <1>3, <1>6, <1>7 DEF Covered
  <1>8. CASE Latest(k)' > Len(log)
    <2>1. Latest(k)' > n
      <3>1. Latest(k)' \in Nat
        <4>1. Len(log') \in 0..Len(log')
          BY <1>2
        <4>2. LastOf(log', Len(log'), k) \in 0..Len(log')
          BY Zenon, <1>2, <4>1, LastChange
        <4> QED
          BY <1>2, <4>2 DEF Latest, Revision, LastOf
      <3> QED
        BY <1>2, <1>8, <3>1
    <2> QED
      BY <2>1 DEF Covered
  <1> QED
    BY <1>4, <1>7, <1>8

(* Nothing new of the object.                                              *)
LEMMA CoveredKept ==
    ASSUME NEW k \in Key, NEW n, UNCHANGED log, received'[k] = received[k],
           restarted => restarted', Covered(k, n)
    PROVE  Covered(k, n)'
  <1>1. Latest(k)' = Latest(k) /\ Exists(k, Len(log))' = Exists(k, Len(log))
    BY DEF Latest, Exists, Revision
  <1> QED
    BY Zenon, <1>1 DEF Covered

(* The object's own revision as of n is received.                          *)
LEMMA CoveredReceived ==
    ASSUME TypeOK, NEW k \in Key, NEW n \in 0..Len(log), UNCHANGED log,
           received'[k] = Revision(k, n)
    PROVE  Covered(k, n)'
  <1>1. Latest(k) > n \/ Latest(k) = Revision(k, n)
    BY LatestLater
  <1>2. Latest(k)' = Latest(k)
    BY DEF Latest, Revision
  <1> QED
    BY Zenon, <1>1, <1>2 DEF Covered

(* What is covered from n on is covered from an earlier place.             *)
LEMMA CoveredBefore ==
    ASSUME TypeOK, NEW k \in Key, NEW n \in 0..Len(log), NEW m \in 0..n, Covered(k, n)
    PROVE  Covered(k, m)
  <1>1. Latest(k) \in Nat /\ n \in Nat /\ m \in Nat /\ m <= n
    <2>1. Len(log) \in Nat
      BY DEF TypeOK, LogTypes
    <2>2. Latest(k) \in Nat
      BY LatestLater
    <2> QED
      BY <2>1, <2>2
  <1>2. Latest(k) > n => Latest(k) > m
    BY <1>1
  <1> QED
    BY Zenon, <1>2 DEF Covered

(* The same of all objects but those of a set.                             *)
LEMMA ButKept ==
    ASSUME NEW S, NEW n, UNCHANGED <<log, received>>, restarted => restarted',
           interrupted => interrupted', blind => blind', CoveredBut(S, n)
    PROVE  CoveredBut(S, n)'
  BY Zenon, CoveredKept DEF CoveredBut

-----------------------------------------------------------------------------
(* Nothing is known and nothing has changed.                               *)
LEMMA InitRest == Init => RestInv
  <1> SUFFICES ASSUME Init PROVE RestInv
    OBVIOUS
  <1>1. NothingYet
    BY Zenon DEF Init, NothingYet
  <1>2. Resumable
    BY DEF Init, Resumable
  <1> QED
    BY <1>1, <1>2, InitWatch DEF RestInv

(* A change of the cluster.                                                *)
LEMMA ChangeRest ==
    ASSUME RestInv, NEW k \in Key, NEW type \in {"Added", "Modified", "Deleted"},
           Change(k, type)
    PROVE  NothingYet' /\ Resumable'
  <1>1. UNCHANGED <<phase, rv, snapshot, existing, cursor, restarted, blind,
                    interrupted, received>>
    BY DEF Change, watchVars
  <1>2. TypeOK /\ Resumable /\ NothingYet
    BY DEF RestInv, WatchInv
  <1>3. ASSUME NEW S, NEW n \in 0..Len(log), CoveredBut(S, n)
        PROVE  CoveredBut(S, n)'
    BY Zenon, <1>1, <1>2, <1>3, CoveredGrows DEF CoveredBut
  <1>4. snapshot \in 0..Len(log) /\ cursor \in 0..Len(log) /\ rv \in 0..Len(log)
    BY <1>2 DEF TypeOK, WatchTypes
  <1>5. NothingYet'
    BY Zenon, <1>1, <1>2 DEF NothingYet
  <1>6. /\ CoveredBut(existing, snapshot) => CoveredBut(existing, snapshot)'
        /\ CoveredBut(existing, cursor) => CoveredBut(existing, cursor)'
        /\ CoveredBut({}, rv) => CoveredBut({}, rv)'
    BY Zenon, <1>1, <1>3, <1>4 DEF CoveredBut, Covered
  <1> QED
    BY Zenon, <1>1, <1>2, <1>5, <1>6 DEF Resumable

(* Steps that concern neither the list nor the watch.                      *)
LEMMA QuietRest ==
    ASSUME RestInv, UNCHANGED <<log, watchVars, received>>
    PROVE  NothingYet' /\ Resumable'
  <1>1. UNCHANGED <<phase, rv, snapshot, existing, cursor, restarted, blind,
                    interrupted, received, log>>
    BY DEF watchVars
  <1>2. \A k \in Key : \A n : Covered(k, n) => Covered(k, n)'
    BY Zenon, <1>1, CoveredKept
  <1>3. /\ CoveredBut(existing, snapshot) => CoveredBut(existing, snapshot)'
        /\ CoveredBut(existing, cursor) => CoveredBut(existing, cursor)'
        /\ CoveredBut({}, rv) => CoveredBut({}, rv)'
    BY Zenon, <1>1, <1>2 DEF CoveredBut, Covered
  <1> QED
    BY Zenon, <1>1, <1>3 DEF RestInv, NothingYet, Resumable

(* A list, or a watch without a version, begins with everything there is;  *)
(* what is not there was never heard of, unless this is not the first one. *)
LEMMA BeginRest ==
    ASSUME RestInv, List \/ WatchExisting
    PROVE  NothingYet' /\ Resumable'
  <1> USE DEF RestInv, WatchInv
  <1>1. UNCHANGED <<log, rv, restarted, interrupted, received>>
    BY DEF List, WatchExisting, apiVars
  <1>2. NothingYet'
    BY Zenon, <1>1 DEF NothingYet
  <1>3. rv = 0
    BY DEF List, WatchExisting, Resumable
  <1>4. Len(log) \in Nat /\ received \in [Key -> 0..Len(log)]
    BY DEF TypeOK, LogTypes, QueueTypes
  <1>5. ASSUME NEW k \in Key, ~ Exists(k, Len(log)) PROVE Covered(k, Len(log))'
    <2>1. restarted \/ received[k] = 0
      BY Zenon, <1>3 DEF NothingYet
    <2>2. Exists(k, Len(log))' = Exists(k, Len(log))
      BY <1>1 DEF Exists, Revision
    <2> QED
      BY Zenon, <1>1, <1>5, <2>1, <2>2 DEF Covered
  <1>6. ASSUME Len(log) = 0, NEW k \in Key PROVE ~ Exists(k, Len(log))
    <2>1. Revision(k, 0) \in 0..0
      BY <1>4, <1>6, RevisionRange DEF TypeOK, LogTypes
    <2> QED
      BY <1>6, <2>1 DEF Exists
  <1>7. CASE List
    <2>1. /\ phase' = "listing" /\ snapshot' = Len(log) /\ UNCHANGED blind
          /\ existing' = {k \in Key : Exists(k, Len(log))}
      BY <1>7 DEF List
    <2>2. CoveredBut(existing, snapshot)'
      BY Zenon, <1>1, <1>5, <2>1 DEF CoveredBut, Covered
    <2> QED
      BY <1>1, <1>2, <1>3, <1>4, <2>1, <2>2 DEF Resumable
  <1>8. CASE WatchExisting
    <2>1. /\ phase' = "watch" /\ snapshot' = Len(log) /\ cursor' = Len(log)
          /\ existing' = IF storage THEN {} ELSE {k \in Key : Exists(k, Len(log))}
          /\ blind' = (blind \/ (storage /\ Len(log) > 0))
      BY Zenon, <1>8 DEF WatchExisting
    <2>2. blind' \/ \A k \in Key \ existing' : ~ Exists(k, Len(log))
      <3>1. Len(log) > 0 \/ Len(log) = 0
        BY <1>4
      <3> QED
        BY Zenon, <1>6, <2>1, <3>1
    <2>3. CoveredBut(existing, cursor)'
      BY Zenon, <1>1, <1>5, <2>1, <2>2 DEF CoveredBut, Covered
    <2> QED
      BY <1>1, <1>2, <1>3, <1>4, <2>1, <2>3 DEF Resumable
  <1> QED
    BY <1>7, <1>8

(* An object of the list, or one that existed when the watch began.        *)
LEMMA ExistingRest ==
    ASSUME RestInv, NEW k \in Key, ListItem(k) \/ ReceiveExisting(k)
    PROVE  NothingYet' /\ Resumable'
  <1> USE DEF RestInv, WatchInv
  <1>1. /\ k \in existing /\ existing' = existing \ {k}
        /\ rv' = Revision(k, snapshot)
        /\ received' = [received EXCEPT ![k] = Revision(k, snapshot)]
        /\ UNCHANGED <<log, phase, snapshot, cursor, restarted, blind, interrupted>>
        /\ phase \in {"listing", "watch"}
    BY DEF ListItem, ReceiveExisting, Enqueue, apiVars
  <1>2. /\ log \in Seq(Event) /\ Len(log) \in Nat /\ snapshot \in 0..Len(log)
        /\ received \in [Key -> 0..Len(log)]
    BY DEF TypeOK, LogTypes, WatchTypes, QueueTypes
  <1>3. Revision(k, snapshot) \in 0..snapshot /\ Revision(k, snapshot) > 0
    BY Zenon, <1>1, <1>2, RevisionRange DEF ExistingKnown
  <1>4. NothingYet'
    BY <1>1, <1>2, <1>3 DEF NothingYet
  <1>5. CoveredBut(existing, snapshot) => CoveredBut(existing, snapshot)'
    <2>1. received'[k] = Revision(k, snapshot) /\ \A j \in Key \ {k} : received'[j] = received[j]
      BY Zenon, <1>1, <1>2
    <2>2. PICK n : n = snapshot
      OBVIOUS
    <2>3. Covered(k, n)'
      BY Zenon, <1>1, <1>2, <2>1, <2>2, CoveredReceived
    <2>4. \A j \in Key \ {k} : Covered(j, n) => Covered(j, n)'
      BY Zenon, <1>1, <2>1, CoveredKept
    <2>5. ASSUME CoveredBut(existing, n)
          PROVE  interrupted' \/ blind' \/ \A j \in Key \ existing' : Covered(j, n)'
      BY Zenon, <1>1, <2>3, <2>4, <2>5 DEF CoveredBut
    <2>6. (\A j \in Key \ existing' : Covered(j, n)') =>
              \A j \in Key \ existing' : Covered(j, snapshot)'
      BY Zenon, <1>1, <2>2 DEF Covered
    <2> QED
      BY Zenon, <2>2, <2>5, <2>6 DEF CoveredBut
  <1>6. CASE phase = "listing"
    BY <1>1, <1>2, <1>3, <1>4, <1>5, <1>6 DEF Resumable
  <1>7. CASE phase = "watch"
    <2>1. cursor = snapshot /\ cursor' = snapshot'
      BY <1>1, <1>7 DEF Resumable
    <2>2. CoveredBut(existing, cursor)'
      BY Zenon, <1>5, <1>7, <2>1 DEF Resumable, CoveredBut, Covered
    <2> QED
      BY <1>1, <1>2, <1>3, <1>4, <1>7, <2>1, <2>2 DEF Resumable
  <1> QED
    BY <1>1, <1>6, <1>7

(* The next change.                                                        *)
LEMMA ReceiveRest ==
    ASSUME RestInv, Receive
    PROVE  NothingYet' /\ Resumable'
  <1> USE DEF RestInv, WatchInv
  <1>1. /\ phase = "watch" /\ existing = {} /\ cursor < Len(log)
        /\ cursor' = cursor + 1 /\ rv' = cursor + 1
        /\ received' = [received EXCEPT ![log[cursor + 1].key] = cursor + 1]
        /\ UNCHANGED <<log, phase, snapshot, existing, restarted, blind, interrupted>>
    BY DEF Receive, Enqueue, apiVars
  <1>2. /\ log \in Seq(Event) /\ Len(log) \in Nat /\ cursor \in 0..Len(log)
        /\ received \in [Key -> 0..Len(log)]
    BY DEF TypeOK, LogTypes, WatchTypes, QueueTypes
  <1>3. PICK n : n = cursor + 1
    OBVIOUS
  <1>4. n \in 1..Len(log) /\ n \in 0..Len(log) /\ n - 1 = cursor /\ cursor \in Nat
    BY <1>1, <1>2, <1>3
  <1>5. ASSUME NEW k \in Key, Covered(k, cursor) PROVE Covered(k, n)'
    <2>1. CASE log[n].key = k
      <3>1. received'[k] = n
        BY <1>1, <1>2, <1>3, <2>1
      <3>2. Revision(k, n) = LastOf(log, n, k)
        BY DEF Revision, LastOf
      <3>3. LastOf(log, n, k) = n
        <4>1. /\ LastOf(log, n, k) \in 0..n
              /\ \A s \in 1..n : log[s].key = k => s <= LastOf(log, n, k)
          BY Zenon, <1>2, <1>4, LastChange
        <4>2. n \in 1..n
          BY <1>4
        <4> QED
          BY <1>4, <2>1, <4>1, <4>2
      <3> QED
        BY Zenon, <1>1, <1>4, <3>1, <3>2, <3>3, CoveredReceived
    <2>2. CASE log[n].key # k
      <3>1. received'[k] = received[k]
        BY <1>1, <1>2, <1>3, <2>2
      <3>2. Latest(k) \in Nat /\ (Latest(k) > 0 => log[Latest(k)].key = k)
        <4>1. Latest(k) = LastOf(log, Len(log), k)
          BY DEF Latest, Revision, LastOf
        <4>2. Len(log) \in 0..Len(log)
          BY <1>2
        <4>3. /\ LastOf(log, Len(log), k) \in 0..Len(log)
              /\ LastOf(log, Len(log), k) > 0 => log[LastOf(log, Len(log), k)].key = k
          BY Zenon, <1>2, <4>2, LastChange
        <4> QED
          BY <1>2, <4>1, <4>3
      <3>3. Latest(k) > cursor => Latest(k) > n
        BY <1>3, <1>4, <2>2, <3>2
      <3>4. Covered(k, n)
        BY Zenon, <1>5, <3>3 DEF Covered
      <3> QED
        BY Zenon, <1>1, <3>1, <3>4, CoveredKept
    <2> QED
      BY <2>1, <2>2
  <1>6. CoveredBut(existing, cursor)'
    <2>1. CoveredBut({}, cursor)
      BY <1>1 DEF Resumable
    <2>2. interrupted' \/ blind' \/ \A k \in Key : Covered(k, n)'
      BY Zenon, <1>1, <1>5, <2>1 DEF CoveredBut
    <2> QED
      BY Zenon, <1>1, <1>3, <2>2 DEF CoveredBut, Covered
  <1>7. NothingYet'
    BY <1>1, <1>4 DEF NothingYet
  <1> QED
    BY <1>1, <1>4, <1>6, <1>7 DEF Resumable

(* The list is over, and the watch begins where its last object was.       *)
LEMMA ListEndsRest ==
    ASSUME RestInv, ListEnds \/ WatchResume
    PROVE  NothingYet' /\ Resumable'
  <1> USE DEF RestInv, WatchInv
  <1>1. UNCHANGED <<log, rv, restarted, blind, interrupted, received>>
    BY DEF ListEnds, WatchResume, apiVars
  <1>2. NothingYet'
    BY Zenon, <1>1 DEF NothingYet
  <1>3. /\ rv \in 0..Len(log) /\ snapshot \in 0..Len(log) /\ Len(log) \in Nat
    BY DEF TypeOK, LogTypes, WatchTypes
  <1>4. CoveredBut({}, rv) => CoveredBut({}, rv)'
    <2>1. PICK n : n = rv
      OBVIOUS
    <2>2. CoveredBut({}, n) => CoveredBut({}, n)'
      BY Zenon, <1>1, ButKept
    <2> QED
      BY Zenon, <1>1, <2>1, <2>2 DEF CoveredBut, Covered
  <1>5. CASE ListEnds
    <2>1. phase = "listing" /\ existing = {} /\ phase' = "retry"
      BY <1>5 DEF ListEnds
    <2>2. CoveredBut({}, snapshot) /\ rv \in 0..snapshot
      BY <1>3, <2>1 DEF Resumable
    <2>3. CoveredBut({}, rv)
      BY Zenon, <1>3, <2>2, CoveredBefore DEF CoveredBut
    <2> QED
      BY <1>2, <1>4, <2>1, <2>3 DEF Resumable
  <1>6. CASE WatchResume
    <2>1. phase = "retry" /\ rv # 0 /\ phase' = "watch" /\ cursor' = rv /\ existing' = {}
      BY <1>3, <1>6 DEF WatchResume
    <2>2. CoveredBut({}, rv)'
      BY <1>4, <2>1 DEF Resumable
    <2>3. CoveredBut(existing, cursor)'
      BY Zenon, <1>1, <2>1, <2>2 DEF CoveredBut, Covered
    <2> QED
      BY <1>1, <1>2, <1>3, <2>1, <2>3 DEF Resumable
  <1> QED
    BY <1>5, <1>6

(* The version is forgotten: nothing is claimed but of what exists, and    *)
(* what exists will be reported anew.                                      *)
LEMMA ForgetRest ==
    ASSUME ListFails \/ WatchExpired \/ WatchError \/ WatchNotFound, RestInv
    PROVE  NothingYet' /\ Resumable'
  <1>1. CASE ListFails
    BY <1>1 DEF ListFails, NothingYet, Resumable
  <1>2. CASE WatchExpired
    BY <1>2 DEF WatchExpired, NothingYet, Resumable
  <1>3. CASE WatchError
    BY <1>3 DEF WatchError, NothingYet, Resumable
  <1>4. CASE WatchNotFound
    BY <1>4 DEF WatchNotFound, NothingYet, Resumable, RestInv
  <1> QED
    BY <1>1, <1>2, <1>3, <1>4

(* A watch that is closed while objects are still to come: the next one    *)
(* goes on from the version of the last that came, and an object with an   *)
(* older version was interrupted.                                          *)
LEMMA ClosedRest ==
    ASSUME RestInv, WatchClosed
    PROVE  NothingYet' /\ Resumable'
  <1> USE DEF RestInv, WatchInv
  <1>1. /\ phase = "watch" /\ phase' = "retry"
        /\ UNCHANGED <<log, rv, snapshot, existing, cursor, restarted, blind, received>>
        /\ interrupted => interrupted'
        /\ interrupted' \/ \A k \in existing : ~ (Revision(k, snapshot) <= rv)
    BY DEF WatchClosed, apiVars
  <1>2. /\ rv \in 0..Len(log) /\ snapshot \in 0..Len(log) /\ cursor \in 0..Len(log)
        /\ Len(log) \in Nat /\ log \in Seq(Event) /\ existing \subseteq Key
    BY DEF TypeOK, LogTypes, WatchTypes
  <1>3. NothingYet'
    BY Zenon, <1>1 DEF NothingYet
  <1>4. rv \in 0..cursor /\ CoveredBut(existing, cursor)
    BY <1>1, <1>2 DEF Resumable
  <1>5. ASSUME NEW k \in existing, ~ (Revision(k, snapshot) <= rv) PROVE Covered(k, rv)
    <2>1. rv <= snapshot
      BY <1>1, <1>4 DEF Resumable
    <2>2. /\ Latest(k) \in Nat
          /\ Latest(k) > snapshot \/ Latest(k) = Revision(k, snapshot)
      BY Zenon, <1>2, LatestLater
    <2>3. Latest(k) > rv
      BY <1>2, <1>5, <2>1, <2>2
    <2> QED
      BY <2>3 DEF Covered
  <1>6. ASSUME NEW k \in Key, Covered(k, cursor) PROVE Covered(k, rv)
    BY Zenon, <1>2, <1>4, <1>6, CoveredBefore
  <1>7. interrupted' \/ blind \/ \A k \in Key : Covered(k, rv)
    BY Zenon, <1>1, <1>4, <1>5, <1>6 DEF CoveredBut
  <1>8. CoveredBut({}, rv)'
    <2>1. PICK n : n = rv
      OBVIOUS
    <2>2. \A k \in Key : Covered(k, n) => Covered(k, n)'
      BY Zenon, <1>1, CoveredKept
    <2>3. interrupted' \/ blind' \/ \A k \in Key : Covered(k, n)'
      BY Zenon, <1>1, <1>7, <2>1, <2>2
    <2> QED
      BY Zenon, <1>1, <2>1, <2>3 DEF CoveredBut, Covered
  <1> QED
    BY <1>1, <1>3, <1>8 DEF Resumable

LEMMA NextRest == RestInv /\ [Next]_vars => RestInv'
  <1> SUFFICES ASSUME RestInv, [Next]_vars PROVE RestInv'
    OBVIOUS
  <1>1. WatchInv'
    BY Zenon, NextWatch DEF RestInv
  <1>2. NothingYet' /\ Resumable'
    <2>1. ASSUME NEW k \in Key, NEW type \in {"Added", "Modified", "Deleted"}, Change(k, type)
          PROVE  NothingYet' /\ Resumable'
      BY Zenon, <2>1, ChangeRest
    <2>2. CASE Compact \/ (\E k \in Key : Evict(k) \/ HandleEvent(k)) \/ UNCHANGED vars
      <3>1. UNCHANGED <<log, watchVars, received>>
        BY Zenon, <2>2 DEF Compact, Evict, HandleEvent, vars, apiVars
      <3> QED
        BY Zenon, <3>1, QuietRest
    <2>3. CASE ListStep
      BY Zenon, <2>3, BeginRest, ExistingRest, ListEndsRest DEF ListStep
    <2>4. CASE ListFails \/ WatchNotFound \/ WatchError
      BY Zenon, <2>4, ForgetRest
    <2>5. CASE WatchStep
      BY Zenon, <2>5, BeginRest, ExistingRest, ListEndsRest, ForgetRest, ReceiveRest DEF WatchStep
    <2>6. CASE WatchClosed
      BY Zenon, <2>6, ClosedRest
    <2> QED
      BY Zenon, <2>1, <2>2, <2>3, <2>4, <2>5, <2>6 DEF Next
  <1> QED
    BY Zenon, <1>1, <1>2 DEF RestInv

(* Whatever closes, expires or fails, in any order and however often: once *)
(* the watch has delivered all it has and the queue is empty, the last     *)
(* change of every object has been told, and told last, the objects that   *)
(* UpToDate names excepted.                                                *)
THEOREM RestIsUpToDate == Spec => []ToldAtRest
  <1>1. RestInv => ToldAtRest
    <2> SUFFICES ASSUME RestInv, CaughtUp, NEW k \in Key
                 PROVE  told[k] = Latest(k) \/ Unknown(k) \/ Missed(k)
      BY Zenon DEF ToldAtRest, UpToDate
    <2>1. /\ phase = "watch" /\ existing = {} /\ cursor = Len(log)
          /\ seenEvents[k] = 0 /\ innerChan[k] = 0
      BY DEF CaughtUp
    <2>2. told[k] = received[k]
      BY <2>1 DEF RestInv, WatchInv, NothingDropped
    <2>3. interrupted \/ blind \/ Covered(k, Len(log))
      BY <2>1 DEF RestInv, Resumable, CoveredBut
    <2>4. ~ (Latest(k) > Len(log))
      <3>1. Len(log) \in Nat /\ Len(log) \in 0..Len(log)
        BY DEF RestInv, WatchInv, TypeOK, LogTypes
      <3>2. Latest(k) \in Nat /\ Latest(k) <= Len(log)
        BY Zenon, <3>1, LatestLater DEF RestInv, WatchInv
      <3> QED
        BY <3>1, <3>2
    <2> QED
      BY Zenon, <2>2, <2>3, <2>4 DEF Covered, Unknown, Missed
  <1> QED
    BY <1>1, InitRest, NextRest, PTL DEF Spec
=============================================================================
