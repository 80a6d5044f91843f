------------------------------- MODULE Replica -------------------------------
(***************************************************************************)
(* What synchronization promises of one object and its copy in the         *)
(* backend, without events, goroutines, patches and connections: the copy  *)
(* is always a whole version that the object had; it is replaced only by a *)
(* newer one; and it is removed only if the object was deleted at some     *)
(* time (the reference ingester in adapters/mock.go, fed by                *)
(* adapters/incluster/v1/client.go through core/synchronizer.go).          *)
(***************************************************************************)
EXTENDS Naturals

CONSTANT NoObject

VARIABLES
    object,    \* the object in the cluster, or NoObject
    versions,  \* every version it has had
    deleted,   \* it was deleted at some time
    copy       \* the object in the backend, or NoObject

RV(o) == o["resourceVersion"]

Init ==
    /\ object = NoObject
    /\ versions = {}
    /\ deleted = FALSE
    /\ copy = NoObject

(* The API server numbers the versions upwards.                            *)
Write ==
    /\ object' # NoObject
    /\ \A v \in versions : RV(v) < RV(object')
    /\ versions' = versions \cup {object'}
    /\ UNCHANGED <<deleted, copy>>

Delete ==
    /\ object # NoObject
    /\ object' = NoObject
    /\ deleted' = TRUE
    /\ UNCHANGED <<versions, copy>>

Save ==
    /\ copy' \in versions
    /\ copy # NoObject => RV(copy') > RV(copy)
    /\ UNCHANGED <<object, versions, deleted>>

Remove ==
    /\ deleted
    /\ copy' = NoObject
    /\ UNCHANGED <<object, versions, deleted>>

Next == Write \/ Delete \/ Save \/ Remove

Spec == Init /\ [][Next]_<<object, versions, deleted, copy>>
=============================================================================
