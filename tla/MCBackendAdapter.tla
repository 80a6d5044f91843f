-------------------------- MODULE MCBackendAdapter --------------------------
(* Small instances of BackendAdapter.                                      *)
EXTENDS BackendAdapter, TLC

CONSTANTS c1, c2, c3, east, west, acme, k1, k2

(* Three connections of one cluster.                                       *)
OneCluster == [c \in Conn |-> east]

(* Two clusters of one account; the second connection of east comes with a *)
(* rotated access key.                                                     *)
TwoClusters == [c \in Conn |-> IF c = c3 THEN west ELSE east]
RotatedKey == [c \in Conn |-> IF c = c2 THEN k2 ELSE k1]

OneAccount == [i \in Client |-> acme]
OneKey == [c \in Conn |-> k1]

ConnSymmetry == Permutations(Conn)
=============================================================================
