------------------------- MODULE MCConnectedClients -------------------------
(* Small instances of ConnectedClients.                                    *)
EXTENDS ConnectedClients

CONSTANTS c1, c2, east, acme, k1

OneCluster == [c \in Conn |-> east]
OneAccount == [i \in Client |-> acme]
OneKey == [c \in Conn |-> k1]
=============================================================================
