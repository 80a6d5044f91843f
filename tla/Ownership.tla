------------------------------ MODULE Ownership ------------------------------
(***************************************************************************)
(* What the connection registry promises of the connections of a cluster,  *)
(* without its maps, callbacks and goroutines: a client has at most one    *)
(* owner; a connection takes a client only from one that is not newer; and *)
(* it loses the client only when it is gone, or after the arrival of       *)
(* another connection that is at least as new (Start and Stop in           *)
(* adapters/backend/v1/adapter.go).                                        *)
(***************************************************************************)
EXTENDS Naturals

CONSTANTS Client, Conn, ClientOf, NoConn

VARIABLES
    owner,     \* Client -> the connection that owns it, or NoConn
    time,      \* Conn -> its connection time
    phase      \* Conn -> "absent", "present" or "gone"

Init ==
    /\ owner = [i \in Client |-> NoConn]
    /\ time = [c \in Conn |-> 0]
    /\ phase = [c \in Conn |-> "absent"]

Arrived(c) == phase[c] # "absent"

(* Connection times never decrease; two connections can have the same.     *)
Arrive(c) ==
    /\ ~ Arrived(c)
    /\ phase' = [phase EXCEPT ![c] = "present"]
    /\ time'[c] \in Nat
    /\ time' = [time EXCEPT ![c] = time'[c]]
    /\ \A d \in Conn : Arrived(d) => time[d] <= time'[c]
    /\ UNCHANGED owner

Leave(c) ==
    /\ phase[c] = "present"
    /\ phase' = [phase EXCEPT ![c] = "gone"]
    /\ UNCHANGED <<owner, time>>

(* Start can still fail after it has taken the client.                     *)
Take(c) ==
    /\ Arrived(c)
    /\ LET o == owner[ClientOf[c]] IN o # NoConn => time[o] <= time[c]
    /\ owner' = [owner EXCEPT ![ClientOf[c]] = c]
    /\ phase' \in {phase, [phase EXCEPT ![c] = "gone"]}
    /\ UNCHANGED time

Outlived(i) ==
    \E c \in Conn \ {owner[i]} :
        ClientOf[c] = i /\ Arrived(c) /\ time[owner[i]] <= time[c]

Release(i) ==
    /\ owner[i] # NoConn
    /\ phase[owner[i]] = "gone" \/ Outlived(i)
    /\ owner' = [owner EXCEPT ![i] = NoConn]
    /\ UNCHANGED <<time, phase>>

Next ==
    \/ \E c \in Conn : Arrive(c) \/ Leave(c) \/ Take(c)
    \/ \E i \in Client : Release(i)

Spec == Init /\ [][Next]_<<owner, time, phase>>
=============================================================================
