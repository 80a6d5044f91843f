--------------------------- MODULE BackendAdapter ---------------------------
(***************************************************************************)
(* The connection registry of the synchronizer server: every websocket     *)
(* connection of a cluster gets a connection time in the authentication    *)
(* middleware, then a Synchronizer that registers its callbacks with the   *)
(* one shared backend adapter, starts the adapter, listens until its       *)
(* socket fails, and stops (adapters/backend/v1/adapter.go,                *)
(* cmd/server/main.go, core/synchronizer.go).  Message-queue workers look  *)
(* the registry up to reach a cluster (messaging/handler.go).              *)
(*                                                                         *)
(* Start and Stop of the adapter run under connMapMutex, so each is one    *)
(* step.  RegisterCallbacks and the lookups of the workers do not take the *)
(* mutex and are steps of their own.  A Synchronizer can be stopped twice: *)
(* by its connection's goroutine and by its outgoing worker.               *)
(***************************************************************************)
EXTENDS FeaturesProvider

CONSTANTS
    Client,            \* the clusters, by account and cluster name
    Conn,              \* websocket connections
    ClientOf,          \* Conn -> Client
    AccountOf,         \* Client -> Account
    KeyOf,             \* Conn -> AccessKey, the key the connection presents
    Worker,            \* worker goroutines of the message-queue reader
    WithFeatures,      \* is a features provider configured
    NoConn             \* absent from a map

ASSUME ConnAssumption ==
    /\ ClientOf \in [Conn -> Client]
    /\ AccountOf \in [Client -> Account]
    /\ KeyOf \in [Conn -> AccessKey]
    /\ NoConn \notin Conn
    /\ WithFeatures \in BOOLEAN
    /\ Registrant = Conn

ASSUME ClientFinite == IsFiniteSet(Client)

VARIABLES
    clock,             \* time.Now() of the server
    connectionTime,    \* Conn -> the time the middleware first saw it
    pc,                \* Conn -> where the goroutine of the connection is
    sender,            \* Conn -> what the single outPool worker does
    released,          \* Conn -> have Stop's Release calls happened
    connClosed,        \* Conn -> is the socket closed
    connectionMap,     \* Client -> the connection that owns the client
    callbacksMap,      \* Client -> the connection whose callbacks are called
    clientsMap,        \* Client -> the connection whose Start made the client
    gauge,             \* connectedClientsGauge
    worker             \* Worker -> where Handle is

connVars == <<clock, connectionTime, pc, sender, released, connClosed>>
mapVars == <<connectionMap, callbacksMap, clientsMap, gauge>>
vars == <<connVars, mapVars, worker, fpVars>>

ConnPC == {"idle", "auth", "registered", "listening", "stopping",
           "stopAdapters", "closed"}
SenderPC == {"idle", "sending", "failed", "stopAdapters"}

WorkerState ==
    [at : {"idle"}] \cup [at : {"related"}, client : Client]
        \cup [at : {"loaded"}, target : Conn]

Init ==
    /\ clock = 0
    /\ connectionTime = [c \in Conn |-> 0]
    /\ pc = [c \in Conn |-> "idle"]
    /\ sender = [c \in Conn |-> "idle"]
    /\ released = [c \in Conn |-> FALSE]
    /\ connClosed = [c \in Conn |-> FALSE]
    /\ connectionMap = [i \in Client |-> NoConn]
    /\ callbacksMap = [i \in Client |-> NoConn]
    /\ clientsMap = [i \in Client |-> NoConn]
    /\ gauge = 0
    /\ worker = [w \in Worker |-> [at |-> "idle"]]
    /\ FPInit

-----------------------------------------------------------------------------
(* A connection's goroutine.                                               *)

Goto(c, from, to) ==
    /\ pc[c] = from
    /\ pc' = [pc EXCEPT ![c] = to]

(* The middleware takes the connection time, then asks the authentication  *)
(* server, which may take any time.  Two readings of the clock can agree.  *)
AuthenticationServerMiddleware(c) ==
    /\ Goto(c, "idle", "auth")
    /\ clock' \in {clock, clock + 1}
    /\ connectionTime' = [connectionTime EXCEPT ![c] = clock']
    /\ UNCHANGED <<sender, released, connClosed, mapVars, worker, fpVars>>

AuthenticationFails(c) ==
    /\ Goto(c, "auth", "closed")
    /\ connClosed' = [connClosed EXCEPT ![c] = TRUE]
    /\ UNCHANGED <<clock, connectionTime, sender, released, mapVars, worker,
                   fpVars>>

(* newSynchronizer makes the outgoing pool and registers the callbacks,    *)
(* whatever connection the client has.                                     *)
RegisterCallbacks(c) ==
    callbacksMap' = [callbacksMap EXCEPT ![ClientOf[c]] = c]

NewSynchronizerServer(c) ==
    /\ Goto(c, "auth", "registered")
    /\ RegisterCallbacks(c)
    /\ UNCHANGED <<clock, connectionTime, sender, released, connClosed,
                   connectionMap, clientsMap, gauge, worker, fpVars>>

(* Mutant: the comparison of the connection times is swapped.              *)
NewerExistsSwapped(c) ==
    LET existing == connectionMap[ClientOf[c]]
    IN  /\ existing \notin {NoConn, c}
        /\ connectionTime[existing] < connectionTime[c]

(* A different connection of the same client is registered and is newer.   *)
NewerExists(c) ==
    LET existing == connectionMap[ClientOf[c]]
    IN  /\ existing \notin {NoConn, c}
        /\ connectionTime[existing] > connectionTime[c]

(* Mutant: the gauge is incremented for a client that is replaced, too.    *)
StartAlwaysInc(c) ==
    LET id == ClientOf[c]
    IN  /\ ~ NewerExists(c)
        /\ connectionMap' = [connectionMap EXCEPT ![id] = c]
        /\ IF WithFeatures THEN RegisterAccount(c, AccountOf[id], KeyOf[c])
                           ELSE UNCHANGED fpVars
        /\ gauge' = gauge + 1
        /\ clientsMap' = [clientsMap EXCEPT ![id] = c]
        /\ Goto(c, "registered",
                IF callbacksMap[id] = NoConn THEN "stopping" ELSE "listening")
        /\ UNCHANGED <<clock, connectionTime, sender, released, connClosed,
                       callbacksMap, worker>>

Start(c) ==
    LET id == ClientOf[c]
    IN  /\ ~ NewerExists(c)
        /\ connectionMap' = [connectionMap EXCEPT ![id] = c]
        /\ IF WithFeatures THEN RegisterAccount(c, AccountOf[id], KeyOf[c])
                           ELSE UNCHANGED fpVars
        /\ gauge' = IF clientsMap[id] = NoConn THEN gauge + 1 ELSE gauge
        /\ clientsMap' = [clientsMap EXCEPT ![id] = c]
        /\ Goto(c, "registered",
                IF callbacksMap[id] = NoConn THEN "stopping" ELSE "listening")
        /\ UNCHANGED <<clock, connectionTime, sender, released, connClosed,
                       callbacksMap, worker>>

StartRefused(c) ==
    /\ Goto(c, "registered", "stopping")
    /\ NewerExists(c)
    /\ UNCHANGED <<clock, connectionTime, sender, released, connClosed,
                   mapVars, worker, fpVars>>

(* The read loop of a server gives up on the first read error.             *)
ReadFails(c) ==
    /\ Goto(c, "listening", "stopping")
    /\ connClosed' = [connClosed EXCEPT ![c] = TRUE]
    /\ UNCHANGED <<clock, connectionTime, sender, released, mapVars, worker,
                   fpVars>>

-----------------------------------------------------------------------------
(* Stop of the adapter, with the mutex held.                               *)

(* Mutant: other clusters of the account are not looked for.               *)
NoOtherConnection(map, a) == FALSE

HasOtherConnection(map, a) ==
    \E i \in Client : map[i] # NoConn /\ AccountOf[i] = a

(* Mutant: the gauge is decremented whether a client was there or not.     *)
RemoveClientAlwaysDec(c) ==
    LET id == ClientOf[c]
    IN  /\ connectionMap' = [connectionMap EXCEPT ![id] = NoConn]
        /\ callbacksMap' = [callbacksMap EXCEPT ![id] = NoConn]
        /\ gauge' = gauge - 1
        /\ clientsMap' = [clientsMap EXCEPT ![id] = NoConn]
        /\ IF WithFeatures /\ ~ HasOtherConnection(connectionMap', AccountOf[id])
           THEN UnregisterAccount(AccountOf[id])
           ELSE UNCHANGED fpVars

(* Mutant: the callbacks stay registered.                                  *)
RemoveClientKeepsCallbacks(c) ==
    LET id == ClientOf[c]
    IN  /\ connectionMap' = [connectionMap EXCEPT ![id] = NoConn]
        /\ gauge' = IF clientsMap[id] = NoConn THEN gauge ELSE gauge - 1
        /\ clientsMap' = [clientsMap EXCEPT ![id] = NoConn]
        /\ UNCHANGED callbacksMap
        /\ IF WithFeatures /\ ~ HasOtherConnection(connectionMap', AccountOf[id])
           THEN UnregisterAccount(AccountOf[id])
           ELSE UNCHANGED fpVars

(* Mutant: the client stays in clientsMap.                                 *)
RemoveClientKeepsClient(c) ==
    LET id == ClientOf[c]
    IN  /\ connectionMap' = [connectionMap EXCEPT ![id] = NoConn]
        /\ callbacksMap' = [callbacksMap EXCEPT ![id] = NoConn]
        /\ UNCHANGED <<clientsMap, gauge>>
        /\ IF WithFeatures /\ ~ HasOtherConnection(connectionMap', AccountOf[id])
           THEN UnregisterAccount(AccountOf[id])
           ELSE UNCHANGED fpVars

RemoveClient(c) ==
    LET id == ClientOf[c]
    IN  /\ connectionMap' = [connectionMap EXCEPT ![id] = NoConn]
        /\ callbacksMap' = [callbacksMap EXCEPT ![id] = NoConn]
        /\ gauge' = IF clientsMap[id] = NoConn THEN gauge ELSE gauge - 1
        /\ clientsMap' = [clientsMap EXCEPT ![id] = NoConn]
        /\ IF WithFeatures /\ ~ HasOtherConnection(connectionMap', AccountOf[id])
           THEN UnregisterAccount(AccountOf[id])
           ELSE UNCHANGED fpVars

(* Mutant: Stop does not look at the connection that is registered.        *)
AdapterStopAnyway(c) == RemoveClient(c)

AdapterStop(c) ==
    \/ /\ NewerExists(c)
       /\ UNCHANGED <<mapVars, fpVars>>
    \/ /\ ~ NewerExists(c)
       /\ RemoveClient(c)

(* Stop of the Synchronizer releases the pools, then stops the adapter: by *)
(* the connection's goroutine, and by the outgoing worker after a failure. *)
StopMain(c) ==
    /\ Goto(c, "stopping", "stopAdapters")
    /\ released' = [released EXCEPT ![c] = TRUE]
    /\ UNCHANGED <<clock, connectionTime, sender, connClosed, mapVars, worker,
                   fpVars>>

StopAdaptersMain(c) ==
    /\ Goto(c, "stopAdapters", "closed")
    /\ AdapterStop(c)
    /\ connClosed' = [connClosed EXCEPT ![c] = TRUE]
    /\ UNCHANGED <<clock, connectionTime, sender, released, worker>>

-----------------------------------------------------------------------------
(* The outgoing worker of a connection's Synchronizer.                     *)

SenderGoto(c, from, to) ==
    /\ sender[c] = from
    /\ sender' = [sender EXCEPT ![c] = to]

SendData(c) ==
    /\ SenderGoto(c, "sending", "idle")
    /\ ~ connClosed[c]
    /\ UNCHANGED <<clock, connectionTime, pc, released, connClosed, mapVars,
                   worker, fpVars>>

SendDataFails(c) ==
    /\ SenderGoto(c, "sending", "failed")
    /\ connClosed' = [connClosed EXCEPT ![c] = TRUE]
    /\ UNCHANGED <<clock, connectionTime, pc, released, mapVars, worker,
                   fpVars>>

StopSender(c) ==
    /\ SenderGoto(c, "failed", "stopAdapters")
    /\ released' = [released EXCEPT ![c] = TRUE]
    /\ UNCHANGED <<clock, connectionTime, pc, connClosed, mapVars, worker,
                   fpVars>>

StopAdaptersSender(c) ==
    /\ SenderGoto(c, "stopAdapters", "idle")
    /\ AdapterStop(c)
    /\ UNCHANGED <<clock, connectionTime, pc, released, connClosed, worker>>

-----------------------------------------------------------------------------
(* Handle of the message-queue workers, for a message to client i.         *)

IsRelated(i) == callbacksMap[i] # NoConn /\ clientsMap[i] # NoConn

WorkerGoto(w, s) == worker' = [worker EXCEPT ![w] = s]

HandleRelated(w, i) ==
    /\ worker[w].at = "idle"
    /\ IsRelated(i)
    /\ WorkerGoto(w, [at |-> "related", client |-> i])
    /\ UNCHANGED <<connVars, mapVars, fpVars>>

(* The callbacks may be gone since IsRelated: the message is dropped.      *)
HandleCallbacks(w) ==
    /\ worker[w].at = "related"
    /\ LET target == callbacksMap[worker[w].client]
       IN  WorkerGoto(w, IF target = NoConn THEN [at |-> "idle"]
                         ELSE [at |-> "loaded", target |-> target])
    /\ UNCHANGED <<connVars, mapVars, fpVars>>

(* The callback hands the message to outPool, which has one worker and     *)
(* refuses messages once it is released.                                   *)
HandleInvoke(w) ==
    /\ worker[w].at = "loaded"
    /\ LET c == worker[w].target
       IN  \/ /\ released[c]
              /\ UNCHANGED sender
           \/ /\ ~ released[c]
              /\ SenderGoto(c, "idle", "sending")
    /\ WorkerGoto(w, [at |-> "idle"])
    /\ UNCHANGED <<clock, connectionTime, pc, released, connClosed, mapVars,
                   fpVars>>

-----------------------------------------------------------------------------

ConnStep(c) ==
    \/ AuthenticationFails(c) \/ NewSynchronizerServer(c)
    \/ Start(c) \/ StartRefused(c)
    \/ StopMain(c) \/ StopAdaptersMain(c)

SenderStep(c) ==
    \/ SendData(c) \/ SendDataFails(c)
    \/ StopSender(c) \/ StopAdaptersSender(c)

WorkerStep(w) ==
    \/ \E i \in Client : HandleRelated(w, i)
    \/ HandleCallbacks(w) \/ HandleInvoke(w)

FeaturesStep ==
    /\ FPNext
    /\ UNCHANGED <<connVars, mapVars, worker>>

Next ==
    \/ \E c \in Conn : AuthenticationServerMiddleware(c) \/ ReadFails(c)
    \/ \E c \in Conn : ConnStep(c) \/ SenderStep(c)
    \/ \E w \in Worker : WorkerStep(w)
    \/ FeaturesStep

Spec == Init /\ [][Next]_vars

(* Every goroutine keeps running.  A read fails when the socket is closed; *)
(* a write ends, one way or the other.                                     *)
Fairness ==
    /\ \A c \in Conn : /\ WF_vars(ConnStep(c))
                       /\ WF_vars(SenderStep(c))
                       /\ WF_vars(connClosed[c] /\ ReadFails(c))
    /\ \A w \in Worker : WF_vars(HandleCallbacks(w) \/ HandleInvoke(w))

FairSpec == Spec /\ Fairness

-----------------------------------------------------------------------------
(* The value of every variable; the gauge is never negative                *)
(* (connectedClientsGauge.Dec in Stop).                                    *)
TypeOK ==
    /\ clock \in Nat
    /\ connectionTime \in [Conn -> Nat]
    /\ pc \in [Conn -> ConnPC]
    /\ sender \in [Conn -> SenderPC]
    /\ released \in [Conn -> BOOLEAN]
    /\ connClosed \in [Conn -> BOOLEAN]
    /\ connectionMap \in [Client -> Conn \cup {NoConn}]
    /\ callbacksMap \in [Client -> Conn \cup {NoConn}]
    /\ clientsMap \in [Client -> Conn \cup {NoConn}]
    /\ gauge \in Nat
    /\ worker \in [Worker -> WorkerState]
    /\ FPTypeOK

Connected == {i \in Client : clientsMap[i] # NoConn}

(* The connected-clients gauge counts the clients in clientsMap, through   *)
(* replaced connections, refused connections and connections that are      *)
(* stopped twice (Start and Stop of the adapter).                          *)
GaugeExact == gauge = Cardinality(Connected)

(* connectionMap and clientsMap agree, so the reconciliation task always   *)
(* finds the client it "expected to find" for a registered connection.     *)
MapsAgree == connectionMap = clientsMap

(* Once no connection of a client is between newSynchronizer and the end   *)
(* of Stop, nothing of the client is left in any map: a refused or doubly  *)
(* stopped connection leaks no callbacks, although Stop returns early when *)
(* a newer connection is registered.                                       *)
Open(c) == pc[c] \in {"registered", "listening", "stopping", "stopAdapters"}

NoResidue ==
    \A i \in Client :
        (\A c \in Conn : ClientOf[c] = i => ~ Open(c)) =>
            /\ connectionMap[i] = NoConn
            /\ callbacksMap[i] = NoConn
            /\ clientsMap[i] = NoConn

Rivals(c) == {d \in Conn \ {c} : ClientOf[d] = ClientOf[c] /\ pc[d] # "idle"}

(* A connection that listens on an open socket and is newer than all the   *)
(* others its client ever had.                                             *)
NewestListening(c) ==
    /\ pc[c] = "listening"
    /\ ~ connClosed[c]
    /\ \A d \in Rivals(c) : connectionTime[d] < connectionTime[c]

(* The newest connection of a client keeps the client: no late Start and   *)
(* no first or second Stop of an older one takes the client away from it.  *)
NewestRegistered ==
    \A c \in Conn : NewestListening(c) => connectionMap[ClientOf[c]] = c

(* A client is never handed back to an older connection while it has one   *)
(* (Start refuses when "a newer connection exist").                        *)
NeverOlder ==
    [][\A i \in Client :
          connectionMap[i] # NoConn /\ connectionMap'[i] # NoConn =>
              connectionTime[connectionMap[i]] <= connectionTime'[connectionMap'[i]]]_vars

(* What an observer of the sockets knows of a connection.                  *)
Phase ==
    [c \in Conn |->
        IF pc[c] = "idle" THEN "absent"
        ELSE IF connClosed[c] \/ pc[c] \in {"stopping", "stopAdapters", "closed"}
             THEN "gone" ELSE "present"]

Contract == INSTANCE Ownership
            WITH owner <- connectionMap, time <- connectionTime, phase <- Phase

(* The registry implements Ownership: a client passes to connections that  *)
(* are not older, and a connection loses it only when it is gone or when a *)
(* connection at least as new has come, although Stop is called by two     *)
(* goroutines of every connection and in any order with Start.             *)
OwnershipKept == Contract!Spec

(* The features of an account stay registered as long as one of its        *)
(* clusters is connected: Stop of one cluster does not unregister the      *)
(* account of another.                                                     *)
AccountCached ==
    WithFeatures =>
        \A i \in Client :
            connectionMap[i] # NoConn => cache[AccountOf[i]] # NoEntry

(* After its socket is closed, a connection is stopped and gone from the   *)
(* registry for good, whoever noticed first.                               *)
ClosedIsStopped ==
    \A c \in Conn :
        connClosed[c] ~> [](/\ pc[c] = "closed"
                            /\ sender[c] = "idle"
                            /\ connectionMap[ClientOf[c]] # c)

-----------------------------------------------------------------------------
(* adapter.go:131, "if the existing connection is newer than the incoming  *)
(* one, we don't start the synchronization": once an older connection was  *)
(* refused and is gone, messages for the client go to the newest one.      *)
(* Violated: the refused connection registered its callbacks before Start. *)
NewestReachable ==
    \A c \in Conn :
        /\ NewestListening(c)
        /\ \A d \in Rivals(c) : pc[d] = "closed" /\ sender[d] = "idle"
        => callbacksMap[ClientOf[c]] = c

(* adapter.go:205, "unregister account from features provider if no other  *)
(* connections share it": with no connection and no refresh under way the  *)
(* account has no entry.  Violated: a refresh that was under way stores    *)
(* its answer after UnregisterAccount.                                     *)
AccountForgotten ==
    WithFeatures /\ refreshing = {} =>
        \A a \in Account :
            ~ HasOtherConnection(connectionMap, a) => cache[a] = NoEntry
=============================================================================
