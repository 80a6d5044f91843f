------------------------ MODULE BackendAdapterProofs ------------------------
(***************************************************************************)
(* Proofs about the connection registry, for any set of connections, any   *)
(* finite set of clients and any number of queue workers: its invariants,  *)
(* that it implements Ownership, and that both hold beside the periodic    *)
(* tasks of ConnectedClients.                                              *)
(***************************************************************************)
EXTENDS ConnectedClients, FiniteSetTheorems, TLAPS

(* Time for slow machines.                                                 *)
USE SMTT(30), ZenonT(30)

(* The owner of a client belongs to it and has not finished Stop.          *)
OwnerOpen ==
    \A i \in Client : connectionMap[i] # NoConn =>
        /\ ClientOf[connectionMap[i]] = i
        /\ pc[connectionMap[i]] \in {"listening", "stopping", "stopAdapters"}

(* Registered callbacks are backed by an open connection of the client,    *)
(* not always by the one that registered them.                             *)
CallbacksOpen ==
    \A i \in Client : callbacksMap[i] # NoConn =>
        \E c \in Conn : ClientOf[c] = i /\ Open(c)

(* Callbacks, workers and senders only know connections that exist.        *)
Arrived ==
    /\ \A i \in Client : callbacksMap[i] # NoConn => pc[callbacksMap[i]] # "idle"
    /\ \A w \in Worker : worker[w].at = "loaded" => pc[worker[w].target] # "idle"
    /\ \A c \in Conn : sender[c] # "idle" => pc[c] # "idle"

(* A sender that gives up has closed the socket; times are in the past.    *)
SenderClosed ==
    \A c \in Conn : sender[c] \in {"failed", "stopAdapters"} => connClosed[c]

TimePast == \A c \in Conn : connectionTime[c] <= clock

Inv ==
    /\ TypeOK /\ GaugeExact /\ MapsAgree
    /\ OwnerOpen /\ CallbacksOpen /\ Arrived /\ SenderClosed /\ TimePast
    /\ NewestRegistered /\ AccountCached
-----------------------------------------------------------------------------
(* The clients with an entry are finitely many, as the clients are.        *)
LEMMA ConnectedFinite == IsFiniteSet(Connected)
  BY ClientFinite, FS_Subset DEF Connected

(* So are those of the next state.                                         *)
LEMMA ConnectedFiniteNext == IsFiniteSet(Connected')
  BY ClientFinite, FS_Subset DEF Connected

(* The cardinality of the connected clients when one client gets, or       *)
(* loses, its entry in clientsMap (Start and Stop of the adapter).         *)
LEMMA GaugeSet ==
    ASSUME TypeOK, GaugeExact, NEW i \in Client, NEW c \in Conn,
           clientsMap' = [clientsMap EXCEPT ![i] = c],
           gauge' = IF clientsMap[i] = NoConn THEN gauge + 1 ELSE gauge
    PROVE  GaugeExact' /\ gauge' \in Nat
  <1>1. Connected' = Connected \cup {i}
    BY ConnAssumption DEF Connected, TypeOK
  <1>2. i \in Connected <=> clientsMap[i] # NoConn
    BY DEF Connected
  <1>3. /\ Cardinality(Connected) \in Nat
        /\ Cardinality(Connected \cup {i}) =
              IF i \in Connected THEN Cardinality(Connected)
                                 ELSE Cardinality(Connected) + 1
    BY ConnectedFinite, FS_AddElement, FS_CardinalityType
  <1> QED
    BY <1>1, <1>2, <1>3 DEF GaugeExact

(* An entry that is removed is one entry less.                             *)
LEMMA GaugeUnset ==
    ASSUME TypeOK, GaugeExact, NEW i \in Client,
           clientsMap' = [clientsMap EXCEPT ![i] = NoConn],
           gauge' = IF clientsMap[i] = NoConn THEN gauge ELSE gauge - 1
    PROVE  GaugeExact' /\ gauge' \in Nat
  <1>1. Connected' = Connected \ {i}
    BY ConnAssumption DEF Connected, TypeOK
  <1>2. i \in Connected <=> clientsMap[i] # NoConn
    BY DEF Connected
  <1>3. /\ Cardinality(Connected) \in Nat
        /\ Cardinality(Connected \ {i}) \in Nat
        /\ Cardinality(Connected \ {i}) =
              IF i \in Connected THEN Cardinality(Connected) - 1
                                 ELSE Cardinality(Connected)
    BY ConnectedFinite, FS_RemoveElement, FS_CardinalityType
  <1> QED
    BY <1>1, <1>2, <1>3 DEF GaugeExact

(* As many entries as before when clientsMap does not change.              *)
LEMMA GaugeKept ==
    ASSUME TypeOK, GaugeExact, UNCHANGED <<clientsMap, gauge>>
    PROVE  GaugeExact' /\ gauge' \in Nat
  BY DEF GaugeExact, Connected, TypeOK

(* A server without connections satisfies the invariant.                   *)
LEMMA InitInv == Init => Inv
  <1> SUFFICES ASSUME Init PROVE Inv
    OBVIOUS
  <1> USE ConnAssumption DEF Init, FPInit
  <1>1. TypeOK
    BY DEF TypeOK, ConnPC, SenderPC, WorkerState, FPTypeOK
  <1>2. GaugeExact
    <2>1. Connected = {}
      BY DEF Connected
    <2> QED
      BY <2>1, FS_EmptySet DEF GaugeExact
  <1>3. MapsAgree /\ OwnerOpen /\ CallbacksOpen /\ SenderClosed /\ TimePast
    BY DEF MapsAgree, OwnerOpen, CallbacksOpen, SenderClosed, TimePast
  <1>4. Arrived
    BY DEF Arrived
  <1>5. NewestRegistered /\ AccountCached
    BY DEF NewestRegistered, NewestListening, AccountCached
  <1> QED
    BY <1>1, <1>2, <1>3, <1>4, <1>5 DEF Inv

(* A connection that takes its connection time is in no map yet.           *)
LEMMA AuthenticationServerMiddlewareStep == ASSUME Inv, NEW c \in Conn, AuthenticationServerMiddleware(c) PROVE Inv'
  <1> USE ConnAssumption DEF Inv, AuthenticationServerMiddleware, Goto
  <1>1. TypeOK' /\ GaugeExact'
    BY GaugeKept DEF TypeOK, ConnPC, SenderPC, WorkerState, mapVars, fpVars, FPTypeOK
  <1>2. MapsAgree' /\ OwnerOpen' /\ CallbacksOpen'
    BY DEF TypeOK, MapsAgree, OwnerOpen, CallbacksOpen, Open, mapVars, ConnPC
  <1>3. Arrived' /\ SenderClosed' /\ TimePast'
    BY DEF TypeOK, Arrived, SenderClosed, TimePast, mapVars
  <1>4. NewestRegistered'
    BY Zenon DEF TypeOK, NewestRegistered, NewestListening, Rivals, TimePast, mapVars
  <1>5. AccountCached'
    BY DEF AccountCached, mapVars, fpVars
  <1> QED
    BY Zenon, <1>1, <1>2, <1>3, <1>4, <1>5

(* A connection that is turned away was in no map.                         *)
LEMMA AuthenticationFailsStep == ASSUME Inv, NEW c \in Conn, AuthenticationFails(c) PROVE Inv'
  <1> USE ConnAssumption DEF Inv, AuthenticationFails, Goto
  <1>1. TypeOK' /\ GaugeExact'
    BY Zenon, GaugeKept DEF TypeOK, ConnPC, SenderPC, WorkerState, mapVars, fpVars, FPTypeOK
  <1>2. MapsAgree' /\ OwnerOpen' /\ CallbacksOpen'
    BY DEF TypeOK, MapsAgree, OwnerOpen, CallbacksOpen, Open, mapVars, ConnPC
  <1>3. Arrived' /\ SenderClosed' /\ TimePast'
    BY DEF TypeOK, Arrived, SenderClosed, TimePast, mapVars
  <1>4. NewestRegistered'
    BY Zenon DEF TypeOK, NewestRegistered, NewestListening, Rivals, TimePast, mapVars
  <1>5. AccountCached'
    BY DEF AccountCached, mapVars, fpVars
  <1> QED
    BY Zenon, <1>1, <1>2, <1>3, <1>4, <1>5

(* Registering callbacks leaves an owner that is not closed.               *)
LEMMA NewSynchronizerServerStep == ASSUME Inv, NEW c \in Conn, NewSynchronizerServer(c) PROVE Inv'
  <1> USE ConnAssumption DEF Inv, NewSynchronizerServer, Goto, RegisterCallbacks
  <1>1. TypeOK' /\ GaugeExact'
    BY Zenon, GaugeKept DEF TypeOK, ConnPC, SenderPC, WorkerState, mapVars, fpVars, FPTypeOK
  <1>2. MapsAgree' /\ OwnerOpen' /\ CallbacksOpen'
    BY DEF TypeOK, MapsAgree, OwnerOpen, CallbacksOpen, Open, mapVars, ConnPC
  <1>3. Arrived' /\ SenderClosed' /\ TimePast'
    BY DEF TypeOK, Arrived, SenderClosed, TimePast, mapVars
  <1>4. NewestRegistered'
    BY Zenon DEF TypeOK, NewestRegistered, NewestListening, Rivals, TimePast, mapVars
  <1>5. AccountCached'
    BY Zenon DEF AccountCached, mapVars, fpVars
  <1> QED
    BY <1>1, <1>2, <1>3, <1>4, <1>5

(* A refused connection goes on to its Stop.                               *)
LEMMA StartRefusedStep == ASSUME Inv, NEW c \in Conn, StartRefused(c) PROVE Inv'
  <1> USE ConnAssumption DEF Inv, StartRefused, Goto
  <1>1. TypeOK' /\ GaugeExact'
    BY Zenon, GaugeKept DEF TypeOK, ConnPC, SenderPC, WorkerState, mapVars, fpVars, FPTypeOK
  <1>2. MapsAgree' /\ OwnerOpen' /\ CallbacksOpen'
    BY DEF TypeOK, MapsAgree, OwnerOpen, CallbacksOpen, Open, mapVars, ConnPC
  <1>3. Arrived' /\ SenderClosed' /\ TimePast'
    BY DEF TypeOK, Arrived, SenderClosed, TimePast, mapVars
  <1>4. NewestRegistered'
    BY Zenon DEF TypeOK, NewestRegistered, NewestListening, Rivals, TimePast, mapVars
  <1>5. AccountCached'
    BY Zenon DEF AccountCached, mapVars, fpVars
  <1> QED
    BY Zenon, <1>1, <1>2, <1>3, <1>4, <1>5

(* A connection that cannot be read goes on to its Stop.                   *)
LEMMA ReadFailsStep == ASSUME Inv, NEW c \in Conn, ReadFails(c) PROVE Inv'
  <1> USE ConnAssumption DEF Inv, ReadFails, Goto
  <1>1. TypeOK' /\ GaugeExact'
    BY Zenon, GaugeKept DEF TypeOK, ConnPC, SenderPC, WorkerState, mapVars, fpVars, FPTypeOK
  <1>2. MapsAgree' /\ OwnerOpen' /\ CallbacksOpen'
    BY DEF TypeOK, MapsAgree, OwnerOpen, CallbacksOpen, Open, mapVars, ConnPC
  <1>3. Arrived' /\ SenderClosed' /\ TimePast'
    BY DEF TypeOK, Arrived, SenderClosed, TimePast, mapVars
  <1>4. NewestRegistered'
    BY Zenon DEF TypeOK, NewestRegistered, NewestListening, Rivals, TimePast, mapVars
  <1>5. AccountCached'
    BY Zenon DEF AccountCached, mapVars, fpVars
  <1> QED
    BY Zenon, <1>1, <1>2, <1>3, <1>4, <1>5

(* Releasing the pools changes no map.                                     *)
LEMMA StopMainStep == ASSUME Inv, NEW c \in Conn, StopMain(c) PROVE Inv'
  <1> USE ConnAssumption DEF Inv, StopMain, Goto
  <1>1. TypeOK' /\ GaugeExact'
    BY Zenon, GaugeKept DEF TypeOK, ConnPC, SenderPC, WorkerState, mapVars, fpVars, FPTypeOK
  <1>2. MapsAgree' /\ OwnerOpen' /\ CallbacksOpen'
    BY DEF TypeOK, MapsAgree, OwnerOpen, CallbacksOpen, Open, mapVars, ConnPC
  <1>3. Arrived' /\ SenderClosed' /\ TimePast'
    BY DEF TypeOK, Arrived, SenderClosed, TimePast, mapVars
  <1>4. NewestRegistered'
    BY Zenon DEF TypeOK, NewestRegistered, NewestListening, Rivals, TimePast, mapVars
  <1>5. AccountCached'
    BY Zenon DEF AccountCached, mapVars, fpVars
  <1> QED
    BY Zenon, <1>1, <1>2, <1>3, <1>4, <1>5

(* Sending changes no map.                                                 *)
LEMMA SendDataStep == ASSUME Inv, NEW c \in Conn, SendData(c) PROVE Inv'
  <1> USE ConnAssumption DEF Inv, SendData, SenderGoto
  <1>1. TypeOK' /\ GaugeExact'
    BY Zenon, GaugeKept DEF TypeOK, ConnPC, SenderPC, WorkerState, mapVars, fpVars, FPTypeOK
  <1>2. MapsAgree' /\ OwnerOpen' /\ CallbacksOpen'
    BY Zenon DEF TypeOK, MapsAgree, OwnerOpen, CallbacksOpen, Open, mapVars, ConnPC
  <1>3. Arrived' /\ SenderClosed' /\ TimePast'
    BY Zenon DEF TypeOK, Arrived, SenderClosed, TimePast, mapVars
  <1>4. NewestRegistered'
    BY Zenon DEF TypeOK, NewestRegistered, NewestListening, Rivals, TimePast, mapVars
  <1>5. AccountCached'
    BY Zenon DEF AccountCached, mapVars, fpVars
  <1> QED
    BY Zenon, <1>1, <1>2, <1>3, <1>4, <1>5

(* A failed write closes the connection, no entry.                         *)
LEMMA SendDataFailsStep == ASSUME Inv, NEW c \in Conn, SendDataFails(c) PROVE Inv'
  <1> USE ConnAssumption DEF Inv, SendDataFails, SenderGoto
  <1>1. TypeOK' /\ GaugeExact'
    BY Zenon, GaugeKept DEF TypeOK, ConnPC, SenderPC, WorkerState, mapVars, fpVars, FPTypeOK
  <1>2. MapsAgree' /\ OwnerOpen' /\ CallbacksOpen'
    BY Zenon DEF TypeOK, MapsAgree, OwnerOpen, CallbacksOpen, Open, mapVars, ConnPC
  <1>3. Arrived' /\ SenderClosed' /\ TimePast'
    BY Zenon DEF TypeOK, Arrived, SenderClosed, TimePast, mapVars
  <1>4. NewestRegistered'
    BY Zenon DEF TypeOK, NewestRegistered, NewestListening, Rivals, TimePast, mapVars
  <1>5. AccountCached'
    BY Zenon DEF AccountCached, mapVars, fpVars
  <1> QED
    BY Zenon, <1>1, <1>2, <1>3, <1>4, <1>5

(* Releasing the pools changes no map, from the outgoing worker either.    *)
LEMMA StopSenderStep == ASSUME Inv, NEW c \in Conn, StopSender(c) PROVE Inv'
  <1> USE ConnAssumption DEF Inv, StopSender, SenderGoto
  <1>1. TypeOK' /\ GaugeExact'
    BY Zenon, GaugeKept DEF TypeOK, ConnPC, SenderPC, WorkerState, mapVars, fpVars, FPTypeOK
  <1>2. MapsAgree' /\ OwnerOpen' /\ CallbacksOpen'
    BY Zenon DEF TypeOK, MapsAgree, OwnerOpen, CallbacksOpen, Open, mapVars, ConnPC
  <1>3. Arrived' /\ SenderClosed' /\ TimePast'
    BY Zenon DEF TypeOK, Arrived, SenderClosed, TimePast, mapVars
  <1>4. NewestRegistered'
    BY Zenon DEF TypeOK, NewestRegistered, NewestListening, Rivals, TimePast, mapVars
  <1>5. AccountCached'
    BY Zenon DEF AccountCached, mapVars, fpVars
  <1> QED
    BY Zenon, <1>1, <1>2, <1>3, <1>4, <1>5

(* The consumer only reads the maps: IsRelated.                            *)
LEMMA HandleRelatedStep == ASSUME Inv, NEW w \in Worker, NEW i \in Client, HandleRelated(w, i) PROVE Inv'
  <1> USE ConnAssumption DEF Inv, HandleRelated, WorkerGoto, connVars, mapVars, fpVars
  <1>1. TypeOK' /\ GaugeExact'
    BY Zenon, GaugeKept DEF TypeOK, SenderPC, SenderGoto, WorkerState, FPTypeOK
  <1>2. MapsAgree' /\ OwnerOpen' /\ CallbacksOpen'
    BY Zenon DEF MapsAgree, OwnerOpen, CallbacksOpen, Open
  <1>3. Arrived' /\ SenderClosed' /\ TimePast'
    BY DEF TypeOK, WorkerState, SenderGoto, Arrived, SenderClosed, TimePast
  <1>4. NewestRegistered' /\ AccountCached'
    BY Zenon DEF NewestRegistered, NewestListening, Rivals, AccountCached
  <1> QED
    BY Zenon, <1>1, <1>2, <1>3, <1>4

(* The consumer only reads the maps: Callbacks.                            *)
LEMMA HandleCallbacksStep == ASSUME Inv, NEW w \in Worker, HandleCallbacks(w) PROVE Inv'
  <1> USE ConnAssumption DEF Inv, HandleCallbacks, WorkerGoto, connVars, mapVars, fpVars
  <1>1. TypeOK' /\ GaugeExact'
    BY Zenon, GaugeKept DEF TypeOK, SenderPC, SenderGoto, WorkerState, FPTypeOK
  <1>2. MapsAgree' /\ OwnerOpen' /\ CallbacksOpen'
    BY Zenon DEF MapsAgree, OwnerOpen, CallbacksOpen, Open
  <1>3. Arrived' /\ SenderClosed' /\ TimePast'
    BY Zenon DEF TypeOK, WorkerState, SenderGoto, Arrived, SenderClosed, TimePast
  <1>4. NewestRegistered' /\ AccountCached'
    BY Zenon DEF NewestRegistered, NewestListening, Rivals, AccountCached
  <1> QED
    BY Zenon, <1>1, <1>2, <1>3, <1>4

(* The consumer hands the message to a pool.                               *)
LEMMA HandleInvokeStep == ASSUME Inv, NEW w \in Worker, HandleInvoke(w) PROVE Inv'
  <1> USE ConnAssumption DEF Inv, HandleInvoke, WorkerGoto, connVars, mapVars, fpVars
  <1>1. TypeOK' /\ GaugeExact'
    BY Zenon, GaugeKept DEF TypeOK, SenderPC, SenderGoto, WorkerState, FPTypeOK
  <1>2. MapsAgree' /\ OwnerOpen' /\ CallbacksOpen'
    BY Zenon DEF MapsAgree, OwnerOpen, CallbacksOpen, Open
  <1>3. Arrived' /\ SenderClosed' /\ TimePast'
    BY Zenon DEF TypeOK, WorkerState, SenderGoto, Arrived, SenderClosed, TimePast
  <1>4. NewestRegistered' /\ AccountCached'
    BY DEF NewestRegistered, NewestListening, Rivals, AccountCached
  <1> QED
    BY Zenon, <1>1, <1>2, <1>3, <1>4

(* A stored entry is an entry, and not the absence of one.                 *)
LEMMA EntryIsSet ==
    ASSUME NEW k \in AccessKey, NEW f \in Features
    PROVE  /\ [accessKey |-> k, features |-> f] \in cachedAccount
           /\ [accessKey |-> k, features |-> f] # NoEntry
  BY NoEntryAssumption DEF cachedAccount, Features

(* A refresh adds entries to the cache and removes none.                   *)
LEMMA FeaturesStepStep == ASSUME Inv, FeaturesStep PROVE Inv'
  <1> USE ConnAssumption DEF Inv, FeaturesStep, connVars, mapVars
  <1>1. FPTypeOK' /\ \A a \in Account : cache[a] # NoEntry => cache'[a] # NoEntry
    <2>1. CASE \E a \in Account : StartRefreshLoop(a)
      <3>1. PICK a \in Account : StartRefreshLoop(a)
        BY Zenon, <2>1
      <3>2. cache[a].accessKey \in AccessKey
        BY Zenon, <3>1 DEF TypeOK, FPTypeOK, StartRefreshLoop, cachedAccount
      <3>3. [by |-> "loop", account |-> a, accessKey |-> cache[a].accessKey] \in Refresh
        BY Zenon, <3>2 DEF Refresh
      <3> QED
        BY Zenon, <3>1, <3>3 DEF TypeOK, FPTypeOK, StartRefreshLoop
    <2>2. CASE \E r \in refreshing : refreshAccount(r)
      <3>1. PICK r \in refreshing : refreshAccount(r)
        BY Zenon, <2>2
      <3>2. r.account \in Account /\ r.accessKey \in AccessKey
        BY Zenon DEF TypeOK, FPTypeOK, Refresh
      <3>3. PICK answer \in fetchFeatures :
              \/ answer = "error" /\ UNCHANGED cache
              \/ answer # "error" /\ cache' = [cache EXCEPT ![r.account] =
                     [accessKey |-> r.accessKey, features |-> answer]]
        BY Zenon, <3>1 DEF refreshAccount
      <3>4. refreshing' \subseteq refreshing
        BY Zenon, <3>1 DEF refreshAccount
      <3>5. CASE UNCHANGED cache
        BY Zenon, <3>4, <3>5 DEF TypeOK, FPTypeOK
      <3>6. CASE answer # "error" /\ cache' = [cache EXCEPT ![r.account] =
                     [accessKey |-> r.accessKey, features |-> answer]]
        <4>1. answer \in Features
          BY Zenon, <3>6 DEF fetchFeatures
        <4>2. /\ [accessKey |-> r.accessKey, features |-> answer] \in cachedAccount
              /\ [accessKey |-> r.accessKey, features |-> answer] # NoEntry
          BY Zenon, <3>2, <4>1, EntryIsSet
        <4> QED
          BY Zenon, <3>2, <3>4, <3>6, <4>2 DEF TypeOK, FPTypeOK
      <3> QED
        BY Zenon, <3>3, <3>5, <3>6
    <2> QED
      BY Zenon, <2>1, <2>2 DEF FPNext
  <1>2. TypeOK' /\ GaugeExact'
    BY Zenon, <1>1, GaugeKept DEF TypeOK
  <1>3. MapsAgree' /\ OwnerOpen' /\ CallbacksOpen'
    BY Zenon DEF MapsAgree, OwnerOpen, CallbacksOpen, Open
  <1>4. Arrived' /\ SenderClosed' /\ TimePast'
    BY Zenon DEF Arrived, SenderClosed, TimePast
  <1>5. NewestRegistered'
    BY Zenon DEF NewestRegistered, NewestListening, Rivals
  <1>6. AccountCached'
    BY Zenon, <1>1 DEF AccountCached, TypeOK
  <1> QED
    BY Zenon, <1>2, <1>3, <1>4, <1>5, <1>6

(* Start of the adapter: the incoming connection owns the client.          *)
LEMMA StartStep == ASSUME Inv, NEW c \in Conn, Start(c) PROVE Inv'
  <1> USE ConnAssumption DEF Inv, Start, Goto
  <1> DEFINE a == AccountOf[ClientOf[c]]
             entry == [accessKey |-> KeyOf[c], features |-> "nil"]
  <1>a. a \in Account /\ KeyOf[c] \in AccessKey /\ c \in Registrant
    OBVIOUS
  <1>b. entry \in cachedAccount /\ entry # NoEntry
    BY Zenon, <1>a, EntryIsSet DEF Features
  <1>c. [by |-> c, account |-> a, accessKey |-> KeyOf[c]] \in Refresh
    BY Zenon, <1>a DEF Refresh
  <1>1. FPTypeOK'
    BY <1>a, <1>b, <1>c DEF TypeOK, FPTypeOK, RegisterAccount, fpVars
  <1>2. GaugeExact' /\ gauge' \in Nat
    BY Zenon, GaugeSet
  <1>3. TypeOK'
    BY Zenon, <1>1, <1>2 DEF TypeOK, ConnPC
  <1>4. MapsAgree' /\ OwnerOpen' /\ CallbacksOpen'
    BY DEF TypeOK, MapsAgree, OwnerOpen, CallbacksOpen, Open
  <1>5. Arrived' /\ SenderClosed' /\ TimePast'
    BY DEF TypeOK, Arrived, SenderClosed, TimePast
  <1>6. NewestRegistered'
    BY Zenon DEF TypeOK, NewestRegistered, NewestListening, Rivals, NewerExists
  <1>7. AccountCached'
    <2>1. CASE ~ WithFeatures
      BY <2>1 DEF AccountCached
    <2>2. CASE WithFeatures
      <3>1. RegisterAccount(c, AccountOf[ClientOf[c]], KeyOf[c])
        BY <2>2
      <3>2. cache'[a] # NoEntry
        BY Zenon, <3>1, <1>a, <1>b
        DEF RegisterAccount, AlreadyFetched, fpVars, TypeOK, FPTypeOK
      <3>3. \A b \in Account : cache[b] # NoEntry => cache'[b] # NoEntry
        BY Zenon, <3>1, <3>2 DEF RegisterAccount, fpVars, TypeOK, FPTypeOK
      <3> QED
        BY Zenon, <3>2, <3>3 DEF AccountCached, TypeOK
    <2> QED
      BY Zenon, <2>1, <2>2
  <1> QED
    BY Zenon, <1>2, <1>3, <1>4, <1>5, <1>6, <1>7

(* What Stop of the adapter does to the invariant's conjuncts that speak   *)
(* of the maps only, for the goroutine and for the outgoing worker.        *)
LEMMA AdapterStopMaps ==
    ASSUME Inv, NEW c \in Conn, AdapterStop(c)
    PROVE  /\ GaugeExact' /\ gauge' \in Nat
           /\ MapsAgree'
           /\ AccountCached'
           /\ FPTypeOK'
           /\ \A i \in Client : connectionMap'[i] \in {connectionMap[i], NoConn}
           /\ \A i \in Client : callbacksMap'[i] \in {callbacksMap[i], NoConn}
           /\ connectionMap' \in [Client -> Conn \cup {NoConn}]
           /\ callbacksMap' \in [Client -> Conn \cup {NoConn}]
           /\ clientsMap' \in [Client -> Conn \cup {NoConn}]
  <1> USE ConnAssumption DEF Inv
  <1>1. CASE UNCHANGED <<mapVars, fpVars>>
    BY Zenon, <1>1, GaugeKept DEF mapVars, fpVars, MapsAgree, AccountCached, TypeOK, FPTypeOK
  <1>2. CASE RemoveClient(c)
    <2> USE <1>2 DEF RemoveClient
    <2>1. GaugeExact' /\ gauge' \in Nat
      BY Zenon, GaugeUnset
    <2>2. MapsAgree'
      BY Zenon DEF MapsAgree, TypeOK
    <2>3. FPTypeOK'
      BY Zenon DEF TypeOK, FPTypeOK, UnregisterAccount, fpVars
    <2>4. AccountCached'
      BY DEF AccountCached, HasOtherConnection, UnregisterAccount, fpVars, TypeOK, FPTypeOK
    <2> QED
      BY <2>1, <2>2, <2>3, <2>4 DEF TypeOK
  <1> QED
    BY Zenon, <1>1, <1>2 DEF AdapterStop

(* Stop of the adapter, from the goroutine of the connection.              *)
LEMMA StopAdaptersMainStep == ASSUME Inv, NEW c \in Conn, StopAdaptersMain(c) PROVE Inv'
  <1> USE ConnAssumption, AdapterStopMaps DEF Inv, StopAdaptersMain, Goto
  <1>1. TypeOK' /\ GaugeExact' /\ MapsAgree' /\ AccountCached'
    BY DEF TypeOK, ConnPC, SenderPC
  <1>2. OwnerOpen'
    BY DEF TypeOK, OwnerOpen, AdapterStop, RemoveClient, NewerExists, mapVars
  <1>3. CallbacksOpen'
    BY DEF TypeOK, CallbacksOpen, OwnerOpen, Open, AdapterStop, RemoveClient,
           NewerExists, mapVars
  <1>4. Arrived' /\ SenderClosed' /\ TimePast'
    BY DEF TypeOK, Arrived, SenderClosed, TimePast
  <1>5. NewestRegistered'
    <2> SUFFICES ASSUME NEW d \in Conn, NewestListening(d)'
                 PROVE  connectionMap'[ClientOf[d]] = d
      BY Zenon DEF NewestRegistered
    <2>1. NewestListening(d) /\ d # c
      BY DEF TypeOK, NewestListening, Rivals, SenderClosed
    <2>2. connectionMap[ClientOf[d]] = d
      BY Zenon, <2>1 DEF NewestRegistered
    <2>3. CASE ClientOf[c] # ClientOf[d]
      BY Zenon, <2>2, <2>3 DEF TypeOK, AdapterStop, RemoveClient, mapVars
    <2>4. CASE ClientOf[c] = ClientOf[d]
      <3>1. connectionTime[c] < connectionTime[d]
        BY Zenon, <2>1, <2>4 DEF NewestListening, Rivals, Arrived
      <3>2. NewerExists(c)
        BY Zenon, <2>1, <2>2, <2>4, <3>1 DEF NewerExists, TypeOK
      <3> QED
        BY Zenon, <2>2, <3>2 DEF AdapterStop, mapVars
    <2> QED
      BY Zenon, <2>3, <2>4
  <1> QED
    BY Zenon, <1>1, <1>2, <1>3, <1>4, <1>5

(* Stop of the adapter, from the outgoing worker.                          *)
LEMMA StopAdaptersSenderStep == ASSUME Inv, NEW c \in Conn, StopAdaptersSender(c) PROVE Inv'
  <1> USE ConnAssumption, AdapterStopMaps DEF Inv, StopAdaptersSender, SenderGoto
  <1>1. TypeOK' /\ GaugeExact' /\ MapsAgree' /\ AccountCached'
    BY DEF TypeOK, ConnPC, SenderPC
  <1>2. OwnerOpen'
    BY DEF TypeOK, OwnerOpen, AdapterStop, RemoveClient, NewerExists, mapVars
  <1>3. CallbacksOpen'
    BY DEF TypeOK, CallbacksOpen, OwnerOpen, Open, AdapterStop, RemoveClient,
           NewerExists, mapVars
  <1>4. Arrived' /\ SenderClosed' /\ TimePast'
    BY DEF TypeOK, Arrived, SenderClosed, TimePast
  <1>5. NewestRegistered'
    <2> SUFFICES ASSUME NEW d \in Conn, NewestListening(d)'
                 PROVE  connectionMap'[ClientOf[d]] = d
      BY Zenon DEF NewestRegistered
    <2>1. NewestListening(d) /\ d # c
      BY DEF TypeOK, NewestListening, Rivals, SenderClosed
    <2>2. connectionMap[ClientOf[d]] = d
      BY Zenon, <2>1 DEF NewestRegistered
    <2>3. CASE ClientOf[c] # ClientOf[d]
      BY Zenon, <2>2, <2>3 DEF TypeOK, AdapterStop, RemoveClient, mapVars
    <2>4. CASE ClientOf[c] = ClientOf[d]
      <3>1. connectionTime[c] < connectionTime[d]
        BY Zenon, <2>1, <2>4 DEF NewestListening, Rivals, Arrived
      <3>2. NewerExists(c)
        BY Zenon, <2>1, <2>2, <2>4, <3>1 DEF NewerExists, TypeOK
      <3> QED
        BY Zenon, <2>2, <3>2 DEF AdapterStop, mapVars
    <2> QED
      BY Zenon, <2>3, <2>4
  <1> QED
    BY Zenon, <1>1, <1>2, <1>3, <1>4, <1>5

(* Every step preserves the invariant.                                     *)
LEMMA NextInv == Inv /\ [Next]_vars => Inv'
  <1> SUFFICES ASSUME Inv, [Next]_vars PROVE Inv'
    OBVIOUS
  <1>1. ASSUME NEW c \in Conn, ConnStep(c) PROVE Inv'
    BY Zenon, <1>1, AuthenticationFailsStep, NewSynchronizerServerStep, StartStep,
       StartRefusedStep, StopMainStep, StopAdaptersMainStep DEF ConnStep
  <1>2. ASSUME NEW c \in Conn, SenderStep(c) PROVE Inv'
    BY <1>2, SendDataStep, SendDataFailsStep, StopSenderStep,
       StopAdaptersSenderStep DEF SenderStep
  <1>3. ASSUME NEW w \in Worker, WorkerStep(w) PROVE Inv'
    BY Zenon, <1>3, HandleRelatedStep, HandleCallbacksStep, HandleInvokeStep
    DEF WorkerStep
  <1>4. CASE UNCHANGED vars
    <2> USE <1>4 DEF Inv, vars, connVars, mapVars, fpVars
    <2>1. TypeOK' /\ GaugeExact' /\ MapsAgree' /\ OwnerOpen' /\ CallbacksOpen'
      BY Zenon DEF TypeOK, FPTypeOK, GaugeExact, Connected, MapsAgree, OwnerOpen,
             CallbacksOpen, Open
    <2>2. Arrived' /\ SenderClosed' /\ TimePast' /\ NewestRegistered' /\ AccountCached'
      BY DEF Arrived, SenderClosed, TimePast, NewestRegistered,
             NewestListening, Rivals, AccountCached
    <2> QED
      BY Zenon, <2>1, <2>2
  <1> QED
    BY <1>1, <1>2, <1>3, <1>4, FeaturesStepStep, ReadFailsStep,
       AuthenticationServerMiddlewareStep DEF Next

(* The registry's inductive invariant holds in every reachable state.      *)
THEOREM Inductive == Spec => []Inv
  BY InitInv, NextInv, PTL DEF Spec

(* Every variable keeps its type; in particular Dec never takes the gauge  *)
(* below zero.                                                             *)
THEOREM TypeCorrect == Spec => []TypeOK
  <1>1. Inv => TypeOK
    BY DEF Inv
  <1> QED
    BY <1>1, Inductive, PTL

(* The connected-clients gauge counts the entries of clientsMap.           *)
THEOREM GaugeCounts == Spec => []GaugeExact
  <1>1. Inv => GaugeExact
    BY DEF Inv
  <1> QED
    BY <1>1, Inductive, PTL

(* connectionMap and clientsMap always have the same entries, so the error *)
(* branch of the reconciliation task (adapter.go:299) is never taken.      *)
THEOREM MapsAlwaysAgree == Spec => []MapsAgree
  <1>1. Inv => MapsAgree
    BY Zenon DEF Inv
  <1> QED
    BY <1>1, Inductive, PTL

(* When the last connection of a client has been stopped, no map has an    *)
(* entry for the client, whatever was refused, replaced or stopped twice.  *)
THEOREM NothingLeft == Spec => []NoResidue
  <1>1. Inv => NoResidue
    <2> SUFFICES ASSUME Inv, NEW i \in Client,
                        \A c \in Conn : ClientOf[c] = i => ~ Open(c)
                 PROVE  /\ connectionMap[i] = NoConn
                        /\ callbacksMap[i] = NoConn
                        /\ clientsMap[i] = NoConn
      BY Zenon DEF NoResidue
    <2>1. callbacksMap[i] = NoConn
      BY Zenon DEF Inv, CallbacksOpen
    <2>2. connectionMap[i] = NoConn
      BY DEF Inv, OwnerOpen, Open, TypeOK
    <2> QED
      BY Zenon, <2>1, <2>2 DEF Inv, MapsAgree
  <1> QED
    BY <1>1, Inductive, PTL

(* The newest connection of a client owns the client while it listens.     *)
THEOREM NewestKept == Spec => []NewestRegistered
  <1>1. Inv => NewestRegistered
    BY DEF Inv
  <1> QED
    BY <1>1, Inductive, PTL

(* The account of a connected client has an entry in the features cache.   *)
THEOREM AccountKept == Spec => []AccountCached
  <1>1. Inv => AccountCached
    BY DEF Inv
  <1> QED
    BY <1>1, Inductive, PTL

(* No step hands a client from a connection to an older one.               *)
THEOREM ReplacedByNewer == Spec => NeverOlder
  <1> DEFINE Keep == \A i \in Client :
                connectionMap[i] # NoConn /\ connectionMap'[i] # NoConn =>
                    connectionTime[connectionMap[i]]
                        <= connectionTime'[connectionMap'[i]]
  <1>1. ASSUME Inv, Next PROVE Keep
    <2> USE <1>1, ConnAssumption DEF Inv, TypeOK
    <2>1. ASSUME NEW c \in Conn, AuthenticationServerMiddleware(c) PROVE Keep
      BY <2>1 DEF AuthenticationServerMiddleware, Goto, mapVars, OwnerOpen
    <2>2. ASSUME NEW c \in Conn, Start(c) PROVE Keep
      BY <2>2 DEF Start, NewerExists
    <2>3. ASSUME NEW c \in Conn, AdapterStop(c), UNCHANGED connectionTime PROVE Keep
      BY <2>3 DEF AdapterStop, RemoveClient, mapVars
    <2>4. ASSUME UNCHANGED <<connectionMap, connectionTime>> PROVE Keep
      BY <2>4
    <2>5. ASSUME NEW c \in Conn, ConnStep(c) \/ SenderStep(c) \/ ReadFails(c)
          PROVE  Keep
      BY Zenon, <2>2, <2>3, <2>4, <2>5
      DEF ConnStep, SenderStep, AuthenticationFails, NewSynchronizerServer,
          StartRefused, ReadFails, StopMain, StopAdaptersMain, SendData,
          SendDataFails, StopSender, StopAdaptersSender, mapVars
    <2>6. ASSUME NEW w \in Worker, WorkerStep(w) PROVE Keep
      BY Zenon, <2>4, <2>6
      DEF WorkerStep, HandleRelated, HandleCallbacks, HandleInvoke, connVars, mapVars
    <2>7. CASE FeaturesStep
      BY <2>4, <2>7 DEF FeaturesStep, connVars, mapVars
    <2> QED
      BY Zenon, <2>1, <2>5, <2>6, <2>7 DEF Next
  <1>2. Inv /\ [Next]_vars => [Keep]_vars
    BY Zenon, <1>1
  <1> QED
    BY <1>2, Inductive, PTL DEF Spec, NeverOlder

-----------------------------------------------------------------------------
(***************************************************************************)
(* The registry implements Ownership: every step of BackendAdapter is a    *)
(* step of the abstract registry or changes nothing that it shows.         *)
(***************************************************************************)

abstract == <<connectionMap, connectionTime, Phase>>

(* A connection that has not come has no closed socket.                    *)
IdleOpen == \A c \in Conn : pc[c] = "idle" => ~ connClosed[c]

RefInv == Inv /\ IdleOpen

Simulated == [Contract!Next]_abstract

-----------------------------------------------------------------------------
(* Only steps of connections that have come close sockets.                 *)
LEMMA IdleOpenStep == ASSUME RefInv, [Next]_vars PROVE IdleOpen'
  <1> USE DEF RefInv, Inv, TypeOK, IdleOpen
  <1>1. ASSUME NEW c \in Conn, AuthenticationServerMiddleware(c) PROVE IdleOpen'
    BY Zenon, <1>1 DEF AuthenticationServerMiddleware, Goto
  <1>2. ASSUME NEW c \in Conn, ReadFails(c) PROVE IdleOpen'
    BY <1>2 DEF ReadFails, Goto
  <1>3. ASSUME NEW c \in Conn, ConnStep(c) PROVE IdleOpen'
    BY Zenon, <1>3 DEF ConnStep, AuthenticationFails, NewSynchronizerServer, Start,
                StartRefused, StopMain, StopAdaptersMain, Goto
  <1>4. ASSUME NEW c \in Conn, SenderStep(c) PROVE IdleOpen'
    BY <1>4 DEF SenderStep, SendData, SendDataFails, StopSender,
                StopAdaptersSender, SenderGoto, Arrived
  <1>5. ASSUME NEW w \in Worker, WorkerStep(w) PROVE IdleOpen'
    BY Zenon, <1>5 DEF WorkerStep, HandleRelated, HandleCallbacks, HandleInvoke, connVars
  <1>6. CASE FeaturesStep
    BY Zenon, <1>6 DEF FeaturesStep, connVars
  <1>7. CASE UNCHANGED vars
    BY Zenon, <1>7 DEF vars, connVars
  <1> QED
    BY Zenon, <1>1, <1>2, <1>3, <1>4, <1>5, <1>6, <1>7 DEF Next

(* A step that only ends connections is Leave, or shows nothing.           *)
LEMMA LeaveStep ==
    ASSUME NEW c \in Conn, pc[c] # "idle",
           UNCHANGED <<connectionMap, connectionTime>>,
           Phase' = Phase \/ Phase' = [Phase EXCEPT ![c] = "gone"]
    PROVE  Simulated
  <1>1. CASE Phase[c] = "present" /\ Phase' = [Phase EXCEPT ![c] = "gone"]
    <2>1. Contract!Leave(c)
      BY <1>1 DEF Contract!Leave
    <2> QED
      BY <2>1 DEF Simulated, Contract!Next
  <1>2. CASE Phase' = Phase
    BY <1>2 DEF Simulated, abstract
  <1>3. CASE Phase[c] = "gone" /\ Phase' = [Phase EXCEPT ![c] = "gone"]
    <2>1. Phase' = Phase
      BY Zenon, <1>3 DEF Phase
    <2> QED
      BY <2>1 DEF Simulated, abstract
  <1>4. Phase[c] \in {"present", "gone"}
    BY Zenon DEF Phase
  <1> QED
    BY Zenon, <1>1, <1>2, <1>3, <1>4

(* The connection times in use are not newer than the clock.               *)
LEMMA ArriveStep ==
    ASSUME RefInv, NEW c \in Conn, AuthenticationServerMiddleware(c)
    PROVE  Simulated
  <1> USE DEF RefInv, Inv, TypeOK, AuthenticationServerMiddleware, Goto, mapVars
  <1>1. Phase' = [Phase EXCEPT ![c] = "present"] /\ Phase[c] = "absent"
    BY Zenon DEF Phase, IdleOpen
  <1>2. /\ connectionTime'[c] \in Nat
        /\ connectionTime' = [connectionTime EXCEPT ![c] = connectionTime'[c]]
        /\ \A d \in Conn : connectionTime[d] <= connectionTime'[c]
    BY DEF TimePast
  <1>3. Contract!Arrive(c)
    BY Zenon, <1>1, <1>2 DEF Contract!Arrive, Contract!Arrived
  <1> QED
    BY <1>3 DEF Simulated, Contract!Next

(* Start takes the client unless a newer connection has it.                *)
LEMMA TakeStep ==
    ASSUME RefInv, NEW c \in Conn, Start(c)
    PROVE  Simulated
  <1> USE ConnAssumption DEF RefInv, Inv, TypeOK, Start, Goto
  <1>1. Phase' = Phase \/ Phase' = [Phase EXCEPT ![c] = "gone"]
    BY Zenon DEF Phase
  <1>2. LET o == connectionMap[ClientOf[c]]
        IN  o # NoConn => connectionTime[o] <= connectionTime[c]
    <2> DEFINE o == connectionMap[ClientOf[c]]
    <2> SUFFICES ASSUME o # NoConn PROVE connectionTime[o] <= connectionTime[c]
      OBVIOUS
    <2>1. /\ o \in Conn
          /\ connectionTime[o] \in Nat /\ connectionTime[c] \in Nat
      BY Zenon
    <2>2. o = c \/ ~ (connectionTime[o] > connectionTime[c])
      BY Zenon DEF NewerExists
    <2> QED
      BY <2>1, <2>2
  <1>3. Phase[c] # "absent"
    BY Zenon DEF Phase
  <1>4. Contract!Take(c)
    BY <1>1, <1>2, <1>3 DEF Contract!Take, Contract!Arrived
  <1> QED
    BY <1>4 DEF Simulated, Contract!Next

(* Stop takes the client from the connection that is stopped, or from one  *)
(* that is not newer.                                                      *)
LEMMA ReleaseStep ==
    ASSUME RefInv, NEW c \in Conn, AdapterStop(c),
           UNCHANGED <<connectionTime, Phase>>, Phase[c] = "gone"
    PROVE  Simulated
  <1> USE ConnAssumption DEF RefInv, Inv, TypeOK
  <1> DEFINE id == ClientOf[c]
             o == connectionMap[id]
  <1>1. CASE UNCHANGED connectionMap
    BY Zenon, <1>1 DEF Simulated, abstract
  <1>2. ASSUME ~ NewerExists(c), RemoveClient(c), o # NoConn PROVE Simulated
    <2>1. connectionMap' = [connectionMap EXCEPT ![id] = NoConn]
      BY Zenon, <1>2 DEF RemoveClient
    <2>2. Phase[o] = "gone" \/ Contract!Outlived(id)
      <3>1. CASE o = c
        BY Zenon, <3>1
      <3>2. CASE o # c
        <4>1. o \in Conn /\ connectionTime[o] <= connectionTime[c]
          BY <1>2, <3>2 DEF NewerExists
        <4> QED
          BY Zenon, <3>2, <4>1 DEF Contract!Outlived, Contract!Arrived
      <3> QED
        BY Zenon, <3>1, <3>2
    <2>3. Contract!Release(id)
      BY Zenon, <1>2, <2>1, <2>2 DEF Contract!Release
    <2> QED
      BY Zenon, <2>3 DEF Simulated, Contract!Next
  <1>3. ASSUME RemoveClient(c), o = NoConn PROVE UNCHANGED connectionMap
    BY Zenon, <1>3 DEF RemoveClient
  <1> QED
    BY Zenon, <1>1, <1>2, <1>3 DEF AdapterStop, mapVars

(* Every step of the registry is one of the abstract registry, or none.    *)
LEMMA NextSimulated == ASSUME RefInv, [Next]_vars PROVE Simulated
  <1> USE DEF RefInv, Inv, TypeOK
  <1>1. ASSUME NEW c \in Conn,
               AuthenticationFails(c) \/ NewSynchronizerServer(c) \/ StartRefused(c)
                 \/ StopMain(c) \/ ReadFails(c)
        PROVE  Simulated
    <2>1. pc[c] # "idle" /\ UNCHANGED <<connectionMap, connectionTime>>
      BY <1>1 DEF AuthenticationFails, NewSynchronizerServer, StartRefused,
                  StopMain, ReadFails, Goto, mapVars
    <2>2. Phase' = Phase \/ Phase' = [Phase EXCEPT ![c] = "gone"]
      BY Zenon, <1>1 DEF AuthenticationFails, NewSynchronizerServer, StartRefused,
                  StopMain, ReadFails, Goto, Phase
    <2> QED
      BY Zenon, <2>1, <2>2, LeaveStep
  <1>2. ASSUME NEW c \in Conn, StopAdaptersMain(c) PROVE Simulated
    <2>1. UNCHANGED <<connectionTime, Phase>> /\ Phase[c] = "gone"
      BY <1>2 DEF StopAdaptersMain, Goto, Phase
    <2> QED
      BY Zenon, <1>2, <2>1, ReleaseStep DEF StopAdaptersMain
  <1>3. ASSUME NEW c \in Conn, StopAdaptersSender(c) PROVE Simulated
    <2>1. UNCHANGED <<connectionTime, Phase>> /\ Phase[c] = "gone"
      BY Zenon, <1>3 DEF StopAdaptersSender, SenderGoto, SenderClosed, Arrived, Phase
    <2> QED
      BY Zenon, <1>3, <2>1, ReleaseStep DEF StopAdaptersSender
  <1>4. ASSUME NEW c \in Conn, SendData(c) \/ SendDataFails(c) \/ StopSender(c)
        PROVE  Simulated
    <2>1. pc[c] # "idle" /\ UNCHANGED <<connectionMap, connectionTime>>
      BY <1>4 DEF SendData, SendDataFails, StopSender, SenderGoto, Arrived, mapVars
    <2>2. Phase' = Phase \/ Phase' = [Phase EXCEPT ![c] = "gone"]
      BY Zenon, <1>4, <2>1 DEF SendData, SendDataFails, StopSender, Phase
    <2> QED
      BY <2>1, <2>2, LeaveStep
  <1>5. ASSUME UNCHANGED <<connectionMap, connectionTime, pc, connClosed>>
        PROVE  Simulated
    BY <1>5 DEF Simulated, abstract, Phase
  <1>6. ASSUME NEW w \in Worker, WorkerStep(w) PROVE Simulated
    BY Zenon, <1>5, <1>6 DEF WorkerStep, HandleRelated, HandleCallbacks, HandleInvoke,
                      connVars, mapVars
  <1>7. CASE FeaturesStep
    BY Zenon, <1>5, <1>7 DEF FeaturesStep, connVars, mapVars
  <1>8. CASE UNCHANGED vars
    BY <1>5, <1>8 DEF vars, connVars, mapVars
  <1> QED
    BY <1>1, <1>2, <1>3, <1>4, <1>6, <1>7, <1>8, ArriveStep, TakeStep
    DEF Next, ConnStep, SenderStep

-----------------------------------------------------------------------------
(* The registry implements Ownership: however Start, the two Stops of each *)
(* connection and the callbacks interleave, a client passes only to        *)
(* connections that are not older, and is taken only from a connection     *)
(* that is gone or has been followed by one at least as new.               *)
THEOREM ImplementsOwnership == Spec => OwnershipKept
  <1>1. Init => Contract!Init
    BY Zenon, ConnAssumption DEF Init, Contract!Init, Phase
  <1>2. Init => RefInv
    BY InitInv DEF RefInv, IdleOpen, Init
  <1>3. RefInv /\ [Next]_vars => RefInv'
    BY NextInv, IdleOpenStep DEF RefInv
  <1>4. RefInv /\ [Next]_vars => [Contract!Next]_abstract
    BY NextSimulated DEF Simulated
  <1> QED
    BY <1>1, <1>2, <1>3, <1>4, PTL
    DEF Spec, OwnershipKept, Contract!Spec, abstract

-----------------------------------------------------------------------------
(***************************************************************************)
(* The periodic tasks leave the registry as it is, so what is proved of    *)
(* BackendAdapter holds beside them, and the registry leaves the clients   *)
(* alone that the reconciliation task has yet to visit.                    *)
(***************************************************************************)

(* Clients are only left to visit while the task has the mutex.            *)
VisitsLocked == visiting # {} => reconciler = "locked"

TaskInv == Inv /\ TaskTypeOK /\ VisitsLocked /\ VisitsConnected

-----------------------------------------------------------------------------
(* Every step of the composition is a step of the registry, or none.       *)
LEMMA TaskNextIsNext == ASSUME [TaskNext]_allVars PROVE [Next]_vars
  <1>1. CASE RegistryStep
    BY <1>1 DEF RegistryStep
  <1>2. ASSUME NEW c \in Conn, ClientStart(c) PROVE UNCHANGED vars
    BY Zenon, <1>2 DEF ClientStart
  <1>3. CASE ReconciliationTick \/ ReconcilerStep
    BY <1>3 DEF ReconciliationTick, ReconcilerStep, VisitClient, Unlock, ProduceBatch
  <1>4. CASE KeepaliveStep
    BY <1>4 DEF KeepaliveStep, KeepaliveTick, SendConnectedClients
  <1>5. CASE UNCHANGED allVars
    BY Zenon, <1>5 DEF allVars
  <1> QED
    BY <1>1, <1>2, <1>3, <1>4, <1>5 DEF TaskNext

(* Only Start and Stop, which take the mutex, write the two maps.          *)
LEMMA MapsNeedMutex ==
    ASSUME Inv, Next, \A c \in Conn : ~ TakesMutex(c)
    PROVE  UNCHANGED <<connectionMap, clientsMap>>
  <1> USE DEF Inv, TypeOK
  <1>1. ASSUME NEW c \in Conn, Start(c) \/ StopAdaptersMain(c) PROVE FALSE
    <2>1. pc[c] \in {"registered", "stopAdapters"} /\ pc'[c] # pc[c]
      BY Zenon, <1>1 DEF Start, StopAdaptersMain, Goto
    <2> QED
      BY <2>1 DEF TakesMutex
  <1>2. ASSUME NEW c \in Conn, StopAdaptersSender(c) PROVE FALSE
    <2>1. sender[c] = "stopAdapters" /\ sender'[c] # sender[c]
      BY Zenon, <1>2 DEF StopAdaptersSender, SenderGoto
    <2> QED
      BY Zenon, <2>1 DEF TakesMutex
  <1>3. ASSUME NEW c \in Conn, AuthenticationServerMiddleware(c) \/ ReadFails(c)
        PROVE  UNCHANGED <<connectionMap, clientsMap>>
    BY Zenon, <1>3 DEF AuthenticationServerMiddleware, ReadFails, mapVars
  <1>4. ASSUME NEW c \in Conn, ConnStep(c) \/ SenderStep(c)
        PROVE  UNCHANGED <<connectionMap, clientsMap>>
    BY <1>1, <1>2, <1>4
    DEF ConnStep, SenderStep, AuthenticationFails, NewSynchronizerServer,
        StartRefused, StopMain, SendData, SendDataFails, StopSender, mapVars
  <1>5. ASSUME NEW w \in Worker, WorkerStep(w)
        PROVE  UNCHANGED <<connectionMap, clientsMap>>
    BY Zenon, <1>5 DEF WorkerStep, HandleRelated, HandleCallbacks, HandleInvoke, mapVars
  <1>6. CASE FeaturesStep
    BY Zenon, <1>6 DEF FeaturesStep, mapVars
  <1> QED
    BY Zenon, <1>3, <1>4, <1>5, <1>6 DEF Next

(* The tasks start with nothing to visit.                                  *)
LEMMA TaskInitInv == TaskInit => TaskInv
  BY Zenon, InitInv DEF TaskInit, TaskInv, TaskTypeOK, VisitsLocked, VisitsConnected

(* The reconciliation task finds what it listed, because the registry      *)
(* waits for it.                                                           *)
LEMMA RegistryStepTask == ASSUME TaskInv, RegistryStep PROVE TaskInv'
  <1> USE DEF TaskInv, RegistryStep, TasksWait
  <1>1. Inv'
    BY Zenon, NextInv
  <1>2. TaskTypeOK'
    BY Zenon DEF TaskTypeOK
  <1>3. VisitsLocked'
    BY Zenon DEF VisitsLocked
  <1>4. VisitsConnected'
    <2>1. CASE visiting = {}
      BY Zenon, <2>1 DEF VisitsConnected
    <2>2. CASE visiting # {}
      <3>1. \A c \in Conn : ~ TakesMutex(c)
        BY Zenon, <2>2 DEF VisitsLocked, Lock, MutexFree
      <3> QED
        BY Zenon, <3>1, MapsNeedMutex DEF VisitsConnected
    <2> QED
      BY Zenon, <2>1, <2>2
  <1> QED
    BY <1>1, <1>2, <1>3, <1>4

(* The other steps keep the maps; a tick lists what is connected.          *)
LEMMA TaskStepTask ==
    ASSUME TaskInv,
           \/ \E c \in Conn : ClientStart(c)
           \/ ReconciliationTick \/ ReconcilerStep \/ KeepaliveStep
           \/ UNCHANGED allVars
    PROVE  TaskInv'
  <1> USE DEF TaskInv
  <1>1. UNCHANGED vars
    BY DEF ClientStart, ReconciliationTick, ReconcilerStep, VisitClient, Unlock,
           ProduceBatch, KeepaliveStep, KeepaliveTick, SendConnectedClients, allVars
  <1>2. Inv'
    BY <1>1, NextInv
  <1>3. UNCHANGED <<connectionMap, clientsMap>>
    BY Zenon, <1>1 DEF vars, mapVars
  <1>4. connectionMap \in [Client -> Conn \cup {NoConn}] /\ MapsAgree
    BY Zenon DEF Inv, TypeOK
  <1>5. ASSUME NEW c \in Conn, ClientStart(c)
        PROVE  TaskTypeOK' /\ VisitsLocked' /\ VisitsConnected'
    BY <1>3, <1>5, ConnAssumption DEF ClientStart, TaskTypeOK, VisitsLocked, VisitsConnected
  <1>6. ASSUME ReconciliationTick
        PROVE  TaskTypeOK' /\ VisitsLocked' /\ VisitsConnected'
    BY Zenon, <1>3, <1>4, <1>6
    DEF ReconciliationTick, TaskTypeOK, VisitsLocked, VisitsConnected, MapsAgree
  <1>7. ASSUME NEW i \in Client, VisitClient(i)
        PROVE  TaskTypeOK' /\ VisitsLocked' /\ VisitsConnected'
    BY Zenon, <1>3, <1>7 DEF VisitClient, TaskTypeOK, VisitsLocked, VisitsConnected
  <1>8. ASSUME Unlock \/ ProduceBatch
        PROVE  TaskTypeOK' /\ VisitsLocked' /\ VisitsConnected'
    BY Zenon, <1>3, <1>8 DEF Unlock, ProduceBatch, TaskTypeOK, VisitsLocked, VisitsConnected
  <1>9. ASSUME KeepaliveTick
        PROVE  TaskTypeOK' /\ VisitsLocked' /\ VisitsConnected'
    BY Zenon, <1>3, <1>4, <1>9 DEF KeepaliveTick, TaskTypeOK, VisitsLocked, VisitsConnected
  <1>10. ASSUME SendConnectedClients
        PROVE  TaskTypeOK' /\ VisitsLocked' /\ VisitsConnected'
    BY <1>3, <1>10
    DEF SendConnectedClients, TaskTypeOK, VisitsLocked, VisitsConnected
  <1>11. ASSUME UNCHANGED allVars
        PROVE  TaskTypeOK' /\ VisitsLocked' /\ VisitsConnected'
    BY Zenon, <1>3, <1>11
    DEF allVars, taskVars, TaskTypeOK, VisitsLocked, VisitsConnected
  <1> QED
    BY Zenon, <1>2, <1>5, <1>6, <1>7, <1>8, <1>9, <1>10, <1>11
    DEF ReconcilerStep, KeepaliveStep

-----------------------------------------------------------------------------
(* The registry beside the tasks is the registry: every theorem about Spec *)
(* holds of TaskSpec, the refinement of Ownership included.                *)
THEOREM TasksKeepRegistry == TaskSpec => Spec
  <1>1. TaskInit => Init
    BY DEF TaskInit
  <1>2. [TaskNext]_allVars => [Next]_vars
    BY TaskNextIsNext
  <1> QED
    BY <1>1, <1>2, PTL DEF TaskSpec, Spec

(* Beside the tasks too a client passes only to connections that are not   *)
(* older, and is taken only from one that is gone or was followed.         *)
THEOREM TasksKeepOwnership == TaskSpec => OwnershipKept
  BY TasksKeepRegistry, ImplementsOwnership, PTL

(* Every step of the composition keeps the invariant of the tasks.         *)
LEMMA TaskInvariant == TaskSpec => []TaskInv
  <1>1. TaskInv /\ [TaskNext]_allVars => TaskInv'
    BY RegistryStepTask, TaskStepTask DEF TaskNext
  <1> QED
    BY <1>1, TaskInitInv, PTL DEF TaskSpec

(* The variables of the tasks have their types; in particular the requests *)
(* that the reconciliation task collects are named after clients.          *)
THEOREM TaskTypeCorrect == TaskSpec => []TaskTypeOK
  <1>1. TaskInv => TaskTypeOK
    BY DEF TaskInv
  <1> QED
    BY <1>1, TaskInvariant, PTL

(* The reconciliation task visits connected clients only, for any number   *)
(* of clients, connections and workers: the mutex it holds keeps the       *)
(* registry as it listed it (adapter.go, "expected to find client").       *)
THEOREM TaskVisitsConnected == TaskSpec => []VisitsConnected
  <1>1. TaskInv => VisitsConnected
    BY DEF TaskInv
  <1> QED
    BY <1>1, TaskInvariant, PTL
=============================================================================
