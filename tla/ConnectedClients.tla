-------------------------- MODULE ConnectedClients --------------------------
(***************************************************************************)
(* What a server tells the backend about its connected clients: every      *)
(* Start of the adapter starts a goroutine that produces two messages      *)
(* (Client.Start in adapters/backend/v1/client.go), and two periodic tasks *)
(* walk the registry (adapters/backend/v1/adapter.go).  The reconciliation *)
(* task holds connMapMutex while it produces one request per client, or    *)
(* collects the requests and produces them as one message afterwards; the  *)
(* keepalive task copies the registry under the mutex and produces it      *)
(* after the unlock.  Everything that starts or stops an adapter waits for *)
(* the mutex.                                                              *)
(*                                                                         *)
(* Producing may wait for the queue.  The module extends BackendAdapter:   *)
(* its steps are those of the registry, some with the mutex as a further   *)
(* guard, and those of the goroutines above.                               *)
(***************************************************************************)
EXTENDS BackendAdapter

CONSTANTS
    Outdated,          \* connections whose version knows no batch messages
    SendBatch          \* ReconciliationTaskConfig.SendBatch

ASSUME TaskAssumption == Outdated \subseteq Conn /\ SendBatch \in BOOLEAN

VARIABLES
    announcing,        \* connections whose Client.Start goroutine has yet to run
    reconciler,        \* what the reconciliation task is doing
    visiting,          \* clients the reconciliation task has yet to visit
    batch,             \* the requests it collected
    keepalive,         \* the copy the keepalive task is about to produce
    reported           \* what the messages produced so far say, per client

taskVars == <<announcing, reconciler, visiting, batch, keepalive, reported>>
allVars == <<vars, taskVars>>

TaskInit ==
    /\ Init
    /\ announcing = {}
    /\ reconciler = "ticker"
    /\ visiting = {}
    /\ batch = {}
    /\ keepalive = <<>>
    /\ reported = [i \in Client |-> NoConn]

(* The reconciliation task has the mutex from its tick to the last client. *)
MutexFree == reconciler # "locked"

-----------------------------------------------------------------------------
(* The registry.  Start and Stop of the adapter run under connMapMutex; a  *)
(* Start that returns no error starts the goroutine of the client.         *)

\* mutant: Stop does not take the mutex
StartTakesMutex(c) == pc[c] = "registered" /\ pc'[c] # pc[c]

TakesMutex(c) ==
    \/ pc[c] \in {"registered", "stopAdapters"} /\ pc'[c] # pc[c]
    \/ sender[c] = "stopAdapters" /\ sender'[c] # sender[c]

(* connMapMutex.Lock waits for the reconciliation task.                    *)
Lock(c) == TakesMutex(c) => MutexFree

TasksWait ==
    /\ \A c \in Conn : Lock(c)
    /\ announcing' = announcing \cup
          {c \in Conn : pc[c] = "registered" /\ pc'[c] = "listening"}
    /\ UNCHANGED <<reconciler, visiting, batch, keepalive, reported>>

RegistryStep == Next /\ TasksWait

-----------------------------------------------------------------------------
(* Client.Start: two messages, and an error of the first ends it.  Only    *)
(* the second names the connection, whatever became of it meanwhile.       *)
ClientStart(c) ==
    /\ c \in announcing
    /\ announcing' = announcing \ {c}
    /\ reported' \in {[reported EXCEPT ![ClientOf[c]] = c], reported}
    /\ UNCHANGED <<vars, reconciler, visiting, batch, keepalive>>

-----------------------------------------------------------------------------
(* The reconciliation task.                                                *)

ReconciliationTick ==
    /\ reconciler = "ticker"
    /\ reconciler' = "locked"
    /\ visiting' = {i \in Client : connectionMap[i] # NoConn}
    /\ batch' = {}
    /\ UNCHANGED <<vars, announcing, keepalive, reported>>

\* mutant: the batch is keyed by the connection, not by the client
VisitClientByConnection(i) ==
    /\ reconciler = "locked"
    /\ i \in visiting
    /\ visiting' = visiting \ {i}
    /\ batch' = batch \cup {connectionMap[i]}
    /\ UNCHANGED <<vars, announcing, reconciler, keepalive, reported>>

(* One turn of the loop: the client may be too recent, or too old in its   *)
(* version; its request is collected or produced.                          *)
VisitClient(i) ==
    /\ reconciler = "locked"
    /\ i \in visiting
    /\ visiting' = visiting \ {i}
    /\ batch' \in {batch, batch \cup
          {j \in {i} : SendBatch /\ clientsMap[j] # NoConn
                          /\ connectionMap[j] \notin Outdated}}
    /\ UNCHANGED <<vars, announcing, reconciler, keepalive, reported>>

\* mutant: the mutex is not released when there is nothing to send
UnlockNonEmpty ==
    /\ reconciler = "locked" /\ visiting = {}
    /\ batch # {}
    /\ reconciler' = "batch"
    /\ UNCHANGED <<vars, announcing, visiting, batch, keepalive, reported>>

Unlock ==
    /\ reconciler = "locked" /\ visiting = {}
    /\ reconciler' = IF batch = {} THEN "ticker" ELSE "batch"
    /\ UNCHANGED <<vars, announcing, visiting, batch, keepalive, reported>>

ProduceBatch ==
    /\ reconciler = "batch"
    /\ reconciler' = "ticker"
    /\ batch' = {}
    /\ UNCHANGED <<vars, announcing, visiting, keepalive, reported>>

-----------------------------------------------------------------------------
(* The keepalive task: a copy of the registry, produced later.             *)

KeepaliveTick ==
    /\ keepalive = <<>>
    /\ MutexFree
    /\ keepalive' = <<connectionMap>>
    /\ UNCHANGED <<vars, announcing, reconciler, visiting, batch, reported>>

\* mutant: a list without clients is not worth a message
SendConnectedClientsNonEmpty ==
    /\ keepalive # <<>>
    /\ reported' = IF \A i \in Client : keepalive[1][i] = NoConn
                   THEN reported ELSE keepalive[1]
    /\ keepalive' = <<>>
    /\ UNCHANGED <<vars, announcing, reconciler, visiting, batch>>

SendConnectedClients ==
    /\ keepalive # <<>>
    /\ reported' = keepalive[1]
    /\ keepalive' = <<>>
    /\ UNCHANGED <<vars, announcing, reconciler, visiting, batch>>

-----------------------------------------------------------------------------
ReconcilerStep ==
    \/ \E i \in Client : VisitClient(i)
    \/ Unlock \/ ProduceBatch

KeepaliveStep == KeepaliveTick \/ SendConnectedClients

TaskNext ==
    \/ RegistryStep
    \/ \E c \in Conn : ClientStart(c)
    \/ ReconciliationTick \/ ReconcilerStep
    \/ KeepaliveStep

TaskSpec == TaskInit /\ [][TaskNext]_allVars

(* Goroutines run and producing ends.  A goroutine that waits for the      *)
(* mutex gets it although the tasks take it again and again: a sync.Mutex  *)
(* is handed to the longest waiter.                                        *)
TaskFairness ==
    /\ \A c \in Conn :
          /\ SF_allVars(ConnStep(c) /\ TasksWait)
          /\ SF_allVars(SenderStep(c) /\ TasksWait)
          /\ WF_allVars(connClosed[c] /\ ReadFails(c) /\ TasksWait)
          /\ WF_allVars(ClientStart(c))
    /\ \A w \in Worker :
          WF_allVars((HandleCallbacks(w) \/ HandleInvoke(w)) /\ TasksWait)
    /\ WF_allVars(ReconcilerStep)
    /\ SF_allVars(KeepaliveTick) /\ WF_allVars(SendConnectedClients)

TaskFairSpec == TaskSpec /\ TaskFairness

-----------------------------------------------------------------------------
(* The types of the variables of the tasks.                                *)
TaskTypeOK ==
    /\ announcing \subseteq Conn
    /\ reconciler \in {"ticker", "locked", "batch"}
    /\ visiting \subseteq Client /\ batch \subseteq Client
    /\ keepalive \in {<<>>} \cup {<<m>> : m \in [Client -> Conn \cup {NoConn}]}
    /\ reported \in [Client -> Conn \cup {NoConn}]

(* The reconciliation task walks a registry that does not change under it: *)
(* as long as it has clients to visit, they are connected and have their   *)
(* client object, so its "expected to find client" branch is never taken.  *)
VisitsConnected ==
    \A i \in visiting : connectionMap[i] # NoConn /\ clientsMap[i] # NoConn

(* The clients the backend was told about are in the end those that are    *)
(* connected, with the right connection: announcements of connections that *)
(* were replaced or closed meanwhile, and copies of a registry that has    *)
(* changed since, are corrected by a later keepalive.                      *)
ReportsSettle == <>[](reported = connectionMap)
=============================================================================
