--------------------------- MODULE TransportProofs ---------------------------
(***************************************************************************)
(* Proofs about the websocket connection, for sockets of any size and any  *)
(* number of faults.                                                       *)
(***************************************************************************)
EXTENDS Transport, TLAPS

(* Time for slow machines.                                                 *)
USE SMTT(30), ZenonT(30)

(* The connection that is being replaced is closed: nobody else opens one. *)
DialsClosed == sender = "dial" => conn = "closed"

TransportInv == TypeOK /\ DialsClosed /\ NeverStranded

-----------------------------------------------------------------------------
(* The first connection has just been opened.                              *)
LEMMA InitTransport == Init => TransportInv
  BY BoundAssumption DEF Init, TransportInv, TypeOK, DialsClosed, NeverStranded, NewSession,
                         ReaderPC

(* The steps that give messages to the sender.                             *)
LEMMA SourceStep ==
    ASSUME TransportInv, (\E g \in Source : Send(g) \/ Invoke(g)) \/ Answer
    PROVE  TransportInv'
  <1> USE BoundAssumption DEF TransportInv, TypeOK, DialsClosed, NeverStranded
  <1>1. ASSUME NEW g \in Source, Send(g) PROVE TransportInv'
    BY <1>1 DEF Send
  <1>2. ASSUME NEW g \in Source, Invoke(g) PROVE TransportInv'
    BY <1>2 DEF Invoke
  <1>3. CASE Answer
    BY <1>3 DEF Answer
  <1> QED
    BY <1>1, <1>2, <1>3

(* The sender dials only after it has closed, so a reader is not left on a *)
(* connection that is open.                                                *)
LEMMA SenderStep ==
    ASSUME TransportInv,
           WriteData \/ WriteLost \/ WriteFails \/ DialFails \/ Dial
             \/ DialOvertakes \/ RewriteFails
    PROVE  TransportInv'
  <1> USE BoundAssumption DEF TransportInv, TypeOK, DialsClosed, NeverStranded
  <1>1. CASE WriteData
    BY <1>1 DEF WriteData
  <1>2. CASE WriteLost \/ WriteFails \/ DialFails \/ RewriteFails
    BY <1>2 DEF WriteLost, WriteFails, DialFails, RewriteFails
  <1>3. CASE Dial
    BY <1>3 DEF Dial, Connect, NewSession, ReaderPC
  <1>4. CASE DialOvertakes
    BY <1>4 DEF DialOvertakes, Connect, NewSession, ReaderPC
  <1> QED
    BY <1>1, <1>2, <1>3, <1>4

(* The reader closes connections and never opens one.                      *)
LEMMA ReaderStep ==
    ASSUME TransportInv, ReadData \/ InvokeInPool \/ ReadFails \/ CloseConn \/ Retry
    PROVE  TransportInv'
  <1> USE BoundAssumption DEF TransportInv, TypeOK, DialsClosed, NeverStranded, ReaderPC
  <1>1. CASE ReadData
    BY <1>1 DEF ReadData
  <1>2. CASE InvokeInPool
    BY <1>2 DEF InvokeInPool
  <1>3. CASE ReadFails \/ CloseConn \/ Retry
    BY <1>3 DEF ReadFails, CloseConn, Retry
  <1> QED
    BY <1>1, <1>2, <1>3

(* The server and the network.                                             *)
LEMMA PeerStep ==
    ASSUME TransportInv, ServerNext \/ ServerCallback \/ Break
    PROVE  TransportInv'
  <1> USE BoundAssumption DEF TransportInv, TypeOK, DialsClosed, NeverStranded, ServerStep
  <1>1. CASE ServerRead
    <2>1. up' \in 0..SocketBuffer
      BY <1>1 DEF ServerRead
    <2>2. session' \in [read : BOOLEAN, handling : BOOLEAN, queued : BOOLEAN,
                        sending : BOOLEAN]
      BY Zenon, <1>1 DEF ServerRead
    <2> QED
      BY <1>1, <2>1, <2>2 DEF ServerRead
  <1>2. CASE ServerInvokeInPool \/ ServerHandle \/ ServerCallback
    BY Zenon, <1>2 DEF ServerInvokeInPool, ServerHandle, ServerCallback
  <1>3. CASE ServerInvokeOutPool
    BY Zenon, <1>3 DEF ServerInvokeOutPool
  <1>4. CASE ServerWriteData
    <2>1. down' \in 0..SocketBuffer
      BY <1>4 DEF ServerWriteData
    <2>2. session' \in [read : BOOLEAN, handling : BOOLEAN, queued : BOOLEAN,
                        sending : BOOLEAN]
      BY Zenon, <1>4 DEF ServerWriteData
    <2> QED
      BY <1>4, <2>1, <2>2 DEF ServerWriteData
  <1>5. CASE Break
    BY <1>5 DEF Break
  <1> QED
    BY <1>1, <1>2, <1>3, <1>4, <1>5 DEF ServerNext

(* Every step keeps the invariant.                                         *)
LEMMA NextTransport == TransportInv /\ [Next]_vars => TransportInv'
  <1> SUFFICES ASSUME TransportInv, [Next]_vars PROVE TransportInv'
    OBVIOUS
  <1>1. CASE UNCHANGED vars
    BY <1>1 DEF vars, TransportInv, TypeOK, DialsClosed, NeverStranded
  <1> QED
    BY <1>1, SourceStep, SenderStep, ReaderStep, PeerStep
    DEF Next, SendPing, ServeHTTP, HandleEvent, Source

-----------------------------------------------------------------------------
(* Every variable keeps its values for sockets of any size: no worker of a *)
(* pool is given a message while it has one.                               *)
THEOREM TransportTypeCorrect == Spec => []TypeOK
  <1>1. TransportInv => TypeOK
    BY DEF TransportInv
  <1> QED
    BY <1>1, InitTransport, NextTransport, PTL DEF Spec

(* The read loop is never left on a connection that sendData replaced and  *)
(* nobody closed, whatever faults happen: a dial follows a close, and only *)
(* a dial opens a connection.                                              *)
THEOREM ReaderNeverStranded == Spec => []NeverStranded
  <1>1. TransportInv => NeverStranded
    BY DEF TransportInv
  <1> QED
    BY <1>1, InitTransport, NextTransport, PTL DEF Spec
=============================================================================
