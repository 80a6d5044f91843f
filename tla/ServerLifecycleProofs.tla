------------------------ MODULE ServerLifecycleProofs ------------------------
(***************************************************************************)
(* What the server's lifecycle guarantees for every number of signals and  *)
(* of records.  The invariant says, for every place of main, which of the  *)
(* clients are open, whether a signal has a receiver, and what is known of *)
(* signals and of records that were given up.                              *)
(***************************************************************************)
EXTENDS ServerLifecycle, TLAPS

(* Time for slow machines.                                                 *)
USE SMTT(30), ZenonT(30)

Early == {"start", "notified", "newProducer", "newReader", "ping", "check"}
Deciding == {"result", "stopInit", "decide"}
Serving == {"serving", "await"}
Closing == {"flush", "closeProducer", "closeReader", "stopSignals", "return"}

AllClosed == producer # "open" /\ reader # "open"
BothOpen == producer = "open" /\ reader = "open"

Flags ==
    /\ pc \in Early \cup Deciding \cup Serving \cup Closing
    /\ receiver \in BOOLEAN /\ scoped \in BOOLEAN /\ initDone \in BOOLEAN
    /\ interrupted \in BOOLEAN /\ failed \in BOOLEAN
    /\ timedOut \in BOOLEAN /\ late \in BOOLEAN

(* Which clients are open, by place.                                       *)
Clients ==
    /\ pc \in {"start", "notified", "newProducer"} =>
           producer = "none" /\ reader = "none"
    /\ pc = "newReader" => producer = "open" /\ reader = "none"
    /\ pc \in {"ping", "check"} => BothOpen
    /\ pc \in Early => ~ failed
    /\ pc \in Deciding => IF failed THEN AllClosed ELSE BothOpen
    /\ pc \in Serving \cup {"flush", "closeProducer"} => BothOpen
    /\ pc = "closeReader" => producer = "closed"
    /\ pc \in {"stopSignals", "return"} => AllClosed

(* A signal has a receiver wherever a client is open.                      *)
Heard == receiver <=> pc \notin {"start", "return"}

(* Only signals cancel the context, wake the goroutine and end the serving.*)
ByASignal ==
    /\ initDone \/ interrupted \/ signals > 0 => sent > 0
    /\ waiter \in {"shutdown", "done"} \/ pc = "await" => sent > 0
    /\ pc \in Closing => sent > 0 \/ failed

(* Records are given up only from the close of the producer on.            *)
Records ==
    /\ pc \in Early \cup Deciding => produced = 0
    /\ dropped + buffer <= produced
    /\ pc \notin {"closeReader", "stopSignals", "return"} => dropped = 0
    /\ pc = "closeProducer" /\ buffer > 0 => timedOut \/ late

Inv ==
    /\ TypeOK /\ Flags /\ Clients /\ Heard /\ ByASignal /\ Records
    /\ NeverLeftOpen /\ LeavesForAReason /\ FlushedFirst

-----------------------------------------------------------------------------
USE LifecycleAssumption
    DEF Early, Deciding, Serving, Closing, AllClosed, BothOpen

(* The process starts with nothing open and nothing received.              *)
LEMMA InitInv == Init => Inv
  <1> SUFFICES ASSUME Init PROVE Inv
    OBVIOUS
  <1> USE DEF Init
  <1>1. TypeOK
    BY DEF TypeOK
  <1>2. Flags
    BY Zenon DEF Flags
  <1>3. Clients /\ Heard /\ ByASignal /\ Records
    BY DEF Clients, Heard, ByASignal, Records
  <1>4. NeverLeftOpen /\ LeavesForAReason /\ FlushedFirst
    BY DEF NeverLeftOpen, LeavesForAReason, FlushedFirst
  <1> QED
    BY <1>1, <1>2, <1>3, <1>4 DEF Inv

(* Every step of main, of its goroutine and of the environment preserves   *)
(* the invariant.                                                          *)
LEMMA NextInv == Inv /\ [Next]_vars => Inv'
  <1> SUFFICES ASSUME Inv, [Next]_vars PROVE Inv'
    OBVIOUS
  <1> USE DEF Inv, TypeOK, Flags, Clients, Heard, ByASignal, Records,
              NeverLeftOpen, LeavesForAReason, FlushedFirst, Goto,
              signalVars, queueVars, recordVars
  <1>1. CASE UNCHANGED vars
    BY <1>1 DEF vars
  <1>2. CASE Next
    <2> exit = "none"
      BY <1>2 DEF Next
    <2>1. CASE notifyShutdownSignals
      BY <2>1 DEF notifyShutdownSignals
    <2>2. CASE NotifyContext
      BY <2>2 DEF NotifyContext
    <2>3. CASE NewKafkaMessageProducer
      <3>1. CASE pc' = "newReader"
        BY <2>3, <3>1 DEF NewKafkaMessageProducer
      <3>2. CASE pc' = "result"
        BY <2>3, <3>2 DEF NewKafkaMessageProducer
      <3> QED
        BY <2>3, <3>1, <3>2 DEF NewKafkaMessageProducer
    <2>4. CASE NewKafkaMessageReader
      <3>1. CASE InitFails("newReader")
        BY <3>1 DEF InitFails
      <3>2. CASE ~ InitFails("newReader")
        BY <2>4, <3>2 DEF NewKafkaMessageReader
      <3> QED
        BY <3>1, <3>2
    <2>5. CASE pingKafkaBrokers
      <3>1. CASE InitFails("ping")
        BY <3>1 DEF InitFails
      <3>2. CASE ~ InitFails("ping")
        BY <2>5, <3>2 DEF pingKafkaBrokers
      <3> QED
        BY <3>1, <3>2
    <2>6. CASE checkKafkaTopicAccess
      <3>1. CASE InitFails("check")
        BY <3>1 DEF InitFails
      <3>2. CASE ~ InitFails("check")
        BY <2>6, <3>2 DEF checkKafkaTopicAccess
      <3> QED
        BY <3>1, <3>2
    <2>7. CASE ReadInterrupted
      BY <2>7 DEF ReadInterrupted, Interrupted
    <2>8. CASE StopInit
      <3>1. TypeOK' /\ Flags'
        BY Zenon, <2>8 DEF StopInit
      <3>2. Clients' /\ Heard' /\ ByASignal'
        BY <2>8 DEF StopInit
      <3>3. Records' /\ NeverLeftOpen' /\ LeavesForAReason' /\ FlushedFirst'
        BY <2>8 DEF StopInit
      <3> QED
        BY Zenon, <3>1, <3>2, <3>3
    <2>9. CASE Leave
      BY <2>9 DEF Leave
    <2>10. CASE Fatal
      BY <2>10 DEF Fatal
    <2>11. CASE Serve
      BY <2>11 DEF Serve
    <2>12. CASE ListenAndServe
      BY Zenon, <2>12 DEF ListenAndServe
    <2>13. CASE AwaitShutdown
      BY <2>13 DEF AwaitShutdown
    <2>14. CASE Flush
      <3>1. CASE buffer > 0
        BY Zenon, <2>14, <3>1 DEF Flush
      <3>2. CASE ~ (buffer > 0)
        BY <2>14, <3>2 DEF Flush
      <3> QED
        BY <2>14, <3>1, <3>2 DEF Flush
    <2>15. CASE CloseProducer
      BY <2>15 DEF CloseProducer
    <2>16. CASE CloseReader
      BY <2>16 DEF CloseReader
    <2>17. CASE StopSignals
      <3>1. TypeOK' /\ Flags'
        BY Zenon, <2>17 DEF StopSignals
      <3>2. Clients' /\ Heard' /\ ByASignal'
        BY <2>17 DEF StopSignals
      <3>3. Records'
        BY <2>17 DEF StopSignals
      <3>4. NeverLeftOpen' /\ LeavesForAReason' /\ FlushedFirst'
        BY <2>17 DEF StopSignals
      <3> QED
        BY Zenon, <3>1, <3>2, <3>3, <3>4
    <2>18. CASE Return
      BY <2>18 DEF Return
    <2>19. CASE TakeSignal
      BY <2>19 DEF TakeSignal
    <2>20. CASE ShutdownEnds
      BY <2>20 DEF ShutdownEnds
    <2>21. CASE ProduceMessage
      <3> USE <2>21 DEF ProduceMessage, HasAdapter
      <3>1. late' \in BOOLEAN
        OBVIOUS
      <3>2. CASE producer = "open"
        BY <3>1, <3>2
      <3>3. CASE producer # "open"
        <4>1. pc \in {"closeReader", "stopSignals", "return"}
          BY <3>3
        <4>2. late' = TRUE
          BY Zenon, <4>1
        <4>3. TypeOK' /\ Flags' /\ Clients'
          BY <3>3, <4>1, <4>2
        <4>4. Heard' /\ ByASignal' /\ Records'
          BY <3>3, <4>1, <4>2
        <4>5. NeverLeftOpen' /\ LeavesForAReason' /\ FlushedFirst'
          BY <3>3, <4>1, <4>2
        <4> QED
          BY Zenon, <4>3, <4>4, <4>5
      <3> QED
        BY <3>2, <3>3
    <2>22. CASE Delivered
      BY <2>22 DEF Delivered
    <2>23. CASE Signal
      BY <2>23 DEF Signal, OnChannel
    <2> QED
      BY Zenon, <1>2, <2>1, <2>2, <2>3, <2>4, <2>5, <2>6, <2>7, <2>8, <2>9, <2>10,
         <2>11, <2>12, <2>13, <2>14, <2>15, <2>16, <2>17, <2>18, <2>19,
         <2>20, <2>21, <2>22, <2>23
         DEF Next, Running, MainStep, WaiterStep
  <1> QED
    BY <1>1, <1>2

(* The invariant of the lifecycle holds in every reachable state.          *)
THEOREM Lifecycle == Spec => []Inv
  BY InitInv, NextInv, PTL DEF Spec

(* The types, and the room of the signal channel.                          *)
THEOREM TypeCorrect == Spec => []TypeOK
  <1>1. Inv => TypeOK
    BY DEF Inv
  <1> QED
    BY <1>1, Lifecycle, PTL

(* However and whenever the process ends (a return, a failed start or a    *)
(* signal without a receiver), the Kafka clients were closed before.       *)
THEOREM ClosedBeforeExit == Spec => []NeverLeftOpen
  <1>1. Inv => NeverLeftOpen
    BY DEF Inv
  <1> QED
    BY <1>1, Lifecycle, PTL

(* The server never returns by itself: stopInit's own cancellation is not  *)
(* taken for a signal.                                                     *)
THEOREM ReturnsForAReason == Spec => []LeavesForAReason
  <1>1. Inv => LeavesForAReason
    BY DEF Inv
  <1> QED
    BY <1>1, Lifecycle, PTL

(* Close of the producer gives up only what a flush that timed out left,   *)
(* and records handed over after the flush.                                *)
THEOREM GivenUpAfterFlush == Spec => []FlushedFirst
  <1>1. Inv => FlushedFirst
    BY DEF Inv
  <1> QED
    BY <1>1, Lifecycle, PTL
=============================================================================
