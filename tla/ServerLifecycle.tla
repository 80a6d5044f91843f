-------------------------- MODULE ServerLifecycle --------------------------
(***************************************************************************)
(* The synchronizer server from its start to its exit, with a Kafka        *)
(* message queue: main of cmd/server/main.go, the construction of the      *)
(* queue in adapters/backend/v1/kafka.go and the producer's Close.  Two    *)
(* receivers can hear a shutdown signal: a channel with room for one       *)
(* signal, for the whole run, and a context for the initialization.        *)
(* Websocket connections are hijacked from the HTTP server, whose Shutdown *)
(* does not wait for them: they hand records to the producer until the     *)
(* process exits.                                                          *)
(***************************************************************************)
EXTENDS Naturals

CONSTANTS
    MaxSignals,        \* bound: signals the process gets
    MaxRecords         \* bound: records handed to the producer

ASSUME LifecycleAssumption == MaxSignals \in Nat /\ MaxRecords \in Nat

VARIABLES
    pc,                \* where main is
    waiter,            \* where the goroutine that waits for a signal is
    receiver,          \* is the channel registered for signals
    signals,           \* how many signals are on the channel
    scoped,            \* is the context of the initialization registered
    initDone,          \* was that context cancelled by a signal
    interrupted,       \* what main read of it
    failed,            \* did the initialization or ListenAndServe fail
    producer, reader,  \* the Kafka clients
    buffer,            \* records the producer has not delivered
    produced, dropped, \* records handed over, and records given up
    timedOut,          \* did the flush end by its timeout
    late,              \* was a record handed over after the flush
    sent,              \* signals sent to the process
    exit               \* "none", or how the process ended

signalVars == <<receiver, signals, scoped, initDone, sent>>
queueVars == <<producer, reader>>
recordVars == <<buffer, produced, dropped, timedOut, late>>
vars == <<pc, waiter, signalVars, interrupted, failed, queueVars, recordVars,
          exit>>

Init ==
    /\ pc = "start" /\ waiter = "none"
    /\ receiver = FALSE /\ signals = 0 /\ scoped = FALSE /\ initDone = FALSE
    /\ interrupted = FALSE /\ failed = FALSE
    /\ producer = "none" /\ reader = "none"
    /\ buffer = 0 /\ produced = 0 /\ dropped = 0
    /\ timedOut = FALSE /\ late = FALSE
    /\ sent = 0
    /\ exit = "none"

Goto(from, to) == pc = from /\ pc' = to

-----------------------------------------------------------------------------
(* Initialization.                                                         *)

notifyShutdownSignals ==
    /\ Goto("start", "notified")
    /\ receiver' = TRUE
    /\ UNCHANGED <<waiter, signals, scoped, initDone, sent, interrupted, failed,
                   queueVars, recordVars, exit>>

NotifyContext ==
    /\ Goto("notified", "newProducer")
    /\ scoped' = TRUE
    /\ UNCHANGED <<waiter, receiver, signals, initDone, sent, interrupted,
                   failed, queueVars, recordVars, exit>>

(* newKafkaFromConfig.  A step that fails closes what was opened before.   *)
NewKafkaMessageProducer ==
    /\ \/ Goto("newProducer", "newReader") /\ producer' = "open"
          /\ UNCHANGED failed
       \/ Goto("newProducer", "result") /\ failed' = TRUE
          /\ UNCHANGED producer
    /\ UNCHANGED <<waiter, signalVars, interrupted, reader, recordVars, exit>>

InitFails(at) ==
    /\ Goto(at, "result")
    /\ failed' = TRUE
    /\ producer' = "closed"
    /\ reader' = IF reader = "open" THEN "closed" ELSE reader
    /\ UNCHANGED <<waiter, signalVars, interrupted, recordVars, exit>>

NewKafkaMessageReader ==
    \/ InitFails("newReader")
    \/ /\ Goto("newReader", "ping")
       /\ reader' = "open"
       /\ UNCHANGED <<waiter, signalVars, interrupted, failed, producer,
                      recordVars, exit>>

(* Both run under the context of the initialization and within a budget.   *)
pingKafkaBrokers ==
    \/ InitFails("ping")
    \/ /\ ~ initDone
       /\ Goto("ping", "check")
       /\ UNCHANGED <<waiter, signalVars, interrupted, failed, queueVars,
                      recordVars, exit>>

checkKafkaTopicAccess ==
    \/ InitFails("check")
    \/ /\ ~ initDone
       /\ Goto("check", "result")
       /\ UNCHANGED <<waiter, signalVars, interrupted, failed, queueVars,
                      recordVars, exit>>

(* Mutant: the context is read after stopInit, which cancels it.           *)
InterruptedAfterStop == TRUE

Interrupted == initDone

ReadInterrupted ==
    /\ Goto("result", "stopInit")
    /\ interrupted' = Interrupted
    /\ UNCHANGED <<waiter, signalVars, failed, queueVars, recordVars, exit>>

StopInit ==
    /\ Goto("stopInit", "decide")
    /\ scoped' = FALSE
    /\ UNCHANGED <<waiter, receiver, signals, initDone, sent, interrupted,
                   failed, queueVars, recordVars, exit>>

(* Mutant: an interrupted initialization leaves without closing the queue. *)
LeaveOpen ==
    /\ interrupted
    /\ Goto("decide", "stopSignals")
    /\ UNCHANGED <<waiter, signalVars, interrupted, failed, queueVars,
                   recordVars, exit>>

Leave ==
    /\ interrupted
    /\ Goto("decide", IF failed THEN "stopSignals" ELSE "flush")
    /\ UNCHANGED <<waiter, signalVars, interrupted, failed, queueVars,
                   recordVars, exit>>

Fatal ==
    /\ pc = "decide" /\ ~ interrupted /\ failed
    /\ exit' = "fatal"
    /\ UNCHANGED <<pc, waiter, signalVars, interrupted, failed, queueVars,
                   recordVars>>

-----------------------------------------------------------------------------
(* Serving, and the goroutine that waits for a signal.                     *)

Serve ==
    /\ ~ interrupted /\ ~ failed
    /\ Goto("decide", "serving")
    /\ waiter' = "waiting"
    /\ UNCHANGED <<signalVars, interrupted, failed, queueVars, recordVars, exit>>

TakeSignal ==
    /\ waiter = "waiting" /\ signals > 0
    /\ signals' = signals - 1
    /\ waiter' = "shutdown"
    /\ UNCHANGED <<pc, receiver, scoped, initDone, sent, interrupted, failed,
                   queueVars, recordVars, exit>>

(* srv.Shutdown ends, at the latest by its timeout.                        *)
ShutdownEnds ==
    /\ waiter = "shutdown"
    /\ waiter' = "done"
    /\ UNCHANGED <<pc, signalVars, interrupted, failed, queueVars, recordVars,
                   exit>>

ListenAndServe ==
    /\ \/ waiter \in {"shutdown", "done"} /\ Goto("serving", "await")
          /\ UNCHANGED failed
       \/ Goto("serving", "flush") /\ failed' = TRUE
    /\ UNCHANGED <<waiter, signalVars, interrupted, queueVars, recordVars, exit>>

AwaitShutdown ==
    /\ waiter = "done"
    /\ Goto("await", "flush")
    /\ UNCHANGED <<waiter, signalVars, interrupted, failed, queueVars,
                   recordVars, exit>>

-----------------------------------------------------------------------------
(* The deferred calls of main: Close of the producer and of the reader,    *)
(* then the registration of the signals.                                   *)

(* Mutant: the producer is closed without a flush.                         *)
NoFlush ==
    /\ Goto("flush", "closeProducer")
    /\ UNCHANGED <<waiter, signalVars, interrupted, failed, queueVars,
                   recordVars, exit>>

Flush ==
    /\ Goto("flush", "closeProducer")
    /\ timedOut' = (buffer > 0)
    /\ UNCHANGED <<waiter, signalVars, interrupted, failed, queueVars, buffer,
                   produced, dropped, late, exit>>

CloseProducer ==
    /\ Goto("closeProducer", "closeReader")
    /\ producer' = "closed"
    /\ dropped' = dropped + buffer
    /\ buffer' = 0
    /\ UNCHANGED <<waiter, signalVars, interrupted, failed, reader, produced,
                   timedOut, late, exit>>

CloseReader ==
    /\ Goto("closeReader", "stopSignals")
    /\ reader' = "closed"
    /\ UNCHANGED <<waiter, signalVars, interrupted, failed, producer,
                   recordVars, exit>>

StopSignals ==
    /\ Goto("stopSignals", "return")
    /\ receiver' = FALSE
    /\ UNCHANGED <<waiter, signals, scoped, initDone, sent, interrupted, failed,
                   queueVars, recordVars, exit>>

Return ==
    /\ pc = "return"
    /\ exit' = "returned"
    /\ UNCHANGED <<pc, waiter, signalVars, interrupted, failed, queueVars,
                   recordVars>>

-----------------------------------------------------------------------------
(* Records, and signals.                                                   *)

HasAdapter ==
    pc \notin {"start", "notified", "newProducer", "newReader", "ping", "check",
               "result", "stopInit", "decide"} /\ waiter # "none"

ProduceMessage ==
    /\ HasAdapter /\ produced < MaxRecords
    /\ produced' = produced + 1
    /\ late' = (late \/ pc \in {"closeProducer", "closeReader", "stopSignals",
                                "return"})
    /\ IF producer = "open"
       THEN buffer' = buffer + 1 /\ UNCHANGED dropped
       ELSE dropped' = dropped + 1 /\ UNCHANGED buffer
    /\ UNCHANGED <<pc, waiter, signalVars, interrupted, failed, queueVars,
                   timedOut, exit>>

Delivered ==
    /\ buffer > 0
    /\ buffer' = buffer - 1
    /\ UNCHANGED <<pc, waiter, signalVars, interrupted, failed, queueVars,
                   produced, dropped, timedOut, late, exit>>

(* Mutant: the channel has no room for a signal nobody waits for.          *)
OnChannelUnbuffered == IF waiter = "waiting" THEN 1 ELSE signals

(* Mutant: the channel takes every signal.                                 *)
OnChannelUnbounded == signals + 1

(* A signal that finds the channel full is dropped.                        *)
OnChannel == 1

(* Without a receiver the signal ends the process.                         *)
Signal ==
    /\ sent < MaxSignals
    /\ sent' = sent + 1
    /\ IF receiver
       THEN /\ signals' = OnChannel
            /\ initDone' = (initDone \/ scoped)
            /\ UNCHANGED exit
       ELSE exit' = "killed" /\ UNCHANGED <<signals, initDone>>
    /\ UNCHANGED <<pc, waiter, receiver, scoped, interrupted, failed, queueVars,
                   recordVars>>

-----------------------------------------------------------------------------
MainStep ==
    \/ notifyShutdownSignals \/ NotifyContext
    \/ NewKafkaMessageProducer \/ NewKafkaMessageReader
    \/ pingKafkaBrokers \/ checkKafkaTopicAccess
    \/ ReadInterrupted \/ StopInit \/ Leave \/ Fatal
    \/ Serve \/ ListenAndServe \/ AwaitShutdown
    \/ Flush \/ CloseProducer \/ CloseReader \/ StopSignals \/ Return

WaiterStep == TakeSignal \/ ShutdownEnds

Running == MainStep \/ WaiterStep \/ ProduceMessage \/ Delivered \/ Signal

Next == exit = "none" /\ Running

Spec == Init /\ [][Next]_vars

(* main and the goroutine run; a ping, a flush and a shutdown of the HTTP  *)
(* server end by their timeouts.  A failure of ListenAndServe is not       *)
(* assumed.                                                                *)
Fairness ==
    /\ WF_vars(exit = "none" /\ MainStep /\ ~ (pc = "serving" /\ failed'))
    /\ WF_vars(exit = "none" /\ WaiterStep)

FairSpec == Spec /\ Fairness

-----------------------------------------------------------------------------
(* Properties.                                                             *)

(* The variables have their types; the signal channel has room for one.    *)
TypeOK ==
    /\ waiter \in {"none", "waiting", "shutdown", "done"}
    /\ signals \in 0 .. 1
    /\ sent \in 0 .. MaxSignals /\ produced \in 0 .. MaxRecords
    /\ buffer \in 0 .. produced /\ dropped \in 0 .. produced
    /\ producer \in {"none", "open", "closed"}
    /\ reader \in {"none", "open", "closed"}
    /\ exit \in {"none", "returned", "fatal", "killed"}

(* main.go:37, "no window is left where a signal has no receiver and the   *)
(* default disposition kills the process before the cleanup runs": however *)
(* the process ends, at whatever moment signals arrive, the queue's        *)
(* clients are not left open.                                              *)
NeverLeftOpen == exit # "none" => producer # "open" /\ reader # "open"

(* main.go:82, the context "read before stopInit": the server leaves only  *)
(* because of a signal or of a failure.                                    *)
LeavesForAReason == exit = "returned" => sent > 0 \/ failed

(* kafka.go:297, "flush first to avoid dropping in-flight messages": a     *)
(* record is given up only if the flush ran into its timeout, or if a      *)
(* connection handed it over after the flush.                              *)
FlushedFirst == dropped > 0 => timedOut \/ late

(* A signal that any receiver can hear ends the process, also one that     *)
(* arrives between the initialization and the serving.                     *)
SignalHeeded == sent > 0 ~> exit # "none"
=============================================================================
