--------------------------- MODULE MessageReader ---------------------------
(***************************************************************************)
(* The message-queue readers of the synchronizer server: Kafka             *)
(* (adapters/backend/v1/kafka.go) and Pulsar (pulsar.go).  A reader loop   *)
(* puts the records of a topic on a buffered Go channel, and worker        *)
(* goroutines take them off and handle them.  The two brokers differ in    *)
(* who closes the channel: the reader loop itself (Kafka), or a goroutine  *)
(* that waits for the workers (Pulsar).  A send on a closed channel, or    *)
(* the nil a receive from one yields, panics and ends the process.         *)
(***************************************************************************)
EXTENDS Naturals, Sequences, FiniteSets

CONSTANTS
    Topic,             \* the records of the topic, in order
    Worker             \* the worker goroutines

ASSUME ReaderAssumption ==
    /\ Topic \in Seq([self : BOOLEAN])
    /\ IsFiniteSet(Worker)

VARIABLES
    broker,            \* the configured queue, "kafka" or "pulsar"
    fetched,           \* how many records the broker's client has handed out
    batch,             \* positions of the fetched records not yet enqueued
    loop,              \* where the reader loop is
    messageChannel,    \* the positions on the channel
    closed,            \* is the channel closed
    worker,            \* Worker -> idle, handling a record, or exited
    stopper,           \* where the goroutine that stops a Pulsar reader is
    ctxDone,           \* is the server's context cancelled
    clientClosed,      \* is the broker's client closed
    taken,             \* history: the records the workers took, in order
    handled,           \* history: the records whose handling ended
    crash              \* "none", or why the process ended

loopVars == <<fetched, batch, loop>>
chanVars == <<messageChannel, closed>>
outside == <<broker, ctxDone, clientClosed>>
history == <<taken, handled>>
vars == <<loopVars, chanVars, worker, stopper, outside, history, crash>>

Kafka == broker = "kafka"
Pulsar == broker = "pulsar"
Workers == Cardinality(Worker)
AllExited == \A w \in Worker : worker[w].at = "exited"

Init ==
    /\ broker \in {"kafka", "pulsar"}
    /\ fetched = 0 /\ batch = <<>> /\ loop = "poll"
    /\ messageChannel = <<>> /\ closed = FALSE
    /\ worker = [w \in Worker |-> [at |-> "idle"]]
    /\ stopper = "wait"
    /\ ctxDone = FALSE /\ clientClosed = FALSE
    /\ taken = <<>> /\ handled = {}
    /\ crash = "none"

-----------------------------------------------------------------------------
(* The reader loop.                                                        *)

LoopGoto(from, to) == loop = from /\ loop' = to

(* What PollFetches returns: a closed client, a cancelled context, or some *)
(* records.  The context is looked at again before they are used.          *)
PollFetches ==
    /\ Kafka
    /\ \/ /\ clientClosed \/ ctxDone
          /\ LoopGoto("poll", "exit")
          /\ UNCHANGED <<fetched, batch>>
       \/ /\ ~ clientClosed
          /\ \E n \in fetched + 1 .. Len(Topic) :
                /\ fetched' = n
                /\ batch' = [i \in 1 .. n - fetched |-> fetched + i]
          /\ LoopGoto("poll", "fetched")
    /\ UNCHANGED <<chanVars, worker, stopper, outside, history, crash>>

ContextCheck ==
    /\ LoopGoto("fetched", IF ctxDone THEN "exit" ELSE "each")
    /\ batch' = IF ctxDone THEN <<>> ELSE batch
    /\ UNCHANGED <<fetched, chanVars, worker, stopper, outside, history, crash>>

(* reader.Next of Pulsar: an error ends the loop, a record of the server's *)
(* own is skipped.  Errors other than a closed consumer are fatal and are  *)
(* left out.                                                               *)
ReaderNext ==
    /\ Pulsar
    /\ \/ /\ clientClosed \/ ctxDone
          /\ LoopGoto("poll", "stopped")
          /\ UNCHANGED <<fetched, batch>>
       \/ /\ ~ clientClosed
          /\ fetched < Len(Topic)
          /\ fetched' = fetched + 1
          /\ LoopGoto("poll", "each")
          /\ batch' = <<fetched + 1>>
    /\ UNCHANGED <<chanVars, worker, stopper, outside, history, crash>>

(* Mutant: the server's own records are enqueued.                          *)
NeverSkipped == FALSE

IsSelfProducedMessage == Topic[Head(batch)].self

EachDone ==
    /\ batch = <<>>
    /\ LoopGoto("each", "poll")
    /\ UNCHANGED <<fetched, batch, chanVars, worker, stopper, outside, history,
                   crash>>

SkipSelfProduced ==
    /\ loop = "each" /\ batch # <<>>
    /\ IsSelfProducedMessage
    /\ batch' = Tail(batch)
    /\ UNCHANGED <<fetched, loop, chanVars, worker, stopper, outside, history,
                   crash>>

(* The select statement with the send on the channel.  A closed channel    *)
(* makes the send panic.                                                   *)
Selecting == loop = "each" /\ batch # <<>> /\ ~ IsSelfProducedMessage

(* Mutant: the capacity of the channel is off by one.                      *)
HasRoomOffByOne == Len(messageChannel) <= Workers

HasRoom == Len(messageChannel) < Workers

Send ==
    /\ Selecting
    /\ IF closed
       THEN crash' = "send" /\ UNCHANGED <<messageChannel, batch>>
       ELSE /\ HasRoom
            /\ messageChannel' = Append(messageChannel, Head(batch))
            /\ batch' = Tail(batch)
            /\ UNCHANGED crash
    /\ UNCHANGED <<fetched, loop, closed, worker, stopper, outside, history>>

(* Mutant: the loop waits for room whatever happened to the context.       *)
NoGiveUp == FALSE /\ UNCHANGED vars

(* The other case of the select of Kafka: the record is dropped.           *)
GiveUp ==
    /\ Kafka /\ Selecting /\ ctxDone
    /\ batch' = Tail(batch)
    /\ UNCHANGED <<fetched, loop, chanVars, worker, stopper, outside, history,
                   crash>>

-----------------------------------------------------------------------------
(* Closing the channel.                                                    *)

(* Mutant: the channel is closed as soon as the context is cancelled.      *)
CloseChannelEarly ==
    /\ Kafka /\ ctxDone /\ ~ closed
    /\ closed' = TRUE
    /\ loop' = IF loop = "exit" THEN "wait" ELSE loop
    /\ UNCHANGED <<fetched, batch, messageChannel, worker, stopper, outside,
                   history, crash>>

(* Kafka: the goroutine of the loop closes the channel after the loop.     *)
CloseChannel ==
    /\ Kafka
    /\ LoopGoto("exit", "wait")
    /\ closed' = TRUE
    /\ UNCHANGED <<fetched, batch, messageChannel, worker, stopper, outside,
                   history, crash>>

WorkersStopped ==
    /\ LoopGoto("wait", "stopped")
    /\ AllExited
    /\ UNCHANGED <<fetched, batch, chanVars, worker, stopper, outside, history,
                   crash>>

StopperGoto(from, to) == Pulsar /\ stopper = from /\ stopper' = to

(* Mutant: stop does not wait for the workers.                             *)
CloseReaderUnwaited ==
    /\ StopperGoto("wait", "close")
    /\ ctxDone
    /\ clientClosed' = TRUE
    /\ UNCHANGED <<loopVars, chanVars, worker, broker, ctxDone, history, crash>>

(* Pulsar: stop waits for the workers, closes the reader, closes the       *)
(* channel, and waits for the loop to take a message from done.            *)
CloseReader ==
    /\ StopperGoto("wait", "close")
    /\ AllExited
    /\ clientClosed' = TRUE
    /\ UNCHANGED <<loopVars, chanVars, worker, broker, ctxDone, history, crash>>

StopCloses ==
    /\ StopperGoto("close", "signal")
    /\ closed' = TRUE
    /\ UNCHANGED <<loopVars, messageChannel, worker, outside, history, crash>>

(* The loop receives from done: it logs a fatal error, which exits.        *)
DoneReceived ==
    /\ StopperGoto("signal", "end")
    /\ Selecting
    /\ crash' = "fatal"
    /\ UNCHANGED <<loopVars, chanVars, worker, outside, history>>

-----------------------------------------------------------------------------
(* The workers: listenOnMessageChannel.                                    *)

WorkerGoto(w, state) == worker' = [worker EXCEPT ![w] = state]

Take(w) ==
    /\ worker[w].at = "idle"
    /\ messageChannel # <<>>
    /\ WorkerGoto(w, [at |-> "handling", record |-> Head(messageChannel)])
    /\ taken' = Append(taken, Head(messageChannel))
    /\ messageChannel' = Tail(messageChannel)
    /\ UNCHANGED <<loopVars, closed, stopper, outside, handled, crash>>

Handle(w) ==
    /\ worker[w].at = "handling"
    /\ handled' = handled \cup {worker[w].record}
    /\ WorkerGoto(w, [at |-> "idle"])
    /\ UNCHANGED <<loopVars, chanVars, stopper, outside, taken, crash>>

(* Mutant: only a closed channel ends a worker.                            *)
WorkerWaitsForClose(w) ==
    /\ worker[w].at = "idle" /\ closed
    /\ WorkerGoto(w, [at |-> "exited"])
    /\ UNCHANGED <<loopVars, chanVars, stopper, outside, history, crash>>

WorkerCancelled(w) ==
    /\ worker[w].at = "idle" /\ ctxDone
    /\ WorkerGoto(w, [at |-> "exited"])
    /\ UNCHANGED <<loopVars, chanVars, stopper, outside, history, crash>>

(* Mutant: a closed channel ends the worker although it is not empty.      *)
ReceivesNothingEarly(w) == worker[w].at = "idle" /\ closed

(* A receive from a channel that is closed and empty returns at once.      *)
ReceivesNothing(w) == worker[w].at = "idle" /\ closed /\ messageChannel = <<>>

WorkerDrained(w) ==
    /\ ReceivesNothing(w)
    /\ IF Kafka THEN WorkerGoto(w, [at |-> "exited"]) /\ UNCHANGED crash
       ELSE crash' = "nil" /\ UNCHANGED worker
    /\ UNCHANGED <<loopVars, chanVars, stopper, outside, history>>

-----------------------------------------------------------------------------
(* The server: main closes the queue and cancels the context.              *)

CloseClient ==
    /\ ~ clientClosed
    /\ clientClosed' = TRUE
    /\ UNCHANGED <<loopVars, chanVars, worker, stopper, broker, ctxDone,
                   history, crash>>

CancelContext ==
    /\ ~ ctxDone
    /\ ctxDone' = TRUE
    /\ UNCHANGED <<loopVars, chanVars, worker, stopper, broker, clientClosed,
                   history, crash>>

LoopStep ==
    PollFetches \/ ContextCheck \/ ReaderNext \/ EachDone \/ SkipSelfProduced
        \/ Send \/ GiveUp \/ CloseChannel \/ WorkersStopped

StopStep == CloseReader \/ StopCloses \/ DoneReceived

WorkerStep(w) == Take(w) \/ Handle(w) \/ WorkerCancelled(w) \/ WorkerDrained(w)

Running ==
    \/ LoopStep \/ StopStep
    \/ \E w \in Worker : WorkerStep(w)
    \/ CloseClient \/ CancelContext

Next == crash = "none" /\ Running

Spec == Init /\ [][Next]_vars

(* Every goroutine runs, and a handler returns.  The server may never be   *)
(* shut down.                                                              *)
Fairness ==
    /\ WF_vars(crash = "none" /\ LoopStep)
    /\ WF_vars(crash = "none" /\ StopStep)
    /\ \A w \in Worker : WF_vars(crash = "none" /\ WorkerStep(w))

FairSpec == Spec /\ Fairness

-----------------------------------------------------------------------------
(* Properties.                                                             *)

Position == 1 .. Len(Topic)

ControlTypes ==
    /\ broker \in {"kafka", "pulsar"}
    /\ loop \in {"poll", "fetched", "each", "exit", "wait", "stopped"}
    /\ stopper \in {"wait", "close", "signal", "end"}
    /\ crash \in {"none", "send", "nil", "fatal"}

FlagTypes == closed \in BOOLEAN /\ ctxDone \in BOOLEAN /\ clientClosed \in BOOLEAN

RecordTypes ==
    /\ fetched \in 0 .. Len(Topic)
    /\ batch \in Seq(Position) /\ taken \in Seq(Position)
    /\ messageChannel \in Seq(Position) /\ Len(messageChannel) <= Workers
    /\ handled \subseteq Position

WorkerTypes ==
    worker \in [Worker -> [at : {"idle", "exited"}]
                            \cup [at : {"handling"}, record : Position]]

(* The variables have their types, and the channel is within its capacity  *)
(* (make(chan, workers)).                                                  *)
TypeOK == ControlTypes /\ FlagTypes /\ RecordTypes /\ WorkerTypes

(* kafka.go:431, "readerLoop is the sole writer, so it owns the close":    *)
(* however the shutdown interleaves with the loop and the workers, the     *)
(* Kafka loop sends nothing on the closed channel.                         *)
NeverSendsOnClosed == Kafka => crash # "send"

(* No worker receives from a closed channel, where Pulsar's would use nil: *)
(* stop waits for all of them.                                             *)
NeverReceivesNil == crash # "nil"

(* The workers take the records in the order of the topic, each once, and  *)
(* never one the server produced itself, which would travel back to the    *)
(* cluster it came from.                                                   *)
TakenInOrder ==
    /\ \A i \in 1 .. Len(taken) : ~ Topic[taken[i]].self
    /\ \A i, j \in 1 .. Len(taken) : i < j => taken[i] < taken[j]

(* kafka.go:432, "signals the workers to drain and exit": when a closed    *)
(* Kafka client ends the loop, every record it had handed out is handled   *)
(* before the reader is down; only a cancelled context drops some.         *)
Drained ==
    Kafka /\ loop = "stopped" /\ ~ ctxDone =>
        handled = {i \in 1 .. fetched : ~ Topic[i].self}

(* After a shutdown the Kafka reader ends: the loop cannot be stuck on a   *)
(* channel whose workers are gone, nor the workers on a channel nobody     *)
(* closes.                                                                 *)
ReaderStops ==
    Kafka /\ (ctxDone \/ clientClosed) ~> loop = "stopped" /\ AllExited

(* A cancelled context ends all the workers of either reader.              *)
WorkersStop == ctxDone ~> AllExited \/ crash # "none"
=============================================================================
