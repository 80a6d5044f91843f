------------------------ MODULE MessageReaderProofs ------------------------
(***************************************************************************)
(* Proofs about the message-queue readers, for any topic and any number of *)
(* workers.                                                                *)
(***************************************************************************)
EXTENDS MessageReader, FiniteSetTheorems, TLAPS

(* Time for slow machines.                                                 *)
USE SMTT(30), ZenonT(30)

(* Positions in ascending order; those of one sequence before those of     *)
(* another; and the ones no position of a sequence exceeds.                *)
Ascending(s) == \A i, j \in 1 .. Len(s) : i < j => s[i] < s[j]
Before(s, t) == \A i \in 1 .. Len(s), j \in 1 .. Len(t) : s[i] < t[j]
UpTo(s, n) == \A i \in 1 .. Len(s) : s[i] <= n
Foreign(s) == \A i \in 1 .. Len(s) : ~ Topic[s[i]].self

(* Records wait in the batch, then on the channel, and then are taken.     *)
Pipeline ==
    /\ loop \notin {"fetched", "each"} => batch = <<>>
    /\ Ascending(taken) /\ Ascending(messageChannel) /\ Ascending(batch)
    /\ Before(taken, messageChannel) /\ Before(taken, batch)
    /\ Before(messageChannel, batch)
    /\ UpTo(taken, fetched) /\ UpTo(messageChannel, fetched) /\ UpTo(batch, fetched)
    /\ Foreign(taken) /\ Foreign(messageChannel)

(* Who has closed the channel: the loop of Kafka, which is over by then,   *)
(* or the stopper of Pulsar, which has waited for the workers.             *)
Closing ==
    /\ Kafka /\ closed => loop \in {"wait", "stopped"}
    /\ Pulsar /\ closed => stopper # "wait"
    /\ stopper # "wait" => Pulsar /\ AllExited
    /\ NeverSendsOnClosed /\ NeverReceivesNil

(* Where a record that was handed out can be, unless the context is done.  *)
InHand(i) == \E w \in Worker : worker[w].at = "handling" /\ worker[w].record = i
On(s, i) == \E j \in 1 .. Len(s) : s[j] = i

Kept ==
    ~ ctxDone => \A i \in 1 .. fetched :
        Topic[i].self \/ i \in handled \/ InHand(i) \/ On(messageChannel, i)
           \/ On(batch, i)

OnlyFetched ==
    /\ \A i \in handled : i <= fetched /\ ~ Topic[i].self
    /\ \A i \in Position : InHand(i) => i <= fetched /\ ~ Topic[i].self

(* A worker of Kafka ends when the channel is closed and empty, or when    *)
(* the context is done, and the loop ends after all of them.               *)
Ended ==
    /\ Kafka /\ ~ ctxDone /\ (\E w \in Worker : worker[w].at = "exited") =>
          closed /\ messageChannel = <<>>
    /\ Kafka /\ loop = "stopped" => AllExited

ReaderInv == TypeOK /\ Pipeline /\ Closing /\ Kept /\ OnlyFetched /\ Ended

-----------------------------------------------------------------------------
(* Sequences of positions.                                                 *)

LEMMA TailType ==
    ASSUME NEW S, NEW s \in Seq(S), s # <<>>
    PROVE /\ Tail(s) \in Seq(S) /\ Head(s) \in S
          /\ Len(s) \in Nat \ {0} /\ Len(Tail(s)) = Len(s) - 1
          /\ Head(s) = s[1]
          /\ \A i \in 1 .. Len(s) - 1 : Tail(s)[i] = s[i + 1]
OBVIOUS

LEMMA AppendType ==
    ASSUME NEW S, NEW s \in Seq(S), NEW e \in S
    PROVE /\ Append(s, e) \in Seq(S)
          /\ Len(s) \in Nat /\ Len(Append(s, e)) = Len(s) + 1
          /\ Append(s, e)[Len(s) + 1] = e
          /\ \A i \in 1 .. Len(s) : Append(s, e)[i] = s[i]
OBVIOUS

(* What holds of a sequence holds of its tail.                             *)
LEMMA TailKeeps ==
    ASSUME NEW s \in Seq(Nat), s # <<>>, NEW n \in Nat, UpTo(s, n), Ascending(s)
    PROVE UpTo(Tail(s), n) /\ Ascending(Tail(s))
PROOF
<1>1. \A i \in 1 .. Len(s) : s[i] \in Nat
  OBVIOUS
<1> QED BY <1>1, TailType DEF UpTo, Ascending

LEMMA TailAfter ==
    ASSUME NEW s \in Seq(Nat), NEW t \in Seq(Nat), t # <<>>, Before(s, t)
    PROVE Before(s, Tail(t))
BY TailType DEF Before

(* The head of t moves to the end of s.                                    *)
LEMMA HeadMoves ==
    ASSUME NEW s \in Seq(Nat), NEW t \in Seq(Nat), t # <<>>, NEW n \in Nat,
           Ascending(s), Ascending(t), Before(s, t), UpTo(s, n), UpTo(t, n)
    PROVE /\ Ascending(Append(s, Head(t))) /\ UpTo(Append(s, Head(t)), n)
          /\ Before(Append(s, Head(t)), Tail(t))
PROOF
<1> DEFINE a == Append(s, Head(t))
<1>1. /\ Head(t) \in Nat /\ Head(t) = t[1] /\ Len(t) \in Nat \ {0}
      /\ Len(Tail(t)) = Len(t) - 1
      /\ \A i \in 1 .. Len(t) - 1 : Tail(t)[i] = t[i + 1]
  BY TailType
<1>2. /\ Len(s) \in Nat /\ Len(a) = Len(s) + 1
      /\ a[Len(s) + 1] = t[1] /\ \A i \in 1 .. Len(s) : a[i] = s[i]
  BY <1>1, AppendType
<1>3. /\ \A i \in 1 .. Len(s) : s[i] \in Nat
      /\ \A i \in 1 .. Len(t) : t[i] \in Nat
  OBVIOUS
<1> HIDE DEF a
<1>4. \A i \in 1 .. Len(a) : i \in 1 .. Len(s) \/ i = Len(s) + 1
  BY <1>2
<1>5. \A i \in 1 .. Len(Tail(t)) : i + 1 \in 1 .. Len(t) /\ 1 < i + 1
  BY <1>1
<1>6. 1 \in 1 .. Len(t)
  BY <1>1
<1>7. \A i \in 1 .. Len(s) : s[i] < t[1]
  BY <1>6 DEF Before
<1>8. Ascending(a)
  <2> SUFFICES ASSUME NEW i \in 1 .. Len(a), NEW j \in 1 .. Len(a), i < j
               PROVE a[i] < a[j]
    BY DEF Ascending
  <2>1. i \in 1 .. Len(s)
    BY <1>2
  <2> QED BY Zenon, <1>2, <1>4, <1>7, <2>1 DEF Ascending
<1>9. UpTo(a, n)
  BY Zenon, <1>2, <1>4, <1>6 DEF UpTo
<1>10. Before(a, Tail(t))
  <2> SUFFICES ASSUME NEW i \in 1 .. Len(a), NEW j \in 1 .. Len(Tail(t))
               PROVE a[i] < Tail(t)[j]
    BY DEF Before
  <2>1. Tail(t)[j] = t[j + 1] /\ j + 1 \in 1 .. Len(t) /\ 1 < j + 1
    BY <1>1, <1>5
  <2>2. t[1] < t[j + 1]
    BY <2>1, <1>6 DEF Ascending
  <2>3. CASE i \in 1 .. Len(s)
    BY <2>1, <2>3, <1>2 DEF Before
  <2>4. CASE i = Len(s) + 1
    BY <2>1, <2>2, <2>4, <1>2
  <2> QED BY <1>4, <2>3, <2>4
<1> QED BY <1>8, <1>9, <1>10 DEF a

(* It stays before what s and t are before, and after what precedes t.     *)
LEMMA HeadBefore ==
    ASSUME NEW s \in Seq(Nat), NEW t \in Seq(Nat), t # <<>>,
           NEW r \in Seq(Nat), Before(s, r), Before(t, r)
    PROVE Before(Append(s, Head(t)), r)
PROOF
<1> DEFINE a == Append(s, Head(t))
<1>1. Head(t) \in Nat /\ Head(t) = t[1] /\ Len(t) \in Nat \ {0}
  BY TailType
<1>2. /\ Len(s) \in Nat /\ Len(a) = Len(s) + 1
      /\ a[Len(s) + 1] = t[1] /\ \A i \in 1 .. Len(s) : a[i] = s[i]
  BY <1>1, AppendType
<1> HIDE DEF a
<1>3. \A i \in 1 .. Len(a) : i \in 1 .. Len(s) \/ i = Len(s) + 1
  BY <1>2
<1>4. \A j \in 1 .. Len(r) : t[1] < r[j]
  BY <1>1 DEF Before
<1>5. Before(a, r)
  BY Zenon, <1>2, <1>3, <1>4 DEF Before
<1> QED BY <1>5 DEF a

LEMMA HeadAfter ==
    ASSUME NEW s \in Seq(Nat), NEW t \in Seq(Nat), t # <<>>,
           NEW r \in Seq(Nat), Before(r, s), Before(r, t)
    PROVE Before(r, Append(s, Head(t)))
PROOF
<1> DEFINE a == Append(s, Head(t))
<1>1. Head(t) \in Nat /\ Head(t) = t[1] /\ Len(t) \in Nat \ {0}
  BY TailType
<1>2. /\ Len(s) \in Nat /\ Len(a) = Len(s) + 1
      /\ a[Len(s) + 1] = t[1] /\ \A i \in 1 .. Len(s) : a[i] = s[i]
  BY <1>1, AppendType
<1> HIDE DEF a
<1>3. \A i \in 1 .. Len(a) : i \in 1 .. Len(s) \/ i = Len(s) + 1
  BY <1>2
<1>4. \A j \in 1 .. Len(r) : r[j] < t[1]
  BY <1>1 DEF Before
<1>5. Before(r, a)
  BY Zenon, <1>2, <1>3, <1>4 DEF Before
<1> QED BY <1>5 DEF a

LEMMA ForeignMoves ==
    ASSUME NEW s \in Seq(Nat), NEW e \in Nat, Foreign(s), ~ Topic[e].self
    PROVE Foreign(Append(s, e))
BY AppendType DEF Foreign

(* What is on a sequence is its head or on its tail, and stays when the    *)
(* sequence grows.                                                         *)
LEMMA OnTail ==
    ASSUME NEW S, NEW s \in Seq(S), s # <<>>, NEW i, On(s, i)
    PROVE i = Head(s) \/ On(Tail(s), i)
PROOF
<1>1. PICK j \in 1 .. Len(s) : s[j] = i
  BY DEF On
<1>2. CASE j = 1
  BY <1>1, <1>2, TailType
<1>3. CASE j # 1
  <2>1. j - 1 \in 1 .. Len(s) - 1 /\ (j - 1) + 1 = j
    BY <1>3
  <2>2. Tail(s)[j - 1] = i /\ j - 1 \in 1 .. Len(Tail(s))
    BY <1>1, <2>1, TailType
  <2> QED BY <2>2 DEF On
<1> QED BY <1>2, <1>3

LEMMA OnAppend ==
    ASSUME NEW S, NEW s \in Seq(S), NEW e \in S, NEW i, On(s, i) \/ i = e
    PROVE On(Append(s, e), i)
BY AppendType DEF On

-----------------------------------------------------------------------------
(* Every step keeps the types.                                             *)

LEMMA ControlKept ==
    ASSUME TypeOK, [Next]_vars
    PROVE ControlTypes'
PROOF
<1> USE ReaderAssumption DEF vars, loopVars, chanVars, outside, history,
      TypeOK, ControlTypes
<1>1. CASE PollFetches
  BY <1>1 DEF PollFetches, LoopGoto, Kafka
<1>2. CASE ContextCheck
  BY <1>2 DEF ContextCheck, LoopGoto
<1>3. CASE ReaderNext
  BY <1>3 DEF ReaderNext, LoopGoto, Pulsar
<1>4. CASE EachDone
  BY <1>4 DEF EachDone, LoopGoto
<1>5. CASE SkipSelfProduced
  BY <1>5 DEF SkipSelfProduced, IsSelfProducedMessage
<1>6. CASE Send
  BY <1>6 DEF Send, Selecting, IsSelfProducedMessage, HasRoom
<1>7. CASE GiveUp
  BY <1>7 DEF GiveUp, Selecting, IsSelfProducedMessage, Kafka
<1>8. CASE CloseChannel
  BY <1>8 DEF CloseChannel, LoopGoto, Kafka
<1>9. CASE WorkersStopped
  BY <1>9 DEF WorkersStopped, LoopGoto, AllExited
<1>10. CASE CloseReader
  BY <1>10 DEF CloseReader, StopperGoto, AllExited, Pulsar
<1>11. CASE StopCloses
  BY <1>11 DEF StopCloses, StopperGoto, Pulsar
<1>12. CASE DoneReceived
  BY <1>12 DEF DoneReceived, StopperGoto, Selecting, Pulsar
<1>13. ASSUME NEW w \in Worker, Take(w) PROVE ControlTypes'
  BY <1>13 DEF Take, WorkerGoto
<1>14. ASSUME NEW w \in Worker, Handle(w) PROVE ControlTypes'
  BY <1>14 DEF Handle, WorkerGoto
<1>15. ASSUME NEW w \in Worker, WorkerCancelled(w) PROVE ControlTypes'
  BY <1>15 DEF WorkerCancelled, WorkerGoto
<1>16. ASSUME NEW w \in Worker, WorkerDrained(w) PROVE ControlTypes'
  BY <1>16 DEF WorkerDrained, WorkerGoto, ReceivesNothing, Kafka
<1>17. CASE CloseClient
  BY <1>17 DEF CloseClient
<1>18. CASE CancelContext
  BY <1>18 DEF CancelContext
<1>19. CASE UNCHANGED vars
  BY <1>19
<1> HIDE DEF TypeOK, ControlTypes
<1> QED BY <1>1, <1>2, <1>3, <1>4, <1>5, <1>6, <1>7, <1>8, <1>9, <1>10,
         <1>11, <1>12, <1>13, <1>14, <1>15, <1>16, <1>17, <1>18, <1>19
     DEF Next, Running, LoopStep, StopStep, WorkerStep

LEMMA FlagsKept ==
    ASSUME TypeOK, [Next]_vars
    PROVE FlagTypes'
PROOF
<1> USE ReaderAssumption DEF vars, loopVars, chanVars, outside, history,
      TypeOK, FlagTypes
<1>1. CASE PollFetches
  BY <1>1 DEF PollFetches, LoopGoto, Kafka
<1>2. CASE ContextCheck
  BY <1>2 DEF ContextCheck, LoopGoto
<1>3. CASE ReaderNext
  BY <1>3 DEF ReaderNext, LoopGoto, Pulsar
<1>4. CASE EachDone
  BY <1>4 DEF EachDone, LoopGoto
<1>5. CASE SkipSelfProduced
  BY <1>5 DEF SkipSelfProduced, IsSelfProducedMessage
<1>6. CASE Send
  BY <1>6 DEF Send, Selecting, IsSelfProducedMessage, HasRoom
<1>7. CASE GiveUp
  BY <1>7 DEF GiveUp, Selecting, IsSelfProducedMessage, Kafka
<1>8. CASE CloseChannel
  BY <1>8 DEF CloseChannel, LoopGoto, Kafka
<1>9. CASE WorkersStopped
  BY <1>9 DEF WorkersStopped, LoopGoto, AllExited
<1>10. CASE CloseReader
  BY <1>10 DEF CloseReader, StopperGoto, AllExited, Pulsar
<1>11. CASE StopCloses
  BY <1>11 DEF StopCloses, StopperGoto, Pulsar
<1>12. CASE DoneReceived
  BY <1>12 DEF DoneReceived, StopperGoto, Selecting, Pulsar
<1>13. ASSUME NEW w \in Worker, Take(w) PROVE FlagTypes'
  BY <1>13 DEF Take, WorkerGoto
<1>14. ASSUME NEW w \in Worker, Handle(w) PROVE FlagTypes'
  BY <1>14 DEF Handle, WorkerGoto
<1>15. ASSUME NEW w \in Worker, WorkerCancelled(w) PROVE FlagTypes'
  BY <1>15 DEF WorkerCancelled, WorkerGoto
<1>16. ASSUME NEW w \in Worker, WorkerDrained(w) PROVE FlagTypes'
  BY <1>16 DEF WorkerDrained, WorkerGoto, ReceivesNothing, Kafka
<1>17. CASE CloseClient
  BY <1>17 DEF CloseClient
<1>18. CASE CancelContext
  BY <1>18 DEF CancelContext
<1>19. CASE UNCHANGED vars
  BY <1>19
<1> HIDE DEF TypeOK, FlagTypes
<1> QED BY <1>1, <1>2, <1>3, <1>4, <1>5, <1>6, <1>7, <1>8, <1>9, <1>10,
         <1>11, <1>12, <1>13, <1>14, <1>15, <1>16, <1>17, <1>18, <1>19
     DEF Next, Running, LoopStep, StopStep, WorkerStep

LEMMA RecordsKept ==
    ASSUME TypeOK, [Next]_vars
    PROVE RecordTypes'
PROOF
<1> USE ReaderAssumption DEF vars, loopVars, chanVars, outside, history,
      TypeOK, RecordTypes, WorkerTypes, Position
<1>1. CASE PollFetches
  <2>1. UNCHANGED <<messageChannel, taken, handled>>
    BY <1>1 DEF PollFetches
  <2>2. batch' \in Seq(Position) /\ fetched' \in 0 .. Len(Topic)
    <3>1. CASE UNCHANGED <<fetched, batch>>
      BY <3>1
    <3>2. CASE \E n \in fetched + 1 .. Len(Topic) :
                  /\ fetched' = n
                  /\ batch' = [i \in 1 .. n - fetched |-> fetched + i]
      BY <3>2
    <3> QED BY <1>1, <3>1, <3>2 DEF PollFetches
  <2> QED BY Zenon, <2>1, <2>2
<1>2. CASE ContextCheck
  <2>1. batch' = <<>> \/ batch' = batch
    BY <1>2 DEF ContextCheck
  <2>2. batch' \in Seq(Position)
    <3>1. <<>> \in Seq(Position) /\ batch \in Seq(Position)
      OBVIOUS
    <3> HIDE DEF TypeOK, RecordTypes, Position
    <3> QED BY Zenon, <2>1, <3>1
  <2>3. UNCHANGED <<fetched, messageChannel, taken, handled>>
    BY <1>2 DEF ContextCheck
  <2> QED BY <2>2, <2>3
<1>3. CASE ReaderNext
  <2>1. batch' \in Seq(Position) /\ fetched' \in 0 .. Len(Topic)
    <3>1. CASE fetched' = fetched + 1 /\ fetched < Len(Topic) /\ batch' = <<fetched + 1>>
      BY <3>1
    <3>2. CASE UNCHANGED <<fetched, batch>>
      BY <3>2
    <3> QED BY Zenon, <1>3, <3>1, <3>2 DEF ReaderNext
  <2> QED BY <1>3, <2>1 DEF ReaderNext
<1>4. CASE EachDone
  BY Zenon, <1>4 DEF EachDone, LoopGoto
<1>5. CASE SkipSelfProduced
  BY <1>5 DEF SkipSelfProduced, IsSelfProducedMessage
<1>6. CASE Send
  <2>1. CASE UNCHANGED <<messageChannel, batch>>
    BY Zenon, <1>6, <2>1 DEF Send
  <2>2. CASE /\ HasRoom /\ batch # <<>>
             /\ messageChannel' = Append(messageChannel, Head(batch))
             /\ batch' = Tail(batch)
    <3>1. Head(batch) \in Position /\ batch' \in Seq(Position)
      BY <2>2, TailType
    <3>2. /\ messageChannel' \in Seq(Position)
          /\ Len(messageChannel') = Len(messageChannel) + 1
      BY <2>2, <3>1, AppendType
    <3>3. Workers \in Nat
      BY FS_CardinalityType DEF Workers
    <3>4. Len(messageChannel') <= Workers
      BY <2>2, <3>2, <3>3 DEF HasRoom
    <3> QED BY <1>6, <3>1, <3>2, <3>4 DEF Send
  <2> QED BY Zenon, <1>6, <2>1, <2>2 DEF Send, Selecting
<1>7. CASE GiveUp
  BY <1>7 DEF GiveUp, Selecting, IsSelfProducedMessage, Kafka
<1>8. CASE CloseChannel
  BY <1>8 DEF CloseChannel, LoopGoto, Kafka
<1>9. CASE WorkersStopped
  BY <1>9 DEF WorkersStopped, LoopGoto, AllExited
<1>10. CASE CloseReader
  BY <1>10 DEF CloseReader, StopperGoto, AllExited, Pulsar
<1>11. CASE StopCloses
  BY <1>11 DEF StopCloses, StopperGoto, Pulsar
<1>12. CASE DoneReceived
  BY <1>12 DEF DoneReceived, StopperGoto, Selecting, Pulsar
<1>13. ASSUME NEW w \in Worker, Take(w) PROVE RecordTypes'
  <2>1. /\ messageChannel # <<>>
        /\ taken' = Append(taken, Head(messageChannel))
        /\ messageChannel' = Tail(messageChannel)
    BY <1>13 DEF Take
  <2>2. /\ Head(messageChannel) \in Position
        /\ messageChannel' \in Seq(Position)
        /\ Len(messageChannel') = Len(messageChannel) - 1
        /\ Len(messageChannel) \in Nat
    BY <2>1, TailType
  <2>3. Workers \in Nat
    BY FS_CardinalityType DEF Workers
  <2>4. Len(messageChannel') <= Workers
    BY <2>2, <2>3
  <2>5. taken' \in Seq(Position)
    BY Zenon, <2>1, <2>2, AppendType
  <2> QED BY Zenon, <1>13, <2>2, <2>4, <2>5 DEF Take
<1>14. ASSUME NEW w \in Worker, Handle(w) PROVE RecordTypes'
  BY Zenon, <1>14 DEF Handle, WorkerGoto
<1>15. ASSUME NEW w \in Worker, WorkerCancelled(w) PROVE RecordTypes'
  BY Zenon, <1>15 DEF WorkerCancelled, WorkerGoto
<1>16. ASSUME NEW w \in Worker, WorkerDrained(w) PROVE RecordTypes'
  BY Zenon, <1>16 DEF WorkerDrained, WorkerGoto, ReceivesNothing, Kafka
<1>17. CASE CloseClient
  BY <1>17 DEF CloseClient
<1>18. CASE CancelContext
  BY <1>18 DEF CancelContext
<1>19. CASE UNCHANGED vars
  BY <1>19
<1> HIDE DEF TypeOK, RecordTypes, WorkerTypes, Position
<1> QED BY <1>1, <1>2, <1>3, <1>4, <1>5, <1>6, <1>7, <1>8, <1>9, <1>10,
         <1>11, <1>12, <1>13, <1>14, <1>15, <1>16, <1>17, <1>18, <1>19
     DEF Next, Running, LoopStep, StopStep, WorkerStep

LEMMA WorkersKept ==
    ASSUME TypeOK, [Next]_vars
    PROVE WorkerTypes'
PROOF
<1> USE ReaderAssumption DEF vars, loopVars, chanVars, outside, history,
      TypeOK, RecordTypes, WorkerTypes, Position
<1>1. CASE PollFetches
  BY <1>1 DEF PollFetches, LoopGoto, Kafka
<1>2. CASE ContextCheck
  BY <1>2 DEF ContextCheck, LoopGoto
<1>3. CASE ReaderNext
  BY <1>3 DEF ReaderNext, LoopGoto, Pulsar
<1>4. CASE EachDone
  BY <1>4 DEF EachDone, LoopGoto
<1>5. CASE SkipSelfProduced
  BY Zenon, <1>5 DEF SkipSelfProduced, IsSelfProducedMessage
<1>6. CASE Send
  BY <1>6 DEF Send, Selecting, IsSelfProducedMessage, HasRoom
<1>7. CASE GiveUp
  BY <1>7 DEF GiveUp, Selecting, IsSelfProducedMessage, Kafka
<1>8. CASE CloseChannel
  BY <1>8 DEF CloseChannel, LoopGoto, Kafka
<1>9. CASE WorkersStopped
  BY <1>9 DEF WorkersStopped, LoopGoto, AllExited
<1>10. CASE CloseReader
  BY <1>10 DEF CloseReader, StopperGoto, AllExited, Pulsar
<1>11. CASE StopCloses
  BY <1>11 DEF StopCloses, StopperGoto, Pulsar
<1>12. CASE DoneReceived
  BY Zenon, <1>12 DEF DoneReceived, StopperGoto, Selecting, Pulsar
<1>13. ASSUME NEW w \in Worker, Take(w) PROVE WorkerTypes'
  BY <1>13 DEF Take, WorkerGoto
<1>14. ASSUME NEW w \in Worker, Handle(w) PROVE WorkerTypes'
  BY Zenon, <1>14 DEF Handle, WorkerGoto
<1>15. ASSUME NEW w \in Worker, WorkerCancelled(w) PROVE WorkerTypes'
  BY Zenon, <1>15 DEF WorkerCancelled, WorkerGoto
<1>16. ASSUME NEW w \in Worker, WorkerDrained(w) PROVE WorkerTypes'
  <2>1. worker' = worker \/ worker' = [worker EXCEPT ![w] = [at |-> "exited"]]
    BY <1>16 DEF WorkerDrained, WorkerGoto
  <2>2. CASE worker' = worker
    BY <2>2
  <2>3. CASE worker' = [worker EXCEPT ![w] = [at |-> "exited"]]
    BY <2>3
  <2> QED BY Zenon, <2>1, <2>2, <2>3
<1>17. CASE CloseClient
  BY <1>17 DEF CloseClient
<1>18. CASE CancelContext
  BY <1>18 DEF CancelContext
<1>19. CASE UNCHANGED vars
  BY <1>19
<1> HIDE DEF TypeOK, RecordTypes, WorkerTypes, Position
<1> QED BY <1>1, <1>2, <1>3, <1>4, <1>5, <1>6, <1>7, <1>8, <1>9, <1>10,
         <1>11, <1>12, <1>13, <1>14, <1>15, <1>16, <1>17, <1>18, <1>19
     DEF Next, Running, LoopStep, StopStep, WorkerStep

-----------------------------------------------------------------------------
(* Every step keeps the other conjuncts.                                   *)

LEMMA PipelineKept ==
    ASSUME TypeOK, Pipeline, [Next]_vars
    PROVE Pipeline'
PROOF
<1> USE ReaderAssumption DEF vars, loopVars, chanVars, outside, history,
      TypeOK, ControlTypes, RecordTypes, Position, Pipeline
<1>1. CASE PollFetches
  <2>1. CASE UNCHANGED <<fetched, batch>>
    BY Zenon, <1>1, <2>1 DEF PollFetches, LoopGoto
  <2>2. CASE \E n \in fetched + 1 .. Len(Topic) :
                /\ fetched' = n
                /\ batch' = [i \in 1 .. n - fetched |-> fetched + i]
    <3>1. PICK n \in fetched + 1 .. Len(Topic) :
             fetched' = n /\ batch' = [i \in 1 .. n - fetched |-> fetched + i]
      BY Zenon, <2>2
    <3>2. Len(batch') = n - fetched /\ n \in Nat /\ fetched \in Nat /\ fetched < n
      BY <3>1
    <3>3. /\ \A i \in 1 .. Len(messageChannel) :
                messageChannel[i] \in Nat /\ messageChannel[i] <= fetched
          /\ \A i \in 1 .. Len(taken) : taken[i] \in Nat /\ taken[i] <= fetched
      <4>1. messageChannel \in Seq(Nat) /\ taken \in Seq(Nat)
        OBVIOUS
      <4>2. UpTo(messageChannel, fetched) /\ UpTo(taken, fetched)
        OBVIOUS
      <4> HIDE DEF Pipeline, RecordTypes, TypeOK
      <4> QED BY <4>1, <4>2 DEF UpTo
    <3>4. \A i \in 1 .. Len(batch') :
             batch'[i] = fetched + i /\ i \in Nat /\ i > 0 /\ i <= n - fetched
      BY <3>1, <3>2
    <3>5. UNCHANGED <<messageChannel, taken>> /\ loop' = "fetched"
      BY <1>1, <2>2, <3>1, <3>2 DEF PollFetches, LoopGoto
    <3>6. Ascending(batch')
      BY <3>2, <3>4 DEF Ascending
    <3>7. Before(taken', batch') /\ Before(messageChannel', batch')
      <4> HIDE DEF Pipeline, RecordTypes, TypeOK
      <4>1. \A j \in 1 .. Len(batch') : batch'[j] \in Nat /\ batch'[j] > fetched
        BY <3>2, <3>4
      <4> QED BY <3>2, <3>3, <3>5, <4>1 DEF Before
    <3>8. /\ UpTo(batch', fetched') /\ UpTo(taken', fetched')
          /\ UpTo(messageChannel', fetched')
      BY <3>1, <3>2, <3>3, <3>4, <3>5 DEF UpTo
    <3> QED BY Zenon, <3>5, <3>6, <3>7, <3>8
  <2> QED BY Zenon, <1>1, <2>1, <2>2 DEF PollFetches
<1>2. CASE ContextCheck
  <2>1. CASE loop' = "exit" /\ batch' = <<>>
    BY <1>2, <2>1 DEF ContextCheck, Ascending, Before, UpTo
  <2>2. CASE loop' = "each" /\ batch' = batch
    BY Zenon, <1>2, <2>2 DEF ContextCheck
  <2> QED BY Zenon, <1>2, <2>1, <2>2 DEF ContextCheck, LoopGoto
<1>3. CASE ReaderNext
  <2>1. CASE UNCHANGED <<fetched, batch>>
    BY Zenon, <1>3, <2>1 DEF ReaderNext, LoopGoto
  <2>2. CASE fetched' = fetched + 1 /\ batch' = <<fetched + 1>> /\ loop' = "each"
    <3>1. Len(batch') = 1 /\ batch'[1] = fetched + 1 /\ fetched \in Nat
      BY <2>2
    <3>2. /\ \A i \in 1 .. Len(messageChannel) :
                messageChannel[i] \in Nat /\ messageChannel[i] <= fetched
          /\ \A i \in 1 .. Len(taken) : taken[i] \in Nat /\ taken[i] <= fetched
      BY DEF UpTo
    <3>3. UNCHANGED <<messageChannel, taken>>
      BY Zenon, <1>3 DEF ReaderNext
    <3>4. Ascending(batch')
      BY <3>1 DEF Ascending
    <3>5. Before(taken', batch') /\ Before(messageChannel', batch')
      <4> HIDE DEF Pipeline, RecordTypes, TypeOK
      <4>1. \A j \in 1 .. Len(batch') : batch'[j] \in Nat /\ batch'[j] > fetched
        BY <3>1
      <4> QED BY <3>1, <3>2, <3>3, <4>1 DEF Before
    <3>6. /\ UpTo(batch', fetched') /\ UpTo(taken', fetched')
          /\ UpTo(messageChannel', fetched')
      BY <2>2, <3>1, <3>2, <3>3 DEF UpTo
    <3> QED BY Zenon, <2>2, <3>3, <3>4, <3>5, <3>6
  <2> QED BY Zenon, <1>3, <2>1, <2>2 DEF ReaderNext, LoopGoto
<1>4. CASE EachDone
  BY Zenon, <1>4 DEF EachDone, LoopGoto
<1>5. CASE SkipSelfProduced
  <2>1. /\ batch \in Seq(Nat) /\ messageChannel \in Seq(Nat)
        /\ taken \in Seq(Nat) /\ fetched \in Nat
    OBVIOUS
  <2>2. /\ batch # <<>> /\ batch' = Tail(batch) /\ loop = "each"
        /\ UNCHANGED <<fetched, loop, messageChannel, taken>>
    BY Zenon, <1>5 DEF SkipSelfProduced
  <2> QED BY Zenon, <2>1, <2>2, TailKeeps, TailAfter
<1>6. CASE Send
  <2>1. /\ batch \in Seq(Nat) /\ messageChannel \in Seq(Nat)
        /\ taken \in Seq(Nat) /\ fetched \in Nat
    OBVIOUS
  <2>2. CASE UNCHANGED <<messageChannel, batch>>
    BY Zenon, <1>6, <2>2 DEF Send
  <2>3. CASE /\ messageChannel' = Append(messageChannel, Head(batch))
             /\ batch' = Tail(batch)
    <3>1. /\ batch # <<>> /\ loop = "each" /\ ~ Topic[Head(batch)].self
          /\ UNCHANGED <<fetched, loop, taken>>
      BY Zenon, <1>6 DEF Send, Selecting, IsSelfProducedMessage
    <3>2. Ascending(batch') /\ UpTo(batch', fetched)
      BY Zenon, <2>1, <2>3, <3>1, TailKeeps
    <3>3. /\ Ascending(messageChannel') /\ UpTo(messageChannel', fetched)
          /\ Before(messageChannel', batch')
      BY Zenon, <2>1, <2>3, <3>1, HeadMoves
    <3>4. Before(taken, messageChannel') /\ Before(taken, batch')
      BY Zenon, <2>1, <2>3, <3>1, HeadAfter, TailAfter
    <3>5. Foreign(messageChannel')
      BY Zenon, <2>1, <2>3, <3>1, TailType, ForeignMoves
    <3> QED BY Zenon, <3>1, <3>2, <3>3, <3>4, <3>5
  <2> QED BY Zenon, <1>6, <2>2, <2>3 DEF Send
<1>7. CASE GiveUp
  <2>1. /\ batch \in Seq(Nat) /\ messageChannel \in Seq(Nat)
        /\ taken \in Seq(Nat) /\ fetched \in Nat
    OBVIOUS
  <2>2. /\ batch # <<>> /\ batch' = Tail(batch) /\ loop = "each"
        /\ UNCHANGED <<fetched, loop, messageChannel, taken>>
    BY Zenon, <1>7 DEF GiveUp, Selecting
  <2> QED BY <2>1, <2>2, TailKeeps, TailAfter
<1>8. CASE CloseChannel
  BY Zenon, <1>8 DEF CloseChannel, LoopGoto, Kafka
<1>9. CASE WorkersStopped
  BY Zenon, <1>9 DEF WorkersStopped, LoopGoto, AllExited
<1>10. CASE CloseReader
  BY Zenon, <1>10 DEF CloseReader, StopperGoto, AllExited, Pulsar
<1>11. CASE StopCloses
  BY Zenon, <1>11 DEF StopCloses, StopperGoto, Pulsar
<1>12. CASE DoneReceived
  BY Zenon, <1>12 DEF DoneReceived, StopperGoto, Selecting, Pulsar
<1>13. ASSUME NEW w \in Worker, Take(w) PROVE Pipeline'
  <2>1. /\ batch \in Seq(Nat) /\ messageChannel \in Seq(Nat)
        /\ taken \in Seq(Nat) /\ fetched \in Nat
    OBVIOUS
  <2>2. /\ messageChannel # <<>>
        /\ taken' = Append(taken, Head(messageChannel))
        /\ messageChannel' = Tail(messageChannel)
        /\ UNCHANGED <<fetched, loop, batch>>
    BY Zenon, <1>13 DEF Take
  <2>3. Ascending(messageChannel') /\ UpTo(messageChannel', fetched)
    BY Zenon, <2>1, <2>2, TailKeeps
  <2>4. /\ Ascending(taken') /\ UpTo(taken', fetched)
        /\ Before(taken', messageChannel')
    BY Zenon, <2>1, <2>2, HeadMoves
  <2>5. Before(taken', batch)
    BY Zenon, <2>1, <2>2, HeadBefore
  <2>6. /\ Head(messageChannel) \in Nat /\ Head(messageChannel) = messageChannel[1]
        /\ Len(messageChannel) \in Nat \ {0}
        /\ Len(messageChannel') = Len(messageChannel) - 1
        /\ \A i \in 1 .. Len(messageChannel) - 1 :
              messageChannel'[i] = messageChannel[i + 1]
    BY Zenon, <2>1, <2>2, TailType
  <2>7. Foreign(messageChannel')
    <3>1. \A i \in 1 .. Len(messageChannel') :
              /\ i + 1 \in 1 .. Len(messageChannel)
              /\ messageChannel'[i] = messageChannel[i + 1]
      BY <2>6
    <3> QED
      BY Zenon, <3>1 DEF Foreign
  <2>8. ~ Topic[Head(messageChannel)].self
    <3>1. 1 \in 1 .. Len(messageChannel)
      BY <2>6
    <3> QED
      BY Zenon, <2>6, <3>1 DEF Foreign
  <2>9. Foreign(taken')
    BY Zenon, <2>1, <2>2, <2>6, <2>8, ForeignMoves
  <2>10. Before(messageChannel', batch)
    <3>1. \A i \in 1 .. Len(messageChannel') : i + 1 \in 1 .. Len(messageChannel)
      BY <2>6
    <3>2. Before(messageChannel, batch)
      OBVIOUS
    <3> HIDE DEF Pipeline, RecordTypes, TypeOK
    <3> QED BY Zenon, <2>6, <3>1, <3>2 DEF Before
  <2> QED BY <2>2, <2>3, <2>4, <2>5, <2>7, <2>9, <2>10
<1>14. ASSUME NEW w \in Worker, Handle(w) PROVE Pipeline'
  BY Zenon, <1>14 DEF Handle, WorkerGoto
<1>15. ASSUME NEW w \in Worker, WorkerCancelled(w) PROVE Pipeline'
  BY Zenon, <1>15 DEF WorkerCancelled, WorkerGoto
<1>16. ASSUME NEW w \in Worker, WorkerDrained(w) PROVE Pipeline'
  BY Zenon, <1>16 DEF WorkerDrained, WorkerGoto, ReceivesNothing, Kafka
<1>17. CASE CloseClient
  BY Zenon, <1>17 DEF CloseClient
<1>18. CASE CancelContext
  BY Zenon, <1>18 DEF CancelContext
<1>19. CASE UNCHANGED vars
  BY Zenon, <1>19
<1> HIDE DEF TypeOK, ControlTypes, RecordTypes, Position, Pipeline
<1> QED BY Zenon, <1>1, <1>2, <1>3, <1>4, <1>5, <1>6, <1>7, <1>8, <1>9, <1>10,
         <1>11, <1>12, <1>13, <1>14, <1>15, <1>16, <1>17, <1>18, <1>19
     DEF Next, Running, LoopStep, StopStep, WorkerStep

LEMMA ClosingKept ==
    ASSUME TypeOK, Closing, [Next]_vars
    PROVE Closing'
PROOF
<1> USE ReaderAssumption DEF vars, loopVars, chanVars, outside, history,
      TypeOK, ControlTypes, WorkerTypes, Closing,
      NeverSendsOnClosed, NeverReceivesNil, AllExited, Kafka, Pulsar, Next
<1>1. CASE PollFetches
  BY Zenon, <1>1 DEF PollFetches, LoopGoto, Kafka
<1>2. CASE ContextCheck
  BY Zenon, <1>2 DEF ContextCheck, LoopGoto
<1>3. CASE ReaderNext
  BY Zenon, <1>3 DEF ReaderNext, LoopGoto, Pulsar
<1>4. CASE EachDone
  BY Zenon, <1>4 DEF EachDone, LoopGoto
<1>5. CASE SkipSelfProduced
  BY Zenon, <1>5 DEF SkipSelfProduced, IsSelfProducedMessage
<1>6. CASE Send
  BY Zenon, <1>6 DEF Send, Selecting, IsSelfProducedMessage, HasRoom
<1>7. CASE GiveUp
  BY Zenon, <1>7 DEF GiveUp, Selecting, IsSelfProducedMessage, Kafka
<1>8. CASE CloseChannel
  BY Zenon, <1>8 DEF CloseChannel, LoopGoto, Kafka
<1>9. CASE WorkersStopped
  BY Zenon, <1>9 DEF WorkersStopped, LoopGoto, AllExited
<1>10. CASE CloseReader
  BY Zenon, <1>10 DEF CloseReader, StopperGoto, AllExited, Pulsar
<1>11. CASE StopCloses
  BY Zenon, <1>11 DEF StopCloses, StopperGoto, Pulsar
<1>12. CASE DoneReceived
  BY Zenon, <1>12 DEF DoneReceived, StopperGoto, Selecting, Pulsar
<1>13. ASSUME NEW w \in Worker, Take(w) PROVE Closing'
  BY Zenon, <1>13 DEF Take, WorkerGoto
<1>14. ASSUME NEW w \in Worker, Handle(w) PROVE Closing'
  BY Zenon, <1>14 DEF Handle, WorkerGoto
<1>15. ASSUME NEW w \in Worker, WorkerCancelled(w) PROVE Closing'
  BY Zenon, <1>15 DEF WorkerCancelled, WorkerGoto
<1>16. ASSUME NEW w \in Worker, WorkerDrained(w) PROVE Closing'
  BY Zenon, <1>16 DEF WorkerDrained, WorkerGoto, ReceivesNothing, Kafka
<1>17. CASE CloseClient
  BY Zenon, <1>17 DEF CloseClient
<1>18. CASE CancelContext
  BY Zenon, <1>18 DEF CancelContext
<1>19. CASE UNCHANGED vars
  BY Zenon, <1>19
<1> HIDE DEF TypeOK, ControlTypes, WorkerTypes, Closing,
      NeverSendsOnClosed, NeverReceivesNil, AllExited, Kafka, Pulsar, Next
<1> QED BY <1>1, <1>2, <1>3, <1>4, <1>5, <1>6, <1>7, <1>8, <1>9, <1>10,
         <1>11, <1>12, <1>13, <1>14, <1>15, <1>16, <1>17, <1>18, <1>19
     DEF Next, Running, LoopStep, StopStep, WorkerStep

LEMMA NothingLost ==
    ASSUME TypeOK, Pipeline, Kept, [Next]_vars
    PROVE Kept'
PROOF
<1> USE ReaderAssumption DEF vars, loopVars, chanVars, outside, history,
      TypeOK, RecordTypes, Kept
<1>1. CASE PollFetches
  <2>1. UNCHANGED <<ctxDone, handled, worker, messageChannel>> /\ loop = "poll"
    BY Zenon, <1>1 DEF PollFetches, LoopGoto
  <2>2. CASE UNCHANGED <<fetched, batch>>
    BY Zenon, <2>1, <2>2 DEF InHand, On
  <2>3. CASE \E n \in fetched + 1 .. Len(Topic) :
                /\ fetched' = n
                /\ batch' = [i \in 1 .. n - fetched |-> fetched + i]
    <3>1. PICK n \in fetched + 1 .. Len(Topic) :
             fetched' = n /\ batch' = [i \in 1 .. n - fetched |-> fetched + i]
      BY <2>3
    <3>2. Len(batch') = n - fetched /\ n \in Nat /\ fetched \in Nat
      BY <3>1
    <3>3. ASSUME NEW i \in 1 .. n PROVE i \in 1 .. fetched \/ On(batch', i)
      <4>1. CASE i > fetched
        <5>1. i - fetched \in 1 .. n - fetched
          BY <3>2, <4>1
        <5>2. batch'[i - fetched] = i
          BY <3>1, <3>2, <5>1
        <5> QED BY <3>2, <5>1, <5>2 DEF On
      <4> QED BY <3>2, <4>1
    <3>4. \A i : ~ On(batch, i)
      BY <2>1 DEF On, Pipeline
    <3> QED BY Zenon, <2>1, <3>1, <3>3, <3>4 DEF InHand, On
  <2> QED BY <1>1, <2>2, <2>3 DEF PollFetches
<1>2. CASE ContextCheck
  <2>1. UNCHANGED <<ctxDone, fetched, handled, worker, messageChannel>>
    BY Zenon, <1>2 DEF ContextCheck
  <2>2. ~ ctxDone => batch' = batch
    BY Zenon, <1>2 DEF ContextCheck
  <2> QED BY Zenon, <2>1, <2>2 DEF InHand, On
<1>3. CASE ReaderNext
  <2>1. UNCHANGED <<ctxDone, handled, worker, messageChannel>> /\ loop = "poll"
    BY Zenon, <1>3 DEF ReaderNext, LoopGoto
  <2>2. CASE UNCHANGED <<fetched, batch>>
    BY Zenon, <2>1, <2>2 DEF InHand, On
  <2>3. CASE fetched' = fetched + 1 /\ batch' = <<fetched + 1>>
    <3>1. On(batch', fetched + 1)
      BY <2>3 DEF On
    <3>2. \A i \in 1 .. fetched' : i \in 1 .. fetched \/ i = fetched + 1
      BY <2>3
    <3>3. \A i : ~ On(batch, i)
      BY <2>1 DEF On, Pipeline
    <3> QED BY Zenon, <2>1, <2>3, <3>1, <3>2, <3>3 DEF InHand, On
  <2> QED BY Zenon, <1>3, <2>2, <2>3 DEF ReaderNext
<1>4. CASE EachDone
  <2>1. UNCHANGED <<ctxDone, fetched, handled, worker, messageChannel, batch>>
    BY Zenon, <1>4 DEF EachDone
  <2> QED BY <2>1 DEF InHand, On
<1>5. CASE SkipSelfProduced
  <2>1. UNCHANGED <<ctxDone, fetched, handled, worker, messageChannel>>
    BY Zenon, <1>5 DEF SkipSelfProduced
  <2>2. batch # <<>> /\ batch' = Tail(batch) /\ Topic[Head(batch)].self
    BY Zenon, <1>5 DEF SkipSelfProduced, IsSelfProducedMessage
  <2>3. \A i : On(batch, i) => i = Head(batch) \/ On(batch', i)
    BY Zenon, <2>2, OnTail
  <2> QED BY Zenon, <2>1, <2>2, <2>3 DEF InHand, On
<1>6. CASE Send
  <2>1. UNCHANGED <<ctxDone, fetched, handled, worker>>
    BY Zenon, <1>6 DEF Send
  <2>2. CASE UNCHANGED <<messageChannel, batch>>
    BY Zenon, <2>1, <2>2 DEF InHand, On
  <2>3. CASE /\ messageChannel' = Append(messageChannel, Head(batch))
             /\ batch' = Tail(batch)
    <3>1. batch # <<>>
      BY Zenon, <1>6 DEF Send, Selecting
    <3>2. \A i : On(batch, i) => i = Head(batch) \/ On(batch', i)
      BY Zenon, <2>3, <3>1, OnTail
    <3>3. \A i : On(messageChannel, i) \/ i = Head(batch) => On(messageChannel', i)
      BY Zenon, <2>3, <3>1, TailType, OnAppend
    <3> QED BY Zenon, <2>1, <3>2, <3>3 DEF InHand
  <2> QED BY <1>6, <2>2, <2>3 DEF Send
<1>7. CASE GiveUp
  <2>1. ctxDone'
    BY <1>7 DEF GiveUp
  <2> QED BY Zenon, <2>1
<1>8. CASE CloseChannel
  <2>1. UNCHANGED <<ctxDone, fetched, handled, worker, messageChannel, batch>>
    BY <1>8 DEF CloseChannel
  <2> QED BY <2>1 DEF InHand, On
<1>9. CASE WorkersStopped
  <2>1. UNCHANGED <<ctxDone, fetched, handled, worker, messageChannel, batch>>
    BY Zenon, <1>9 DEF WorkersStopped
  <2> QED BY <2>1 DEF InHand, On
<1>10. CASE CloseReader
  <2>1. UNCHANGED <<ctxDone, fetched, handled, worker, messageChannel, batch>>
    BY Zenon, <1>10 DEF CloseReader
  <2> QED BY <2>1 DEF InHand, On
<1>11. CASE StopCloses
  <2>1. UNCHANGED <<ctxDone, fetched, handled, worker, messageChannel, batch>>
    BY Zenon, <1>11 DEF StopCloses
  <2> QED BY <2>1 DEF InHand, On
<1>12. CASE DoneReceived
  <2>1. UNCHANGED <<ctxDone, fetched, handled, worker, messageChannel, batch>>
    BY Zenon, <1>12 DEF DoneReceived
  <2> QED BY <2>1 DEF InHand, On
<1>13. ASSUME NEW w \in Worker, Take(w) PROVE Kept'
  <2>1. UNCHANGED <<ctxDone, fetched, handled, batch>>
    BY Zenon, <1>13 DEF Take
  <2>2. messageChannel # <<>> /\ messageChannel' = Tail(messageChannel)
    BY Zenon, <1>13 DEF Take
  <2>3. /\ worker[w].at = "idle"
        /\ worker' = [worker EXCEPT ![w] =
                         [at |-> "handling", record |-> Head(messageChannel)]]
    BY Zenon, <1>13 DEF Take, WorkerGoto
  <2>4. \A i : i = Head(messageChannel) => InHand(i)'
    BY Zenon, <2>3 DEF InHand, WorkerTypes
  <2>5. \A i : InHand(i) => InHand(i)'
    BY Zenon, <2>3 DEF InHand, WorkerTypes
  <2>6. \A i : On(messageChannel, i) =>
               i = Head(messageChannel) \/ On(messageChannel', i)
    BY Zenon, <2>2, OnTail
  <2>7. ASSUME NEW i \in 1 .. fetched', ~ ctxDone'
        PROVE \/ Topic[i].self \/ i \in handled' \/ InHand(i)'
              \/ On(messageChannel', i) \/ On(batch', i)
    BY Zenon, <2>1, <2>4, <2>5, <2>6, <2>7
  <2> QED BY Zenon, <2>7 DEF On
<1>14. ASSUME NEW w \in Worker, Handle(w) PROVE Kept'
  <2>1. UNCHANGED <<ctxDone, fetched, messageChannel, batch>>
    BY Zenon, <1>14 DEF Handle
  <2>2. /\ worker[w].at = "handling" /\ handled' = handled \cup {worker[w].record}
        /\ worker' = [worker EXCEPT ![w] = [at |-> "idle"]]
    BY Zenon, <1>14 DEF Handle, WorkerGoto
  <2>3. \A i : InHand(i) => InHand(i)' \/ i \in handled'
    BY Zenon, <2>2 DEF InHand, WorkerTypes
  <2> QED BY Zenon, <2>1, <2>2, <2>3 DEF On
<1>15. ASSUME NEW w \in Worker, WorkerCancelled(w) PROVE Kept'
  <2>1. \A i : InHand(i) => InHand(i)'
    BY Zenon, <1>15 DEF WorkerCancelled, WorkerGoto, InHand, WorkerTypes, ReceivesNothing
  <2>2. UNCHANGED <<ctxDone, fetched, handled, messageChannel, batch>>
    BY Zenon, <1>15 DEF WorkerCancelled
  <2> QED BY Zenon, <2>1, <2>2 DEF On
<1>16. ASSUME NEW w \in Worker, WorkerDrained(w) PROVE Kept'
  <2>1. \A i : InHand(i) => InHand(i)'
    BY Zenon, <1>16 DEF WorkerDrained, WorkerGoto, InHand, WorkerTypes, ReceivesNothing
  <2>2. UNCHANGED <<ctxDone, fetched, handled, messageChannel, batch>>
    BY Zenon, <1>16 DEF WorkerDrained
  <2> QED BY <2>1, <2>2 DEF On
<1>17. CASE CloseClient
  <2>1. UNCHANGED <<ctxDone, fetched, handled, worker, messageChannel, batch>>
    BY Zenon, <1>17 DEF CloseClient
  <2> QED BY <2>1 DEF InHand, On
<1>18. CASE CancelContext
  BY <1>18 DEF CancelContext
<1>19. CASE UNCHANGED vars
  <2>1. UNCHANGED <<ctxDone, fetched, handled, worker, messageChannel, batch>>
    BY Zenon, <1>19
  <2> QED BY <2>1 DEF InHand, On
<1> HIDE DEF TypeOK, RecordTypes, Kept
<1> QED BY Zenon, <1>1, <1>2, <1>3, <1>4, <1>5, <1>6, <1>7, <1>8, <1>9, <1>10,
         <1>11, <1>12, <1>13, <1>14, <1>15, <1>16, <1>17, <1>18, <1>19
     DEF Next, Running, LoopStep, StopStep, WorkerStep

LEMMA NothingInvented ==
    ASSUME TypeOK, Pipeline, OnlyFetched, [Next]_vars
    PROVE OnlyFetched'
PROOF
<1> USE ReaderAssumption DEF vars, loopVars, chanVars, outside, history,
      TypeOK, RecordTypes, WorkerTypes, Position, OnlyFetched, InHand
<1>1. CASE PollFetches
  BY <1>1 DEF PollFetches, LoopGoto, Kafka
<1>2. CASE ContextCheck
  BY Zenon, <1>2 DEF ContextCheck, LoopGoto
<1>3. CASE ReaderNext
  BY <1>3 DEF ReaderNext, LoopGoto, Pulsar
<1>4. CASE EachDone
  BY Zenon, <1>4 DEF EachDone, LoopGoto
<1>5. CASE SkipSelfProduced
  BY Zenon, <1>5 DEF SkipSelfProduced, IsSelfProducedMessage
<1>6. CASE Send
  BY Zenon, <1>6 DEF Send, Selecting, IsSelfProducedMessage, HasRoom
<1>7. CASE GiveUp
  BY Zenon, <1>7 DEF GiveUp, Selecting, IsSelfProducedMessage, Kafka
<1>8. CASE CloseChannel
  BY Zenon, <1>8 DEF CloseChannel, LoopGoto, Kafka
<1>9. CASE WorkersStopped
  BY Zenon, <1>9 DEF WorkersStopped, LoopGoto, AllExited
<1>10. CASE CloseReader
  BY Zenon, <1>10 DEF CloseReader, StopperGoto, AllExited, Pulsar
<1>11. CASE StopCloses
  BY Zenon, <1>11 DEF StopCloses, StopperGoto, Pulsar
<1>12. CASE DoneReceived
  BY Zenon, <1>12 DEF DoneReceived, StopperGoto, Selecting, Pulsar
<1>13. ASSUME NEW w \in Worker, Take(w) PROVE OnlyFetched'
  <2>1. /\ worker[w].at = "idle" /\ messageChannel # <<>>
        /\ worker' = [worker EXCEPT ![w] =
                         [at |-> "handling", record |-> Head(messageChannel)]]
        /\ UNCHANGED <<fetched, handled>>
    BY Zenon, <1>13 DEF Take, WorkerGoto
  <2>2. /\ Head(messageChannel) = messageChannel[1]
        /\ 1 \in 1 .. Len(messageChannel)
    BY <2>1, TailType
  <2>3. Head(messageChannel) <= fetched /\ ~ Topic[Head(messageChannel)].self
    BY Zenon, <2>2 DEF Pipeline, UpTo, Foreign
  <2>4. \A i : InHand(i)' => InHand(i) \/ i = Head(messageChannel)
    BY Zenon, <2>1
  <2> QED BY Zenon, <2>1, <2>3, <2>4
<1>14. ASSUME NEW w \in Worker, Handle(w) PROVE OnlyFetched'
  BY Zenon, <1>14 DEF Handle, WorkerGoto
<1>15. ASSUME NEW w \in Worker, WorkerCancelled(w) PROVE OnlyFetched'
  BY Zenon, <1>15 DEF WorkerCancelled, WorkerGoto
<1>16. ASSUME NEW w \in Worker, WorkerDrained(w) PROVE OnlyFetched'
  BY <1>16 DEF WorkerDrained, WorkerGoto, ReceivesNothing, Kafka
<1>17. CASE CloseClient
  BY Zenon, <1>17 DEF CloseClient
<1>18. CASE CancelContext
  BY Zenon, <1>18 DEF CancelContext
<1>19. CASE UNCHANGED vars
  BY Zenon, <1>19
<1> HIDE DEF TypeOK, RecordTypes, WorkerTypes, Position, OnlyFetched, InHand
<1> QED BY <1>1, <1>2, <1>3, <1>4, <1>5, <1>6, <1>7, <1>8, <1>9, <1>10,
         <1>11, <1>12, <1>13, <1>14, <1>15, <1>16, <1>17, <1>18, <1>19
     DEF Next, Running, LoopStep, StopStep, WorkerStep

LEMMA EndedKept ==
    ASSUME TypeOK, Pipeline, Closing, Ended, [Next]_vars
    PROVE Ended'
PROOF
<1> USE ReaderAssumption DEF vars, loopVars, chanVars, outside, history,
      TypeOK, ControlTypes, WorkerTypes, Closing, Ended, AllExited, Kafka, Pulsar
<1>1. CASE PollFetches
  BY Zenon, <1>1 DEF PollFetches, LoopGoto, Kafka
<1>2. CASE ContextCheck
  BY Zenon, <1>2 DEF ContextCheck, LoopGoto
<1>3. CASE ReaderNext
  BY Zenon, <1>3 DEF ReaderNext, LoopGoto, Pulsar
<1>4. CASE EachDone
  BY Zenon, <1>4 DEF EachDone, LoopGoto
<1>5. CASE SkipSelfProduced
  BY Zenon, <1>5 DEF SkipSelfProduced, IsSelfProducedMessage
<1>6. CASE Send
  BY Zenon, <1>6 DEF Send, Selecting, IsSelfProducedMessage, HasRoom
<1>7. CASE GiveUp
  BY Zenon, <1>7 DEF GiveUp, Selecting, IsSelfProducedMessage, Kafka
<1>8. CASE CloseChannel
  BY Zenon, <1>8 DEF CloseChannel, LoopGoto, Kafka
<1>9. CASE WorkersStopped
  BY Zenon, <1>9 DEF WorkersStopped, LoopGoto, AllExited
<1>10. CASE CloseReader
  BY Zenon, <1>10 DEF CloseReader, StopperGoto, AllExited, Pulsar
<1>11. CASE StopCloses
  BY Zenon, <1>11 DEF StopCloses, StopperGoto, Pulsar
<1>12. CASE DoneReceived
  BY Zenon, <1>12 DEF DoneReceived, StopperGoto, Selecting, Pulsar
<1>13. ASSUME NEW w \in Worker, Take(w) PROVE Ended'
  BY Zenon, <1>13 DEF Take, WorkerGoto
<1>14. ASSUME NEW w \in Worker, Handle(w) PROVE Ended'
  BY Zenon, <1>14 DEF Handle, WorkerGoto
<1>15. ASSUME NEW w \in Worker, WorkerCancelled(w) PROVE Ended'
  BY Zenon, <1>15 DEF WorkerCancelled, WorkerGoto
<1>16. ASSUME NEW w \in Worker, WorkerDrained(w) PROVE Ended'
  BY Zenon, <1>16 DEF WorkerDrained, WorkerGoto, ReceivesNothing, Kafka
<1>17. CASE CloseClient
  BY Zenon, <1>17 DEF CloseClient
<1>18. CASE CancelContext
  BY Zenon, <1>18 DEF CancelContext
<1>19. CASE UNCHANGED vars
  BY <1>19
<1> HIDE DEF TypeOK, ControlTypes, WorkerTypes, Closing, Ended, AllExited, Kafka, Pulsar
<1> QED BY Zenon, <1>1, <1>2, <1>3, <1>4, <1>5, <1>6, <1>7, <1>8, <1>9, <1>10,
         <1>11, <1>12, <1>13, <1>14, <1>15, <1>16, <1>17, <1>18, <1>19
     DEF Next, Running, LoopStep, StopStep, WorkerStep

-----------------------------------------------------------------------------
LEMMA InitReader == Init => ReaderInv
PROOF
<1> SUFFICES ASSUME Init PROVE ReaderInv
  OBVIOUS
<1>1. Workers \in Nat /\ Len(Topic) \in Nat
  BY ReaderAssumption, FS_CardinalityType DEF Workers
<1>2. ControlTypes /\ FlagTypes
  BY Zenon DEF Init, ControlTypes, FlagTypes
<1>3. RecordTypes
  BY <1>1 DEF Init, RecordTypes
<1>4. WorkerTypes
  BY Zenon DEF Init, WorkerTypes
<1>5. Pipeline
  BY DEF Init, Pipeline, Ascending, Before, UpTo, Foreign
<1>6. Closing
  BY Zenon DEF Init, Closing, Kafka, Pulsar, NeverSendsOnClosed, NeverReceivesNil
<1>7. Kept
  BY DEF Init, Kept
<1>8. OnlyFetched
  BY Zenon DEF Init, OnlyFetched, InHand
<1>9. Ended
  BY Zenon DEF Init, Ended
<1> QED
  BY <1>2, <1>3, <1>4, <1>5, <1>6, <1>7, <1>8, <1>9 DEF ReaderInv, TypeOK

LEMMA NextReader == ReaderInv /\ [Next]_vars => ReaderInv'
BY ControlKept, FlagsKept, RecordsKept, WorkersKept, PipelineKept, ClosingKept,
   NothingLost, NothingInvented, EndedKept DEF ReaderInv, TypeOK

LEMMA ReaderInvariant == Spec => []ReaderInv
BY InitReader, NextReader, PTL DEF Spec

(* The variables keep their types and the channel its capacity, for every  *)
(* topic and every number of workers.                                      *)
THEOREM ReaderTypeCorrect == Spec => []TypeOK
PROOF
<1>1. ReaderInv => TypeOK
  BY DEF ReaderInv
<1> QED BY <1>1, ReaderInvariant, PTL

(* Kafka's loop sends nothing on the channel it has closed (the comment of *)
(* readerLoop, kafka.go:431).                                              *)
THEOREM NoSendOnClosed == Spec => []NeverSendsOnClosed
PROOF
<1>1. ReaderInv => NeverSendsOnClosed
  BY DEF ReaderInv, Closing
<1> QED BY <1>1, ReaderInvariant, PTL

(* No worker uses the nil of a closed channel: Pulsar's stop closes it     *)
(* only after all of them have ended.                                      *)
THEOREM NoNilReceived == Spec => []NeverReceivesNil
PROOF
<1>1. ReaderInv => NeverReceivesNil
  BY Zenon DEF ReaderInv, Closing
<1> QED BY <1>1, ReaderInvariant, PTL

(* The workers take the records in order, once, and none of the server's   *)
(* own.                                                                    *)
THEOREM RecordsTakenInOrder == Spec => []TakenInOrder
PROOF
<1>1. ReaderInv => TakenInOrder
  BY DEF ReaderInv, Pipeline, Ascending, Foreign, TakenInOrder
<1> QED BY <1>1, ReaderInvariant, PTL

(* A Kafka reader that a closed client ended has handled every record it   *)
(* was given: the loop leaves no batch behind, the workers no channel, and *)
(* none of them is still at work.                                          *)
THEOREM ReaderDrains == Spec => []Drained
PROOF
<1>1. ReaderInv => Drained
  <2> SUFFICES ASSUME ReaderInv, Kafka, loop = "stopped", ~ ctxDone
               PROVE handled = {i \in 1 .. fetched : ~ Topic[i].self}
    BY DEF Drained
  <2>1. AllExited
    BY DEF ReaderInv, Ended
  <2>2. messageChannel = <<>>
    <3>1. CASE Worker = {}
      <4>1. Workers = 0
        BY <3>1, FS_EmptySet DEF Workers
      <4> QED BY <4>1 DEF ReaderInv, TypeOK, RecordTypes
    <3>2. CASE Worker # {}
      BY <2>1, <3>2 DEF ReaderInv, Ended, AllExited
    <3> QED BY <3>1, <3>2
  <2>3. batch = <<>>
    BY DEF ReaderInv, Pipeline
  <2>4. \A i : ~ InHand(i) /\ ~ On(messageChannel, i) /\ ~ On(batch, i)
    BY <2>1, <2>2, <2>3 DEF AllExited, InHand, On
  <2>5. \A i \in 1 .. fetched : Topic[i].self \/ i \in handled
    BY <2>4 DEF ReaderInv, Kept
  <2>6. \A i \in handled : i \in 1 .. fetched /\ ~ Topic[i].self
    BY ReaderAssumption DEF ReaderInv, TypeOK, RecordTypes, Position, OnlyFetched
  <2> QED BY <2>5, <2>6
<1> QED BY <1>1, ReaderInvariant, PTL
=============================================================================
