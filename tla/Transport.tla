----------------------------- MODULE Transport -----------------------------
(***************************************************************************)
(* The websocket between a synchronizer client and the server, and the     *)
(* goroutines that wait for each other around it (core/synchronizer.go).   *)
(*                                                                         *)
(* Each side has one goroutine that reads, one worker that handles what    *)
(* was read (inPool) and one that writes (outPool); giving a message to a  *)
(* busy worker waits, and so does writing to a full socket.  On the client *)
(* the writer is also the one that replaces a connection: it closes it,    *)
(* dials, and stores the new one in s.Conn, which the reader looks at      *)
(* again for every read and, after an error, for the close.                *)
(*                                                                         *)
(* Messages are counted, not told apart.  The server's end of a connection *)
(* that is not open is left out: a dial comes with a session of its own.   *)
(***************************************************************************)
EXTENDS Naturals

CONSTANTS
    SocketBuffer,  \* messages a socket takes before a write waits
    MaxAnswers,    \* messages the client sends while it handles one
    MaxFaults      \* connections that break, or are closed in vain

ASSUME BoundAssumption ==
    /\ SocketBuffer \in Nat \ {0}
    /\ MaxAnswers \in Nat
    /\ MaxFaults \in Nat

(* The goroutines of the client that send on their own: the ping, the      *)
(* watches of the in-cluster adapter, requests to the HTTP endpoint.       *)
Source == {"ping", "watch", "http"}

VARIABLES
    conn,      \* s.Conn of the client: "open", "broken" (unnoticed), "closed"
    up,        \* messages in the socket, towards the server
    down,      \* messages in the socket, towards the client
    waiting,   \* sources that wait in outPool.Invoke
    sender,    \* the outPool worker: "idle", "write", "dial" or "rewrite"
    reader,    \* the read loop of the client
    handler,   \* answers the inPool worker has yet to send; 0: it is idle
    session,   \* the goroutines of the server
    faults

vars == <<conn, up, down, waiting, sender, reader, handler, session, faults>>

ReaderPC == {"read", "stale", "invoke", "failed", "wait", "stranded"}

(* What the server's goroutines do: has the reader a message for inPool,   *)
(* is its worker busy, does a queue worker wait for outPool, is that busy. *)
NewSession == [read |-> FALSE, handling |-> FALSE, queued |-> FALSE,
               sending |-> FALSE]

Init ==
    /\ conn = "open"
    /\ up = 0 /\ down = 0
    /\ waiting = {}
    /\ sender = "idle"
    /\ reader = "read"
    /\ handler = 0
    /\ session = NewSession
    /\ faults = 0

-----------------------------------------------------------------------------
(* Giving messages to the client's outPool, which has one worker.          *)

Send(g) ==
    /\ g \notin waiting
    /\ waiting' = waiting \cup {g}
    /\ UNCHANGED <<conn, up, down, sender, reader, handler, session, faults>>

\* mutant: the ping pauses while there is no connection
SendPingConnected == conn # "closed" /\ Send("ping")

(* The ping goroutine, when it does not sleep.                             *)
SendPing == Send("ping")

(* A request to the HTTP endpoint that passes its checks; one that does    *)
(* not is answered without a callback.  The response waits for outPool.    *)
ServeHTTP == Send("http")

(* A watch of the in-cluster adapter has an event.                         *)
HandleEvent == Send("watch")

Invoke(g) ==
    /\ g \in waiting
    /\ sender = "idle"
    /\ sender' = "write"
    /\ waiting' = waiting \ {g}
    /\ UNCHANGED <<conn, up, down, reader, handler, session, faults>>

(* The inPool worker calls a callback of the Synchronizer.                 *)
Answer ==
    /\ handler > 0
    /\ sender = "idle"
    /\ sender' = "write"
    /\ handler' = handler - 1
    /\ UNCHANGED <<conn, up, down, waiting, reader, session, faults>>

-----------------------------------------------------------------------------
(* sendData of the client.                                                 *)

WriteData ==
    /\ sender \in {"write", "rewrite"}
    /\ conn = "open"
    /\ up < SocketBuffer
    /\ up' = up + 1
    /\ sender' = "idle"
    /\ UNCHANGED <<conn, down, waiting, reader, handler, session, faults>>

(* A write to a connection whose other end is gone can seem to succeed.    *)
WriteLost ==
    /\ sender \in {"write", "rewrite"}
    /\ conn = "broken"
    /\ sender' = "idle"
    /\ UNCHANGED <<conn, up, down, waiting, reader, handler, session, faults>>

\* mutant: the connection is not closed before it is replaced
WriteFailsUnclosed ==
    /\ sender = "write"
    /\ conn # "open"
    /\ sender' = "dial"
    /\ UNCHANGED <<conn, up, down, waiting, reader, handler, session, faults>>

WriteFails ==
    /\ sender = "write"
    /\ conn # "open"
    /\ conn' = "closed"
    /\ sender' = "dial"
    /\ UNCHANGED <<up, down, waiting, reader, handler, session, faults>>

(* newConn gives up for good or after its own retries; sendData begins     *)
(* again.                                                                  *)
DialFails ==
    /\ sender = "dial"
    /\ sender' = "write"
    /\ UNCHANGED <<conn, up, down, waiting, reader, handler, session, faults>>

(* A new connection comes with a new session of the server.                *)
Connect ==
    /\ sender = "dial"
    /\ sender' = "rewrite"
    /\ conn' = "open"
    /\ up' = 0 /\ down' = 0
    /\ session' = NewSession
    /\ UNCHANGED <<waiting, handler>>

(* By the time a dial is through, the reader has had its error from the    *)
(* connection that was closed, and closed it once more.  It would never    *)
(* return from one that nobody closed.                                     *)
Dial ==
    /\ Connect
    /\ reader' = IF reader = "read" /\ conn # "closed" THEN "stranded"
                 ELSE IF reader \in {"read", "stale", "failed"} THEN "wait"
                 ELSE reader
    /\ UNCHANGED faults

(* A dial that overtakes the reader, which then closes the new connection. *)
DialOvertakes ==
    /\ Connect
    /\ conn = "closed"
    /\ faults < MaxFaults
    /\ faults' = faults + 1
    /\ \/ reader = "failed" /\ UNCHANGED reader
       \/ reader = "read" /\ reader' = "stale"

(* An error of the second write does not close the connection; the retry   *)
(* meets the same error again, and does.                                   *)
RewriteFails ==
    /\ sender = "rewrite"
    /\ conn # "open"
    /\ sender' = "write"
    /\ UNCHANGED <<conn, up, down, waiting, reader, handler, session, faults>>

-----------------------------------------------------------------------------
(* The read loop of the client.                                            *)

ReadData ==
    /\ reader = "read"
    /\ conn = "open"
    /\ down > 0
    /\ down' = down - 1
    /\ reader' = "invoke"
    /\ UNCHANGED <<conn, up, waiting, sender, handler, session, faults>>

\* mutant: the pool takes a message while its worker is busy
InvokeInPoolUnlimited ==
    /\ reader = "invoke"
    /\ \E answers \in 0..MaxAnswers : handler' = handler + answers
    /\ reader' = "read"
    /\ UNCHANGED <<conn, up, down, waiting, sender, session, faults>>

InvokeInPool ==
    /\ reader = "invoke"
    /\ handler = 0
    /\ handler' \in 0..MaxAnswers
    /\ reader' = "read"
    /\ UNCHANGED <<conn, up, down, waiting, sender, session, faults>>

ReadFails ==
    /\ \/ reader = "read" /\ conn # "open"
       \/ reader = "stale"
    /\ reader' = "failed"
    /\ UNCHANGED <<conn, up, down, waiting, sender, handler, session, faults>>

(* The reader closes s.Conn, which can be another connection by now: the   *)
(* sender's new one is then closed in vain.                                *)
CloseConn ==
    /\ reader = "failed"
    /\ conn' = "closed"
    /\ reader' = "wait"
    /\ UNCHANGED <<up, down, waiting, sender, handler, session, faults>>

Retry ==
    /\ reader = "wait"
    /\ reader' = "read"
    /\ UNCHANGED <<conn, up, down, waiting, sender, handler, session, faults>>

-----------------------------------------------------------------------------
(* The server's end, and the network.                                      *)

ServerStep ==
    /\ conn = "open"
    /\ UNCHANGED <<conn, waiting, sender, reader, handler, faults>>

ServerRead ==
    /\ ServerStep
    /\ up > 0 /\ ~ session.read
    /\ up' = up - 1
    /\ session' = [session EXCEPT !.read = TRUE]
    /\ UNCHANGED down

ServerInvokeInPool ==
    /\ ServerStep
    /\ session.read /\ ~ session.handling
    /\ session' = [session EXCEPT !.read = FALSE, !.handling = TRUE]
    /\ UNCHANGED <<up, down>>

\* mutant: the server answers on the connection, as its mock adapter does
ServerHandleAnswers ==
    /\ ServerStep
    /\ session.handling /\ ~ session.sending
    /\ session' = [session EXCEPT !.handling = FALSE, !.sending = TRUE]
    /\ UNCHANGED <<up, down>>

(* The backend adapter produces to the message queue and sends nothing     *)
(* back itself.                                                            *)
ServerHandle ==
    /\ ServerStep
    /\ session.handling
    /\ session' = [session EXCEPT !.handling = FALSE]
    /\ UNCHANGED <<up, down>>

(* A queue worker has a message for this client.                           *)
ServerCallback ==
    /\ ServerStep
    /\ ~ session.queued
    /\ session' = [session EXCEPT !.queued = TRUE]
    /\ UNCHANGED <<up, down>>

ServerInvokeOutPool ==
    /\ ServerStep
    /\ session.queued /\ ~ session.sending
    /\ session' = [session EXCEPT !.queued = FALSE, !.sending = TRUE]
    /\ UNCHANGED <<up, down>>

ServerWriteData ==
    /\ ServerStep
    /\ session.sending
    /\ down < SocketBuffer
    /\ down' = down + 1
    /\ session' = [session EXCEPT !.sending = FALSE]
    /\ UNCHANGED up

(* The network fails, or the server closes: an error of its reader or of   *)
(* its writer stops the session.                                           *)
Break ==
    /\ conn = "open"
    /\ faults < MaxFaults
    /\ conn' = "broken"
    /\ faults' = faults + 1
    /\ UNCHANGED <<up, down, waiting, sender, reader, handler, session>>

-----------------------------------------------------------------------------
ServerNext ==
    \/ ServerRead \/ ServerInvokeInPool \/ ServerHandle
    \/ ServerInvokeOutPool \/ ServerWriteData

Next ==
    \/ SendPing \/ ServeHTTP \/ HandleEvent
    \/ \E g \in Source : Invoke(g)
    \/ Answer
    \/ WriteData \/ WriteLost \/ WriteFails
    \/ DialFails \/ Dial \/ DialOvertakes \/ RewriteFails
    \/ ReadData \/ InvokeInPool \/ ReadFails \/ CloseConn \/ Retry
    \/ ServerNext \/ ServerCallback
    \/ Break

Spec == Init /\ [][Next]_vars

(* Goroutines run.  The client is pinging for ever; a dial that is tried   *)
(* again and again succeeds, and one of the writes to a connection that is *)
(* gone fails.  Of several goroutines that wait for a worker, each gets it *)
(* in the end.  A read from a connection that is gone need not return.     *)
Fairness ==
    /\ WF_vars(SendPing) /\ SF_vars(Invoke("ping")) /\ SF_vars(Answer)
    /\ WF_vars(WriteData) /\ SF_vars(WriteFails)
    /\ SF_vars(Dial) /\ WF_vars(RewriteFails)
    /\ WF_vars(ReadData) /\ WF_vars(InvokeInPool)
    /\ WF_vars(ReadFails /\ (reader = "stale" \/ conn = "closed"))
    /\ WF_vars(CloseConn) /\ WF_vars(Retry)
    /\ WF_vars(ServerRead \/ ServerInvokeInPool) /\ WF_vars(ServerHandle)
    /\ WF_vars(ServerInvokeOutPool \/ ServerWriteData)

FairSpec == Spec /\ Fairness

-----------------------------------------------------------------------------
(* The values of the variables.                                            *)
TypeOK ==
    /\ conn \in {"open", "broken", "closed"}
    /\ up \in 0..SocketBuffer /\ down \in 0..SocketBuffer
    /\ waiting \subseteq Source
    /\ sender \in {"idle", "write", "dial", "rewrite"}
    /\ reader \in ReaderPC
    /\ handler \in 0..MaxAnswers
    /\ session \in [read : BOOLEAN, handling : BOOLEAN, queued : BOOLEAN,
                    sending : BOOLEAN]
    /\ faults \in 0..MaxFaults

(* Replacing a connection never leaves the read loop behind, in a read     *)
(* from the old one that nobody will end: sendData closes what it replaces *)
(* before it dials.                                                        *)
NeverStranded == reader # "stranded"

(* However connections break, and although the reader can close one that   *)
(* has just been dialled, the client ends up with an open connection that  *)
(* both its goroutines use, whether or not it has anything to send: the    *)
(* ping makes sendData find out and reconnect.                             *)
Reconnects == <>[](conn = "open" /\ reader \in {"read", "invoke"})

(* No goroutine waits for ever for another: whatever is to be written, by  *)
(* the client or by the server, is written, with every socket and every    *)
(* pool full.                                                              *)
NoneStuck ==
    /\ sender # "idle" ~> sender = "idle"
    /\ handler > 0 ~> handler = 0
    /\ session.sending ~> ~ session.sending
=============================================================================
