------------------------------ MODULE TcpClient ------------------------------
(***************************************************************************)
(* The TCP client (pkg/socket/tcp_client.go) connected to the server of    *)
(* TcpServer: Me is the client's connection there.  The handler of Me      *)
(* reads what the client writes and sends pieces, which are numbered.      *)
(***************************************************************************)
EXTENDS TcpServer, Sequences

CONSTANTS
  Me,         \* the client's connection, one of Peers
  MaxPieces,  \* bound: what the handler sends
  MaxWrites,  \* bound: what the client writes
  OutCap,     \* capacity of the channel output
  Setups      \* sets of events that may happen in a behaviour

\* ReadTimeout is set; the handler sends without end; the client is closed, its
\* context cancelled; the server is closed, its context cancelled.
Events == {"timeout", "steady", "close", "cancel", "stop", "cancelServer"}

ASSUME ClientAssumption ==
  /\ Me \in Peers /\ MaxPieces \in Nat /\ MaxWrites \in Nat /\ OutCap \in Nat \ {0}
  /\ Setups \subseteq SUBSET Events

VARIABLES
  cl,          \* the client
  up, upRead,  \* what the client has written, and what of it the handler has read
  down,        \* what the handler has sent
  user, got,   \* a goroutine that calls Read again and again, and what it got
  errs,        \* calls of OnError
  can

link    == <<up, upRead, down>>
reading == <<user, got>>
all     == <<vars, cl, link, reading, errs, can>>

ClientInit ==
  /\ Init /\ can \in Setups
  /\ cl = [state |-> "init", socket |-> FALSE, output |-> <<>>, outClosed |-> FALSE,
           closed |-> FALSE, reader |-> "none", read |-> 0, error |-> "none", close |-> "idle",
           ctx |-> "live", fired |-> FALSE, deadline |-> FALSE]
  /\ up = 0 /\ upRead = 0 /\ down = 0
  /\ user = "idle" /\ got = <<>> /\ errs = 0

-----------------------------------------------------------------------------
(* The server's end of the connection.                                     *)

HandlerWrites ==
  /\ peer[Me] = "handling" /\ ~Woken(Me) /\ down < MaxPieces
  /\ down' = down + 1
  /\ UNCHANGED <<vars, cl, up, upRead, reading, errs, can>>

\* A handler that sends without end: once everything sent has been returned, the
\* pieces are numbered from one again.
HandlerWritesOn ==
  /\ "steady" \in can /\ peer[Me] = "handling" /\ ~Woken(Me)
  /\ down = MaxPieces /\ Len(got) = down /\ cl.read = down /\ cl.output = <<>>
  /\ down' = 1 /\ got' = <<>> /\ cl' = [cl EXCEPT !.read = 0]
  /\ UNCHANGED <<vars, up, upRead, user, errs, can>>

HandlerReads ==
  /\ peer[Me] = "handling" /\ ~Woken(Me) /\ upRead < up
  /\ upRead' = upRead + 1
  /\ UNCHANGED <<vars, cl, up, down, reading, errs, can>>

\* The server has closed its end; with unread data that resets the connection,
\* and so does closing a listener that has not accepted it.  A rejected client
\* is sent one message.
Gone  == \/ peer[Me] \in {"rejected", "ended", "done"} \/ Me \in shut
         \/ peer[Me] = "waiting" /\ ~bound
Reset == Gone /\ (upRead < up \/ peer[Me] = "waiting")
Sent  == IF peer[Me] = "rejected" THEN 1 ELSE down

-----------------------------------------------------------------------------
(* Connect and readLoop.                                                   *)

\* A dial that fails changes nothing.
Connect ==
  /\ cl.state = "init"
  /\ Connects(Me)
  /\ cl' = [cl EXCEPT !.state = "connected", !.socket = TRUE, !.reader = "arming"]
  /\ UNCHANGED <<link, reading, errs, can>>

ContextCancelled ==
  /\ "cancel" \in can /\ cl.ctx = "live" /\ cl.state # "init"
  /\ cl' = [cl EXCEPT !.ctx = "cancelled"]
  /\ UNCHANGED <<vars, link, reading, errs, can>>

\* The function AfterFunc registered: SetDeadline(now), once.
ContextFires ==
  /\ cl.ctx = "cancelled" /\ ~cl.fired /\ cl.reader \notin {"none", "done"}
  /\ cl' = [cl EXCEPT !.fired = TRUE, !.deadline = TRUE]
  /\ UNCHANGED <<vars, link, reading, errs, can>>

\* A ReadTimeout replaces the deadline in every turn, the context's too.
ReaderArms ==
  /\ cl.reader = "arming"
  /\ cl' = [cl EXCEPT !.reader = "reading", !.deadline = @ /\ "timeout" \notin can]
  /\ UNCHANGED <<vars, link, reading, errs, can>>

ReaderReads ==
  /\ cl.reader = "reading" /\ cl.socket /\ ~cl.deadline /\ cl.read < Sent
  /\ cl' = [cl EXCEPT !.reader = "sending", !.read = @ + 1]
  /\ UNCHANGED <<vars, link, reading, errs, can>>

ReaderSends ==
  /\ cl.reader = "sending" /\ Len(cl.output) < OutCap
  /\ cl' = [cl EXCEPT !.reader = "arming", !.output = Append(@, cl.read)]
  /\ UNCHANGED <<vars, link, reading, errs, can>>

ReaderQuits ==
  /\ cl.reader = "sending" /\ cl.closed
  /\ cl' = [cl EXCEPT !.reader = "leaving"]
  /\ UNCHANGED <<vars, link, reading, errs, can>>

\* An error is nothing new once the client is closed, leads to a quiet shutdown
\* when the context is cancelled, and else to one that calls OnError.
ReadError(what) ==
  cl' = [cl EXCEPT !.error = what,
                   !.reader = IF cl.state = "closed" THEN "leaving"
                              ELSE IF cl.ctx = "cancelled" THEN "quitting" ELSE "failing"]

ReaderFails ==
  /\ cl.reader = "reading"
  /\ \/ ~cl.socket /\ ReadError("closed")
     \/ cl.socket /\ Reset /\ ReadError("reset")
     \/ cl.socket /\ Gone /\ ~Reset /\ cl.read = Sent /\ ReadError("eof")
  /\ UNCHANGED <<vars, link, reading, errs, can>>

ReaderTimesOut ==
  /\ cl.reader = "reading" /\ (cl.deadline \/ "timeout" \in can)
  /\ ReadError("timeout")
  /\ UNCHANGED <<vars, link, reading, errs, can>>

\* shutdown: the compare-and-swap, then closeOnce, then the callback.
ReaderCAS ==
  /\ cl.reader \in {"failing", "quitting"}
  /\ cl' = [cl EXCEPT !.state = "closed",
                      !.reader = IF cl.state = "closed" THEN "leaving"
                                 ELSE IF @ = "failing" THEN "cleaning" ELSE "cleaningQuietly"]
  /\ UNCHANGED <<vars, link, reading, errs, can>>

ReaderCleansUp ==
  /\ cl.reader \in {"cleaning", "cleaningQuietly"}
  /\ cl' = [cl EXCEPT !.socket = FALSE, !.closed = TRUE,
                      !.reader = IF @ = "cleaning" THEN "callback" ELSE "leaving"]
  /\ UNCHANGED <<vars, link, reading, errs, can>>

\* The callback returns, or calls Close and waits for its own goroutine.
ReaderDispatches ==
  /\ cl.reader = "callback"
  /\ errs' = errs + 1
  /\ \E next \in {"leaving", "stuck"} : cl' = [cl EXCEPT !.reader = next]
  /\ UNCHANGED <<vars, link, reading, can>>

\* The deferred calls: close(output), readWG.Done.
ReaderLeaves ==
  /\ cl.reader = "leaving"
  /\ cl' = [cl EXCEPT !.outClosed = TRUE, !.reader = "done"]
  /\ UNCHANGED <<vars, link, reading, errs, can>>

-----------------------------------------------------------------------------
(* Close, Write and Read.                                                  *)

ClientCloseCAS ==
  /\ "close" \in can /\ cl.close = "idle"
  /\ cl' = [cl EXCEPT !.state = IF @ = "connected" THEN "closed" ELSE @,
                      !.close = IF cl.state = "connected" THEN "cleaning" ELSE "waiting"]
  /\ UNCHANGED <<vars, link, reading, errs, can>>

ClientCloseCleansUp ==
  /\ cl.close = "cleaning"
  /\ cl' = [cl EXCEPT !.socket = FALSE, !.closed = TRUE, !.close = "waiting"]
  /\ UNCHANGED <<vars, link, reading, errs, can>>

ClientCloseReturns ==
  /\ cl.close = "waiting" /\ cl.reader \in {"none", "done"}
  /\ cl' = [cl EXCEPT !.close = "returned"]
  /\ UNCHANGED <<vars, link, reading, errs, can>>

Write ==
  /\ cl.state = "connected" /\ cl.socket /\ up < MaxWrites
  /\ up' = up + 1
  /\ UNCHANGED <<vars, cl, upRead, down, reading, errs, can>>

ReadBegins ==
  /\ user = "idle" /\ cl.state # "init"
  /\ user' = "reading"
  /\ UNCHANGED <<vars, cl, link, got, errs, can>>

ReadTakes ==
  /\ user = "reading" /\ cl.output # <<>>
  /\ cl' = [cl EXCEPT !.output = Tail(@)]
  /\ got' = Append(got, Head(cl.output)) /\ user' = "idle"
  /\ UNCHANGED <<vars, link, errs, can>>

\* Mutant of ReadEnds: a client that is closed is not read from any more.
ReadEndsEarly ==
  /\ user = "reading" /\ (cl.outClosed \/ cl.closed)
  /\ user' = "ended"
  /\ UNCHANGED <<vars, cl, link, got, errs, can>>

\* io.EOF, once nothing is left in output.
ReadEnds ==
  /\ user = "reading" /\ cl.output = <<>> /\ (cl.outClosed \/ cl.closed)
  /\ user' = "ended"
  /\ UNCHANGED <<vars, cl, link, got, errs, can>>

-----------------------------------------------------------------------------
\* A step of the server; its other clients connect as they like.
OfServer(A) == A /\ UNCHANGED <<cl, link, reading, errs, can>>

Server == OfServer(
  \/ Listen \/ AcceptErrs \/ WatchContext
  \/ \E p \in Peers \ {Me} : Connects(p)
  \/ \E p \in Peers : HandleConn(p)
  \/ "cancelServer" \in can /\ ParentCancelled
  \/ "stop" \in can /\ \E c \in Closers : Close(c))

ReadLoop == \/ ReaderArms \/ ReaderReads \/ ReaderSends \/ ReaderQuits \/ ReaderFails
            \/ ReaderTimesOut \/ ReaderCAS \/ ReaderCleansUp \/ ReaderDispatches \/ ReaderLeaves

ClientClose == ClientCloseCAS \/ ClientCloseCleansUp \/ ClientCloseReturns

ClientNext ==
  \/ Server \/ HandlerWrites \/ HandlerWritesOn \/ HandlerReads
  \/ Connect \/ ContextCancelled \/ ContextFires \/ ReadLoop \/ ClientClose
  \/ Write \/ ReadBegins \/ ReadTakes \/ ReadEnds

\* Goroutines that can run do run, a handler whose connection has been closed
\* or whose context is cancelled returns, a deadline that is set comes, and a
\* Read that has begun ends when it can.  No call need be made, a handler may
\* serve for ever, and Accept need never report an error of its own.
ClientSpec ==
  /\ ClientInit /\ [][ClientNext]_all
  /\ WF_all(OfServer(Listen /\ listen # "idle"))
  /\ WF_all(OfServer(WatchContext))
  /\ \A p \in Peers : WF_all(OfServer(Register(p) \/ HandlerDone(p)))
  /\ \A p \in Peers : WF_all(OfServer(HandlerReturns(p) /\ Woken(p)))
  /\ \A c \in Closers : WF_all(OfServer(Close(c) /\ closer[c] # "idle"))
  /\ WF_all(ReadLoop) /\ WF_all(ContextFires)
  /\ WF_all(ClientClose /\ cl.close # "idle")
  /\ WF_all(ReadTakes \/ ReadEnds)

-----------------------------------------------------------------------------
(* Properties.                                                             *)

\* What Read returns is what the server sent, in order and without a gap, and
\* the io.EOF after an end the server made comes only when all of it has been
\* returned, a rejected client's message included, although closed and output
\* are two channels that Read selects from.  An end that the user asked for
\* neither by Close nor by the context is reported to OnError, once.
StreamComplete ==
  /\ got \o cl.output = [k \in 1 .. Len(got) + Len(cl.output) |-> k]
  /\ user = "ended" /\ cl.error = "eof" => Len(got) = Sent
  /\ errs <= 1
  /\ cl.reader = "done" /\ cl.close = "idle" /\ cl.ctx = "live" => errs = 1

\* "The context is optional; cancelling it closes the connection": a client whose
\* context is cancelled gets closed, unless readLoop blocks on a full output that
\* nobody reads.  The code does not keep this: the context sets the deadline once,
\* and a ReadTimeout replaces it before the next read.
CancelCloses ==
  (cl.ctx = "cancelled" /\ cl.reader # "none") ~>
    (cl.closed \/ (cl.reader = "sending" /\ Len(cl.output) = OutCap))

\* Close of the client returns and wakes a blocked Read, unless the callback of
\* OnError has called Close; and CancelCloses holds where no ReadTimeout is set
\* or the server at last pauses.
ClientStops ==
  /\ cl.close = "cleaning" ~> (cl.close = "returned" \/ cl.reader = "stuck")
  /\ (cl.closed /\ user = "reading") ~> user # "reading"
  /\ CancelCloses \/ ("timeout" \in can /\ []<><<HandlerWrites \/ HandlerWritesOn>>_all)

\* Server and client, each stopped in any of its ways, both come to an end.
BothStop == ServerStops /\ ClientStops
=============================================================================
