------------------------------- MODULE Telnet -------------------------------
(***************************************************************************)
(* The telnet client and server (pkg/telnet) at the two ends of a TCP      *)
(* connection.  Server: the accept loop, a handler per connection, Close.  *)
(* Client: readLoop, which puts what it reads into the channel output, a   *)
(* user who calls Connect, Auth, Exec, Read, Write and WindowChange, and a *)
(* Close that may come at any moment.  The connection delivers bytes in    *)
(* order and cuts them into chunks where it likes.  The handler of the     *)
(* server is the user's: it writes a script and may return at any moment.  *)
(***************************************************************************)
EXTENDS TelnetFilter, FiniteSets

CONSTANTS
  Me, Rival,     \* the client, and another client of the server
  None,          \* no connection
  Bytes,         \* what the streams are made of
  Setups,        \* what may happen in a behaviour (the bounds): the script of the
                 \* handler, KeepIAC, how many calls the user makes, whether the
                 \* rival comes, whether the server is closed
  Notice,        \* the bytes written to a connection that is refused
  MaxConns,      \* the server's limit
  OutCap,        \* capacity of the channel output
  MaxRead        \* the client's limit on the result of Exec

Peers == {Me, Rival}

ASSUME TelnetAssumption ==
  /\ Me # Rival /\ None \notin Peers
  /\ MaxConns \in Nat
  /\ \A s \in Setups : /\ DOMAIN s = {"script", "keep", "calls", "rival", "stops"}
                      /\ s.keep \in BOOLEAN /\ s.rival \in BOOLEAN /\ s.stops \in BOOLEAN
                      /\ s.calls \in Nat /\ s.script \in Seq(Bytes)
  /\ Notice \in Seq(Bytes)
  /\ OutCap \in Nat \ {0} /\ MaxRead \in Nat \ {0}

VARIABLES
  \* the server
  state, listen, raw, bound, listener, ctx, sem, listenWG, conns, shut, closer, early,
  \* the connections; script and wire are of the client's
  peer, script, wire,
  \* the client
  cstate, socket, output, outClosed, closed, reader, chunk, cclose,
  \* its user, the Exec at work, and the bytes taken from output
  user, calls, seen, result, pending, flushed, eaten,
  \* history: bytes were lost when the connection or the client closed
  dropped,
  \* the member of Setups at work
  setup

accepting == <<state, listen, raw, bound, listener, ctx, sem, listenWG>>
registry  == <<conns, shut>>
server    == <<accepting, registry, closer, early>>
link      == <<peer, script, wire>>
client    == <<cstate, socket, output, outClosed, closed, reader, chunk, cclose>>
caller    == <<user, calls, seen, result, pending, flushed, eaten>>
vars      == <<server, link, client, caller, dropped, setup>>

\* The goroutines s.wg counts.
Handlers == {p \in Peers : peer[p] \in {"spawned", "handling", "ended"}}

Init ==
  /\ state = "init" /\ listen = "idle" /\ raw = None
  /\ bound = FALSE /\ listener = FALSE /\ ctx = "nil" /\ sem = 0 /\ listenWG = 0
  /\ conns = {} /\ shut = {} /\ closer = "idle" /\ early = FALSE
  /\ peer = [p \in Peers |-> "away"] /\ wire = <<>> 
  /\ cstate = "init" /\ socket = FALSE /\ output = <<>> /\ outClosed = FALSE
  /\ closed = FALSE /\ reader = "none" /\ chunk = <<>> /\ cclose = "idle"
  /\ setup \in Setups /\ script = setup.script
  /\ user = "idle" /\ calls = 0 /\ seen = <<>> /\ result = <<>> /\ pending = <<>>
  /\ flushed = FALSE /\ eaten = <<>> /\ dropped = FALSE

-----------------------------------------------------------------------------
(* The server: Listen.                                                     *)

\* The state leaves "init" once; a Listen after Close is refused.
ListenCAS ==
  /\ listen = "idle"
  /\ state' = IF state = "init" THEN "serving" ELSE state
  /\ listen' = IF state = "init" THEN "adding" ELSE "refused"
  /\ UNCHANGED <<raw, bound, listener, ctx, sem, listenWG, registry, closer, early,
                 link, client, caller, dropped>>

\* listenWG.Add, then context, registry and semaphore, before there is a socket.
ListenSetUp ==
  /\ listen = "adding"
  /\ listenWG' = listenWG + 1 /\ ctx' = "live"
  /\ listen' = "binding"
  /\ UNCHANGED <<state, raw, bound, listener, sem, registry, closer, early,
                 link, client, caller, dropped>>

\* net.Listen fails: the error returns before listenWG.Done is deferred.
ListenBindFails ==
  /\ listen = "binding"
  /\ state' = "closed" /\ listen' = "failed"
  /\ UNCHANGED <<raw, bound, listener, ctx, sem, listenWG, registry, closer, early,
                 link, client, caller, dropped>>

ListenBind ==
  /\ listen = "binding"
  /\ bound' = TRUE /\ listen' = "bound"
  /\ UNCHANGED <<state, raw, listener, ctx, sem, listenWG, registry, closer, early,
                 link, client, caller, dropped>>

ListenPublish ==
  /\ listen = "bound"
  /\ listener' = TRUE /\ listen' = "accepting"
  /\ UNCHANGED <<state, raw, bound, ctx, sem, listenWG, registry, closer, early,
                 link, client, caller, dropped>>

\* Connections are accepted in the order in which they were made.
Accept(p) ==
  /\ listen = "accepting" /\ bound /\ peer[p] = "waiting"
  /\ p = Me => peer[Rival] # "waiting"
  /\ peer' = [peer EXCEPT ![p] = "accepted"]
  /\ raw' = p /\ listen' = "admitting"
  /\ UNCHANGED <<state, bound, listener, ctx, sem, listenWG, registry, closer, early,
                 script, wire, client, caller, dropped>>

\* A slot of the semaphore, wg.Add(1) and a goroutine.
Admit ==
  /\ listen = "admitting"
  /\ MaxConns = 0 \/ sem < MaxConns
  /\ sem' = IF MaxConns = 0 THEN sem ELSE sem + 1
  /\ peer' = [peer EXCEPT ![raw] = "spawned"]
  /\ raw' = None /\ listen' = "accepting"
  /\ UNCHANGED <<state, bound, listener, ctx, listenWG, registry, closer, early,
                 script, wire, client, caller, dropped>>

\* No slot: a notice, and the connection is closed.
RejectConn ==
  /\ listen = "admitting"
  /\ MaxConns > 0 /\ sem >= MaxConns
  /\ peer' = [peer EXCEPT ![raw] = "rejected"]
  /\ wire' = IF raw = Me THEN Notice ELSE wire
  /\ raw' = None /\ listen' = "accepting"
  /\ UNCHANGED <<state, bound, listener, ctx, sem, listenWG, registry, closer, early,
                 script, client, caller, dropped>>

\* Accept says that the listener is closed, or says something else and the
\* context has been cancelled; without that the loop sleeps and goes on.
AcceptErr ==
  /\ listen = "accepting"
  /\ ~bound \/ ctx = "cancelled"
  /\ listen' = "leaving"
  /\ UNCHANGED <<state, raw, bound, listener, ctx, sem, listenWG, registry, closer, early,
                 link, client, caller, dropped>>

\* closeListener: connections that nobody has accepted are reset.
CloseListener ==
  /\ bound' = IF listener THEN FALSE ELSE bound
  /\ listener' = FALSE
  /\ peer' = [p \in Peers |-> IF listener /\ peer[p] = "waiting" THEN "reset" ELSE peer[p]]

ListenLeave ==
  /\ listen = "leaving"
  /\ CloseListener /\ ctx' = "cancelled"
  /\ listen' = "waiting"
  /\ UNCHANGED <<state, raw, sem, listenWG, registry, closer, early,
                 script, wire, client, caller, dropped>>

\* Mutant of ListenWait: does not wait for the handlers.
ListenNoWait ==
  /\ listen = "waiting"
  /\ state' = "closed" /\ listen' = "ending"
  /\ UNCHANGED <<raw, bound, listener, ctx, sem, listenWG, registry, closer, early,
                 link, client, caller, dropped>>

ListenWait ==
  /\ listen = "waiting" /\ Handlers = {}
  /\ state' = "closed" /\ listen' = "ending"
  /\ UNCHANGED <<raw, bound, listener, ctx, sem, listenWG, registry, closer, early,
                 link, client, caller, dropped>>

ListenReturns ==
  /\ listen = "ending"
  /\ listenWG' = listenWG - 1 /\ listen' = "returned"
  /\ UNCHANGED <<state, raw, bound, listener, ctx, sem, registry, closer, early,
                 link, client, caller, dropped>>

-----------------------------------------------------------------------------
(* The server: handleConn and Close.                                       *)

Register(p) ==
  /\ peer[p] = "spawned"
  /\ conns' = conns \cup {p} /\ peer' = [peer EXCEPT ![p] = "handling"]
  /\ UNCHANGED <<accepting, shut, closer, early, script, wire, client, caller, dropped>>

\* Conn.Write of the handler.
HandlerWrites ==
  /\ peer[Me] = "handling" /\ Me \notin shut /\ socket
  /\ script # <<>>
  /\ wire' = wire \o script /\ script' = <<>>
  /\ UNCHANGED <<server, peer, client, caller, dropped>>

\* The handler returns or panics; the deferred function takes the connection
\* from the registry and closes it.
HandlerReturns(p) ==
  /\ peer[p] = "handling"
  /\ conns' = conns \ {p} /\ shut' = shut \cup {p}
  /\ peer' = [peer EXCEPT ![p] = "ended"]
  /\ UNCHANGED <<accepting, closer, early, script, wire, client, caller, dropped>>

HandlerDone(p) ==
  /\ peer[p] = "ended"
  /\ peer' = [peer EXCEPT ![p] = "done"]
  /\ UNCHANGED <<server, script, wire, client, caller, dropped>>

\* A Read or Write of the handler fails from here on: Conn.Close was called,
\* or the context's AfterFunc has set the deadline.
Woken(p) == p \in shut \/ ctx = "cancelled"

ServerCloseCAS ==
  /\ closer = "idle" /\ setup.stops
  /\ state' = "closed"
  /\ closer' = IF state = "serving" THEN "stopping" ELSE "nothing"
  /\ early' = (state = "serving" /\ listen \in {"adding", "binding", "bound"})
  /\ UNCHANGED <<listen, raw, bound, listener, ctx, sem, listenWG, registry,
                 link, client, caller, dropped>>

ServerCloseListener ==
  /\ closer = "stopping"
  /\ CloseListener
  /\ closer' = "cancelling"
  /\ UNCHANGED <<state, listen, raw, ctx, sem, listenWG, registry, early,
                 script, wire, client, caller, dropped>>

ServerCloseCancel ==
  /\ closer = "cancelling"
  /\ ctx' = IF ctx = "nil" THEN "nil" ELSE "cancelled"
  /\ closer' = "sweeping"
  /\ UNCHANGED <<state, listen, raw, bound, listener, sem, listenWG, registry, early,
                 link, client, caller, dropped>>

CloseAllConns ==
  /\ closer = "sweeping"
  /\ shut' = shut \cup conns /\ closer' = "waiting"
  /\ UNCHANGED <<accepting, conns, early, link, client, caller, dropped>>

ServerCloseReturns ==
  /\ closer = "waiting" /\ listenWG = 0
  /\ closer' = "returned"
  /\ UNCHANGED <<accepting, registry, early, link, client, caller, dropped>>

-----------------------------------------------------------------------------
(* The connection.                                                         *)

\* The rival, if there is one, is there before the client.
RivalConnects ==
  /\ setup.rival /\ peer[Rival] = "away" /\ bound /\ ~early /\ cstate = "init"
  /\ peer' = [peer EXCEPT ![Rival] = "waiting"]
  /\ UNCHANGED <<server, script, wire, client, caller, dropped>>

\* The server's side of the client's connection is closed.
Ended == Me \in shut \/ peer[Me] \in {"rejected", "reset"}

\* A close with unread input resets the connection: what is on its way is lost.
WireLost ==
  /\ Ended /\ wire # <<>>
  /\ wire' = <<>> /\ dropped' = TRUE
  /\ UNCHANGED <<server, peer, script, client, caller>>

-----------------------------------------------------------------------------
(* The client: Connect, readLoop, shutdown and Close.                      *)

\* Connect, under mu; a dial that fails leaves everything as it was.  A Close
\* of the server that came too early leaves a socket nobody will ever close:
\* no client is sent there.
Connect ==
  /\ user = "idle" /\ cstate = "init" /\ bound /\ ~early
  /\ peer' = [peer EXCEPT ![Me] = "waiting"]
  /\ cstate' = "connected" /\ socket' = TRUE /\ reader' = "reading"
  /\ UNCHANGED <<server, script, wire, output, outClosed, closed, chunk, cclose,
                 caller, dropped>>

\* conn.Read returns some of the bytes that have arrived.
ReaderReads ==
  /\ reader = "reading" /\ socket
  /\ \E n \in 1..Len(wire) :
       /\ chunk' = SubSeq(wire, 1, n)
       /\ wire' = SubSeq(wire, n + 1, Len(wire))
  /\ reader' = "sending"
  /\ UNCHANGED <<server, peer, script, cstate, socket, output, outClosed, closed,
                 cclose, caller, dropped>>

\* Mutant of ReaderSends: a full channel loses the chunk.
ReaderSendsOrDrops ==
  /\ reader = "sending"
  /\ output' = IF Len(output) < OutCap THEN Append(output, chunk) ELSE output
  /\ chunk' = <<>> /\ reader' = "reading"
  /\ UNCHANGED <<server, link, cstate, socket, outClosed, closed, cclose, caller, dropped>>

ReaderSends ==
  /\ reader = "sending" /\ Len(output) < OutCap
  /\ output' = Append(output, chunk)
  /\ chunk' = <<>> /\ reader' = "reading"
  /\ UNCHANGED <<server, link, cstate, socket, outClosed, closed, cclose, caller, dropped>>

\* Mutant of ReaderQuits: a plain send, without the case of the closed channel.
ReaderNeverQuits == FALSE /\ UNCHANGED vars

\* select: the client has been closed, the chunk is dropped.
ReaderQuits ==
  /\ reader = "sending" /\ closed
  /\ dropped' = TRUE /\ chunk' = <<>> /\ reader' = "leaving"
  /\ UNCHANGED <<server, link, cstate, socket, output, outClosed, closed, cclose, caller>>

\* conn.Read fails: the other side is gone, our side is closed.  A client that
\* is closed already just leaves; if not, shutdown's compare-and-swap follows,
\* which Close may still win.
ReaderFails ==
  /\ reader = "reading"
  /\ ~socket \/ (Ended /\ wire = <<>>)
  /\ reader' = IF cstate = "closed" THEN "leaving" ELSE "failing"
  /\ UNCHANGED <<server, link, cstate, socket, output, outClosed, closed, chunk, cclose,
                 caller, dropped>>

\* ReadTimeout: nothing arrived in time.
ReaderTimesOut ==
  /\ reader = "reading" /\ socket /\ wire = <<>>
  /\ reader' = IF cstate = "closed" THEN "leaving" ELSE "failing"
  /\ UNCHANGED <<server, link, cstate, socket, output, outClosed, closed, chunk, cclose,
                 caller, dropped>>

ReaderCAS ==
  /\ reader = "failing"
  /\ cstate' = "closed"
  /\ reader' = IF cstate = "connected" THEN "cleaning" ELSE "leaving"
  /\ UNCHANGED <<server, link, socket, output, outClosed, closed, chunk, cclose,
                 caller, dropped>>

\* closeOnce: conn.Close and close(closed).
CleanUp ==
  /\ socket' = FALSE /\ closed' = TRUE
  /\ dropped' = (dropped \/ wire # <<>>) /\ wire' = <<>>

ReaderCleansUp ==
  /\ reader = "cleaning"
  /\ CleanUp /\ reader' = "callback"
  /\ UNCHANGED <<server, peer, script, cstate, output, outClosed, chunk, cclose, caller>>

\* dispatchError, in the goroutine of readLoop: the callback returns, or it
\* calls Close and waits for this very goroutine.
ReaderDispatches ==
  /\ reader = "callback"
  /\ reader' \in {"leaving", "stuck"}
  /\ UNCHANGED <<server, link, cstate, socket, output, outClosed, closed, chunk, cclose,
                 caller, dropped>>

\* The deferred calls: close(output), readWG.Done.
ReaderLeaves ==
  /\ reader = "leaving"
  /\ outClosed' = TRUE /\ reader' = "done"
  /\ UNCHANGED <<server, link, cstate, socket, output, closed, chunk, cclose, caller, dropped>>

\* Close: shutdown's compare-and-swap; a client that is not connected, or that
\* is closed already, goes straight to readWG.Wait.
CloseCAS ==
  /\ cclose = "idle"
  /\ cstate' = IF cstate = "connected" THEN "closed" ELSE cstate
  /\ cclose' = IF cstate = "connected" THEN "cleaning" ELSE "waiting"
  /\ UNCHANGED <<server, link, socket, output, outClosed, closed, reader, chunk,
                 caller, dropped>>

CloseCleansUp ==
  /\ cclose = "cleaning"
  /\ CleanUp /\ cclose' = "waiting"
  /\ UNCHANGED <<server, peer, script, cstate, output, outClosed, reader, chunk, caller>>

CloseReturns ==
  /\ cclose = "waiting" /\ reader \in {"none", "done"}
  /\ cclose' = "returned"
  /\ UNCHANGED <<server, link, cstate, socket, output, outClosed, closed, reader, chunk,
                 caller, dropped>>

-----------------------------------------------------------------------------
(* The client's user: Auth, Exec, Read, Write, WindowChange.               *)

\* A call begins with stateErr, and ends there if the client is not connected.
Call(op) ==
  /\ user = "idle" /\ calls < setup.calls
  /\ calls' = calls + 1
  /\ user' = IF cstate = "connected" THEN op ELSE "idle"
  /\ seen' = <<>> /\ result' = <<>> /\ pending' = <<>> /\ flushed' = FALSE
  /\ UNCHANGED <<server, link, client, eaten, dropped>>

CallAuth == Call("promptUser")
CallExec == Call("writeCommand")
CallRead == Call("read")
CallWindowChange == Call("writeWindow")

\* What comes after each write: Exec reads, the others are over.
After == [writeUser |-> "promptPassword", writePassword |-> "idle",
          writeCommand |-> "exec", writeWindow |-> "idle"]

\* Write: getConn, then the connection's Write under writeMu.
WriteDone ==
  /\ user \in DOMAIN After
  /\ cstate = "connected" /\ socket
  /\ user' = After[user]
  /\ UNCHANGED <<server, link, client, calls, seen, result, pending, flushed, eaten, dropped>>

WriteFails ==
  /\ user \in DOMAIN After
  /\ cstate # "connected" \/ ~socket \/ Ended
  /\ user' = "idle"
  /\ UNCHANGED <<server, link, client, calls, seen, result, pending, flushed, eaten, dropped>>

\* drainPrompt asks for the state first.  Then it throws one chunk away, runs
\* into its timeout, or finds the client closed.
DrainPrompt ==
  /\ user \in {"promptUser", "promptPassword"}
  /\ LET next == IF user = "promptUser" THEN "writeUser" ELSE "writePassword"
     IN  \/ /\ output # <<>>
            /\ output' = Tail(output) /\ eaten' = eaten \o Head(output)
            /\ user' = next
         \/ /\ user' = next /\ UNCHANGED <<output, eaten>>
         \/ /\ closed \/ cstate # "connected"
            /\ user' = "idle" /\ UNCHANGED <<output, eaten>>
  /\ UNCHANGED <<server, link, cstate, socket, outClosed, closed, reader, chunk, cclose,
                 calls, seen, result, pending, flushed, dropped>>

\* Read: readChans asks for the state, then the call blocks.
ReadBegins ==
  /\ user \in {"read", "exec"}
  /\ user' = IF cstate # "connected" THEN "idle"
             ELSE IF user = "read" THEN "readBlocked" ELSE "execBlocked"
  /\ UNCHANGED <<server, link, client, calls, seen, result, pending, flushed, eaten, dropped>>

\* A chunk for Read, or for Exec, which filters it, appends it to the result
\* and is over at MaxRead or when the user's function says so.
ReadTakes ==
  /\ user \in {"readBlocked", "execBlocked"} /\ output # <<>>
  /\ output' = Tail(output) /\ eaten' = eaten \o Head(output)
  /\ IF user = "readBlocked"
     THEN user' = "idle" /\ UNCHANGED <<seen, result, pending, flushed>>
     ELSE LET fed == IF setup.keep THEN [out |-> Head(output), pending |-> <<>>, flushed |-> FALSE]
                             ELSE Feed(pending, Head(output))
              all == result \o fed.out
          IN  /\ seen' = seen \o Head(output)
              /\ pending' = fed.pending
              /\ flushed' = (flushed \/ fed.flushed)
              /\ IF Len(all) >= MaxRead
                 THEN result' = SubSeq(all, 1, MaxRead) /\ user' = "idle"
                 ELSE result' = all /\ user' \in {"idle", "exec"}
  /\ UNCHANGED <<server, link, cstate, socket, outClosed, closed, reader, chunk, cclose,
                 calls, dropped>>

\* io.EOF: output is closed or the client is, and nothing is left to drain.
ReadEnds ==
  /\ user \in {"readBlocked", "execBlocked"} /\ output = <<>>
  /\ outClosed \/ closed
  /\ user' = "idle"
  /\ UNCHANGED <<server, link, client, calls, seen, result, pending, flushed, eaten, dropped>>

-----------------------------------------------------------------------------
Listen == \/ ListenCAS \/ ListenSetUp \/ ListenBind \/ ListenBindFails \/ ListenPublish
          \/ (\E p \in Peers : Accept(p)) \/ Admit \/ RejectConn
          \/ ListenLeave \/ ListenWait \/ ListenReturns

HandleConn(p) == Register(p) \/ HandlerReturns(p) \/ HandlerDone(p)

ServerClose == \/ ServerCloseCAS \/ ServerCloseListener \/ ServerCloseCancel
               \/ CloseAllConns \/ ServerCloseReturns

ReadLoop == \/ ReaderReads \/ ReaderSends \/ ReaderQuits \/ ReaderFails
            \/ ReaderCAS \/ ReaderCleansUp \/ ReaderDispatches \/ ReaderLeaves

Close == CloseCAS \/ CloseCleansUp \/ CloseReturns

Working == WriteDone \/ WriteFails \/ DrainPrompt \/ ReadBegins \/ ReadTakes \/ ReadEnds

Step == \/ Listen \/ AcceptErr \/ ServerClose \/ HandlerWrites \/ RivalConnects \/ WireLost
        \/ \E p \in Peers : HandleConn(p)
        \/ Connect \/ ReadLoop \/ ReaderTimesOut \/ Close
        \/ CallAuth \/ CallExec \/ CallRead \/ CallWindowChange \/ Working

Next == Step /\ UNCHANGED setup

Spec == Init /\ [][Next]_vars

\* Goroutines that can run do run, a handler that has been woken returns, and
\* a call that has begun goes on.  No call need be made, no handler need write
\* or return by itself, no timeout need come.
Fairness ==
  /\ WF_vars(Listen /\ listen # "idle" /\ UNCHANGED setup)
  /\ WF_vars(AcceptErr /\ ~bound /\ UNCHANGED setup)
  /\ WF_vars(ServerClose /\ closer # "idle" /\ UNCHANGED setup)
  /\ \A p \in Peers : /\ WF_vars((Register(p) \/ HandlerDone(p)) /\ UNCHANGED setup)
                     /\ WF_vars(HandlerReturns(p) /\ Woken(p) /\ UNCHANGED setup)
  /\ WF_vars(ReadLoop /\ UNCHANGED setup)
  /\ WF_vars(Close /\ cclose # "idle" /\ UNCHANGED setup)
  /\ WF_vars(Working /\ UNCHANGED setup)

FairSpec == Spec /\ Fairness

-----------------------------------------------------------------------------
(* Properties.                                                             *)

\* Types.
TypeOK ==
  /\ state \in {"init", "serving", "closed"} /\ raw \in Peers \cup {None}
  /\ conns \subseteq Peers /\ shut \subseteq Peers /\ listenWG \in {0, 1}
  /\ sem \in 0..MaxConns /\ ctx \in {"nil", "live", "cancelled"}
  /\ cstate \in {"init", "connected", "closed"} /\ Len(output) <= OutCap
  /\ calls \in 0..setup.calls

\* A text cut into a first piece, the pieces of a sequence, and a last one.
CutInto(text, first, pieces, last) ==
  \E cut \in [0..Len(pieces) -> 0..Len(text)] :
    /\ first = SubSeq(text, 1, cut[0])
    /\ \A i \in 1..Len(pieces) : /\ cut[i - 1] <= cut[i]
                                /\ pieces[i] = SubSeq(text, cut[i - 1] + 1, cut[i])
    /\ last = SubSeq(text, cut[Len(pieces)] + 1, Len(text))

\* Not a byte is lost, doubled or reordered between the handler and the user
\* while both ends are open, however the connection cuts the stream and
\* however full the channel is: what was taken from output, then output, then
\* the chunk of readLoop, then the wire, then the rest of the script are the
\* script (or the notice, for a connection that was refused).
StreamIntact ==
  /\ TypeOK
  /\ ~dropped => IF peer[Me] = "rejected"
                 THEN CutInto(Notice, eaten, output, chunk \o wire)
                 ELSE CutInto(setup.script, eaten, output, chunk \o (wire \o script))

\* The result of an Exec is the text of the bytes it took, the negotiation
\* removed, wherever the chunks were cut; cut at MaxRead.  A sequence that
\* outgrows maxIACPending is passed on as it is.
ExecFilters ==
  ~flushed =>
    LET text == IF setup.keep THEN seen ELSE Text(seen)
    IN  result = SubSeq(text, 1, IF Len(text) < MaxRead THEN Len(text) ELSE MaxRead)

\* What the comments of Read and Exec say, and what is not so: as long as the
\* user has not called Close, a Read comes back without data only when output
\* has been drained, also when the other end has gone or a read has timed out.
ReadDrains ==
  [][cclose = "idle" /\ user \in {"read", "exec", "readBlocked", "execBlocked"}
     /\ user' = "idle" /\ UNCHANGED eaten => output = <<>>]_vars

\* The client's Close returns and wakes a blocked Read or Exec, also while
\* readLoop blocks on the full channel, unless the error callback has called
\* Close itself.
CloseWakesAll ==
  /\ cclose = "cleaning" ~> (cclose = "returned" \/ reader = "stuck")
  /\ (closed /\ user \in {"readBlocked", "execBlocked"}) ~> user = "idle"

\* A Close of the server that took effect after Listen had published its
\* listener and has returned leaves no handler at work, no connection in the
\* registry and no socket, handlers spawned after Close had swept the registry
\* included.
CloseLeavesNothing ==
  closer = "returned" /\ ~early => Handlers = {} /\ conns = {} /\ ~bound

\* Such a Close returns.
ServerCloseCompletes == closer = "stopping" ~> (early \/ closer = "returned")

\* Closing either end completes, while the other one goes on or is closed too.
BothEndsClose == CloseWakesAll /\ ServerCloseCompletes
=============================================================================
