--------------------------------- MODULE Udp ---------------------------------
(***************************************************************************)
(* The UDP client and server (pkg/socket/udp_client.go, udp_server.go) and *)
(* the network between them, which loses, doubles and reorders datagrams.  *)
(*                                                                         *)
(* The server reads datagrams into one buffer and hands a copy of each to  *)
(* a goroutine of its own; MaxConns bounds how many run.  The handler is   *)
(* the user's: it may answer, and it returns when it likes, at the latest  *)
(* when its context is cancelled.                                          *)
(***************************************************************************)
EXTENDS Integers, Sequences, FiniteSets, Bags, SequencesExt

CONSTANTS
  Datagrams,     \* what the client's user writes, each at most once
  Empty,         \* those of them without a byte
  Goroutines,    \* handlePacket goroutines: the bound on packets taken in
  MaxConns,      \* the server's limit on goroutines at work, 0 for none
  OutCap,        \* capacity of the client's channel output
  Setups,        \* the bounds: how many datagrams the user writes, how many the
                 \* network doubles, and which of Events may happen
  None

\* ReadTimeout is set; a handler answers without end; the user reads; the client
\* is closed, its context cancelled; the server is closed, its context cancelled;
\* datagrams get lost.
Events == {"timeout", "steady", "read", "close", "cancel", "stop", "cancelServer", "lose"}

ASSUME UdpAssumption ==
  /\ None \notin Datagrams /\ Empty \subseteq Datagrams /\ IsFiniteSet(Goroutines)
  /\ MaxConns \in Nat /\ OutCap \in Nat \ {0}
  /\ \A s \in Setups : s.writes \in Nat /\ s.doubles \in Nat /\ s.can \subseteq Events

VARIABLES
  \* the server
  state, listen, bound, conn, ctx, sem, active, listenWG, buf, closer, early,
  gor,           \* its goroutines: [at, data]
  \* history of the server: packets taken in, those dropped at the limit and
  \* those passed over because they are empty
  taken, refused, skipped,
  \* the network: datagrams and answers on their way
  requests, answers, doubles,
  \* the client
  cstate, socket, output, outClosed, closed, reader, chunk, cclose, cctx, fired, deadline,
  \* its user
  user, written,
  setup

listening == <<state, listen, bound, conn, ctx, listenWG>>
history   == <<taken, refused, skipped>>
packets   == <<sem, active, buf, gor, history>>
server    == <<listening, packets, closer, early>>
network   == <<requests, answers, doubles>>
client    == <<cstate, socket, output, outClosed, closed, reader, chunk, cclose, cctx, fired,
               deadline>>
caller    == <<user, written>>
vars      == <<server, network, client, caller, setup>>

\* The goroutines s.wg counts, and those that hold a slot of the semaphore.
Busy    == {g \in Goroutines : gor[g].at \in {"spawned", "running", "answered", "returned", "released"}}
Holding == {g \in Goroutines : gor[g].at \in {"spawned", "running", "answered", "returned"}}

Init ==
  /\ state = "init" /\ listen = "idle" /\ bound = FALSE /\ conn = FALSE /\ ctx = "nil"
  /\ sem = 0 /\ active = 0 /\ listenWG = 0 /\ buf = None /\ closer = "idle" /\ early = FALSE
  /\ gor = [g \in Goroutines |-> [at |-> "none", data |-> None]]
  /\ taken = EmptyBag /\ refused = EmptyBag /\ skipped = EmptyBag
  /\ requests = EmptyBag /\ answers = EmptyBag /\ doubles = 0
  /\ cstate = "init" /\ socket = FALSE /\ output = <<>> /\ outClosed = FALSE
  /\ closed = FALSE /\ reader = "none" /\ chunk = None /\ cclose = "idle"
  /\ cctx = "live" /\ fired = FALSE /\ deadline = FALSE
  /\ user = "idle" /\ written = {}
  /\ setup \in Setups

-----------------------------------------------------------------------------
(* The server: Listen.                                                     *)

ListenCAS ==
  /\ listen = "idle"
  /\ state' = IF state = "init" THEN "serving" ELSE state
  /\ listen' = IF state = "init" THEN "adding" ELSE "refused"
  /\ UNCHANGED <<bound, conn, ctx, listenWG, packets, closer, early, network, client, caller, setup>>

ListenAdd ==
  /\ listen = "adding"
  /\ listenWG' = listenWG + 1 /\ listen' = "binding"
  /\ UNCHANGED <<state, bound, conn, ctx, packets, closer, early, network, client, caller, setup>>

\* ResolveUDPAddr or ListenUDP fails, before listenWG.Done is deferred.
ListenBindFails ==
  /\ listen = "binding"
  /\ state' = "closed" /\ listen' = "failed"
  /\ UNCHANGED <<bound, conn, ctx, listenWG, packets, closer, early, network, client, caller, setup>>

ListenBind ==
  /\ listen = "binding"
  /\ bound' = TRUE /\ listen' = "bound"
  /\ UNCHANGED <<state, conn, ctx, listenWG, packets, closer, early, network, client, caller, setup>>

\* Context and s.conn under listenerMu, semaphore, deferred calls, watcher.
ListenSetUp ==
  /\ listen = "bound"
  /\ ctx' = "live" /\ conn' = TRUE /\ listen' = "reading"
  /\ UNCHANGED <<state, bound, listenWG, packets, closer, early, network, client, caller, setup>>

\* ReadFromUDP fills the one buffer.
ReadFrom ==
  /\ listen = "reading" /\ bound
  /\ \E g \in Goroutines : gor[g].at = "none"
  /\ \E d \in BagToSet(requests) \ Empty :
       /\ requests' = requests (-) SetToBag({d})
       /\ buf' = d
       /\ taken' = taken (+) SetToBag({d})
  /\ listen' = "admitting"
  /\ UNCHANGED <<state, bound, conn, ctx, listenWG, sem, active, gor, refused, skipped, closer,
                 early, answers, doubles, client, caller, setup>>

\* A packet of no bytes is read, and the loop goes on to the next.
SkipEmpty ==
  /\ listen = "reading" /\ bound
  /\ \E d \in BagToSet(requests) \cap Empty :
       /\ requests' = requests (-) SetToBag({d})
       /\ taken' = taken (+) SetToBag({d})
       /\ skipped' = skipped (+) SetToBag({d})
  /\ UNCHANGED <<listening, sem, active, buf, gor, refused, closer, early, answers, doubles,
                 client, caller, setup>>

\* No slot is free: the packet is dropped.
DropPacket ==
  /\ listen = "admitting"
  /\ MaxConns > 0 /\ sem >= MaxConns
  /\ refused' = refused (+) SetToBag({buf})
  /\ listen' = "reading"
  /\ UNCHANGED <<state, bound, conn, ctx, listenWG, sem, active, buf, gor, taken, skipped, closer,
                 early, network, client, caller, setup>>

\* A slot, a copy of the buffer, wg.Add(1) and a goroutine.
Spawn ==
  /\ listen = "admitting"
  /\ MaxConns = 0 \/ sem < MaxConns
  /\ sem' = IF MaxConns = 0 THEN sem ELSE sem + 1
  /\ LET g == CHOOSE g \in Goroutines : gor[g].at = "none"
     IN  gor' = [gor EXCEPT ![g] = [at |-> "spawned", data |-> buf]]
  /\ listen' = "reading"
  /\ UNCHANGED <<state, bound, conn, ctx, listenWG, active, buf, history, closer, early,
                 network, client, caller, setup>>

\* ReadFromUDP fails: the socket is closed, or the watcher of a cancelled
\* context has set the deadline.  After any other error the loop goes on.
ReadFromFails ==
  /\ listen = "reading"
  /\ ~bound \/ ctx = "cancelled"
  /\ listen' = "leaving"
  /\ UNCHANGED <<state, bound, conn, ctx, listenWG, packets, closer, early, network, client,
                 caller, setup>>

CloseConn ==
  /\ bound' = IF conn THEN FALSE ELSE bound
  /\ conn' = FALSE

ListenLeave ==
  /\ listen = "leaving"
  /\ CloseConn /\ ctx' = "cancelled"
  /\ listen' = "waiting"
  /\ UNCHANGED <<state, listenWG, packets, closer, early, network, client, caller, setup>>

\* Mutant of ListenWait: does not wait for the goroutines.
ListenNoWait ==
  /\ listen = "waiting"
  /\ state' = "closed" /\ listen' = "ending"
  /\ UNCHANGED <<bound, conn, ctx, listenWG, packets, closer, early, network, client, caller, setup>>

ListenWait ==
  /\ listen = "waiting" /\ Busy = {}
  /\ state' = "closed" /\ listen' = "ending"
  /\ UNCHANGED <<bound, conn, ctx, listenWG, packets, closer, early, network, client, caller, setup>>

ListenReturns ==
  /\ listen = "ending"
  /\ listenWG' = listenWG - 1 /\ listen' = "returned"
  /\ UNCHANGED <<state, bound, conn, ctx, packets, closer, early, network, client, caller, setup>>

\* The parent context is cancelled.
ParentCancelled ==
  /\ "cancelServer" \in setup.can /\ ctx = "live"
  /\ ctx' = "cancelled"
  /\ UNCHANGED <<state, listen, bound, conn, listenWG, packets, closer, early, network, client,
                 caller, setup>>

-----------------------------------------------------------------------------
(* The server: handlePacket, in the order of its deferred calls.           *)

\* Mutant of HandlerStarts: the goroutine looks at the shared buffer.
HandlerStartsUncopied(g) ==
  /\ gor[g].at = "spawned"
  /\ active' = active + 1
  /\ gor' = [gor EXCEPT ![g] = [at |-> "running", data |-> buf]]
  /\ UNCHANGED <<listening, sem, buf, history, closer, early, network, client, caller, setup>>

HandlerStarts(g) ==
  /\ gor[g].at = "spawned"
  /\ active' = active + 1
  /\ gor' = [gor EXCEPT ![g].at = "running"]
  /\ UNCHANGED <<listening, sem, buf, history, closer, early, network, client, caller, setup>>

\* PacketConn.WriteToUDP, on the socket of the server.  The handler answers
\* its packet or panics and returns.
HandlerAnswers(g) ==
  /\ gor[g].at = "running" /\ bound
  /\ gor' = [gor EXCEPT ![g].at = "answered"]
  /\ \E d \in {gor[g].data} \cup Empty : answers' = answers (+) SetToBag({d})
  /\ UNCHANGED <<listening, sem, active, buf, history, closer, early, requests, doubles,
                 client, caller, setup>>

\* A handler that answers without end, here whenever the last answer is gone.
HandlerAnswersOn(g) ==
  /\ "steady" \in setup.can /\ gor[g].at = "running" /\ bound /\ answers = EmptyBag
  /\ answers' = SetToBag({gor[g].data})
  /\ UNCHANGED <<server, requests, doubles, client, caller, setup>>

HandlerReturns(g) ==
  /\ gor[g].at \in {"running", "answered"}
  /\ active' = active - 1
  /\ gor' = [gor EXCEPT ![g].at = "returned"]
  /\ UNCHANGED <<listening, sem, buf, history, closer, early, network, client, caller, setup>>

\* The slot is given back and the PacketConn is closed.
HandlerReleases(g) ==
  /\ gor[g].at = "returned"
  /\ sem' = IF MaxConns = 0 THEN sem ELSE sem - 1
  /\ gor' = [gor EXCEPT ![g].at = "released"]
  /\ UNCHANGED <<listening, active, buf, history, closer, early, network, client, caller, setup>>

HandlerDone(g) ==
  /\ gor[g].at = "released"
  /\ gor' = [gor EXCEPT ![g].at = "done"]
  /\ UNCHANGED <<listening, sem, active, buf, history, closer, early, network, client,
                 caller, setup>>

-----------------------------------------------------------------------------
(* The server: Close.                                                      *)

ServerCloseCAS ==
  /\ closer = "idle" /\ "stop" \in setup.can
  /\ state' = "closed"
  /\ closer' = IF state = "serving" THEN "stopping" ELSE "nothing"
  /\ early' = (state = "serving" /\ listen \in {"adding", "binding", "bound"})
  /\ UNCHANGED <<listen, bound, conn, ctx, listenWG, packets, network, client, caller, setup>>

ServerCloseConn ==
  /\ closer = "stopping"
  /\ CloseConn /\ closer' = "cancelling"
  /\ UNCHANGED <<state, listen, ctx, listenWG, packets, early, network, client, caller, setup>>

ServerCloseCancel ==
  /\ closer = "cancelling"
  /\ ctx' = IF ctx = "nil" THEN "nil" ELSE "cancelled"
  /\ closer' = "waiting"
  /\ UNCHANGED <<state, listen, bound, conn, listenWG, packets, early, network, client, caller, setup>>

ServerCloseReturns ==
  /\ closer = "waiting" /\ listenWG = 0
  /\ closer' = "returned"
  /\ UNCHANGED <<listening, packets, early, network, client, caller, setup>>

-----------------------------------------------------------------------------
(* The network.                                                            *)

Loses ==
  /\ "lose" \in setup.can
  /\ \/ /\ \E d \in BagToSet(requests) : requests' = requests (-) SetToBag({d})
        /\ UNCHANGED answers
     \/ /\ \E d \in BagToSet(answers) : answers' = answers (-) SetToBag({d})
        /\ UNCHANGED requests
  /\ UNCHANGED <<doubles, server, client, caller, setup>>

Doubles ==
  /\ doubles < setup.doubles
  /\ \E d \in BagToSet(requests) : requests' = requests (+) SetToBag({d})
  /\ doubles' = doubles + 1
  /\ UNCHANGED <<answers, server, client, caller, setup>>

-----------------------------------------------------------------------------
(* The client: Connect, readLoop, shutdown, Close.                         *)

\* Connect, under mu.  A UDP dial needs no server.
Connect ==
  /\ cstate = "init"
  /\ cstate' = "connected" /\ socket' = TRUE /\ reader' = "arming"
  /\ UNCHANGED <<server, network, output, outClosed, closed, chunk, cclose, cctx, fired, deadline,
                 caller, setup>>

ContextCancelled ==
  /\ "cancel" \in setup.can /\ cctx = "live" /\ cstate # "init"
  /\ cctx' = "cancelled"
  /\ UNCHANGED <<server, network, cstate, socket, output, outClosed, closed, reader, chunk, cclose,
                 fired, deadline, caller, setup>>

\* The function AfterFunc registered: SetDeadline(now), once.
ContextFires ==
  /\ cctx = "cancelled" /\ ~fired /\ reader \notin {"none", "done"}
  /\ fired' = TRUE /\ deadline' = TRUE
  /\ UNCHANGED <<server, network, cstate, socket, output, outClosed, closed, reader, chunk, cclose,
                 cctx, caller, setup>>

\* With a ReadTimeout each turn of the loop sets the deadline anew, also over
\* the one that the context has set.
ReaderArms ==
  /\ reader = "arming"
  /\ deadline' = (deadline /\ "timeout" \notin setup.can)
  /\ reader' = "reading"
  /\ UNCHANGED <<server, network, cstate, socket, output, outClosed, closed, chunk, cclose, cctx,
                 fired, caller, setup>>

ReaderReads ==
  /\ reader = "reading" /\ socket /\ ~deadline
  /\ \E d \in BagToSet(answers) :
       /\ answers' = answers (-) SetToBag({d})
       /\ chunk' = IF d \in Empty THEN None ELSE d
       /\ reader' = IF d \in Empty THEN "arming" ELSE "sending"
  /\ UNCHANGED <<server, requests, doubles, cstate, socket, output, outClosed, closed, cclose,
                 cctx, fired, deadline, caller, setup>>

ReaderSends ==
  /\ reader = "sending" /\ Len(output) < OutCap
  /\ output' = Append(output, chunk) /\ chunk' = None /\ reader' = "arming"
  /\ UNCHANGED <<server, network, cstate, socket, outClosed, closed, cclose, cctx, fired, deadline,
                 caller, setup>>

ReaderQuits ==
  /\ reader = "sending" /\ closed
  /\ chunk' = None /\ reader' = "leaving"
  /\ UNCHANGED <<server, network, cstate, socket, output, outClosed, closed, cclose, cctx, fired,
                 deadline, caller, setup>>

\* Mutant of ReadError: asks for the context before it asks for the state, and
\* a cancelled context just ends the loop.
ReadErrorForgets ==
  reader' = IF cctx = "cancelled" \/ cstate = "closed" THEN "leaving" ELSE "failing"

\* What readLoop does about an error: nothing if the client is closed, a quiet
\* shutdown if the context is cancelled, else one that calls OnError.
ReadError ==
  reader' = IF cstate = "closed" THEN "leaving"
            ELSE IF cctx = "cancelled" THEN "quitting" ELSE "failing"

\* The socket is closed, or an earlier datagram found no server.
ReaderFails ==
  /\ reader = "reading"
  /\ ~socket \/ (~bound /\ written # {})
  /\ ReadError
  /\ UNCHANGED <<server, network, cstate, socket, output, outClosed, closed, chunk, cclose, cctx,
                 fired, deadline, caller, setup>>

ReaderTimesOut ==
  /\ reader = "reading" /\ (deadline \/ "timeout" \in setup.can)
  /\ ReadError
  /\ UNCHANGED <<server, network, cstate, socket, output, outClosed, closed, chunk, cclose, cctx,
                 fired, deadline, caller, setup>>

\* shutdown: the compare-and-swap, then closeOnce, then the callback.
ReaderCAS ==
  /\ reader \in {"failing", "quitting"}
  /\ cstate' = "closed"
  /\ reader' = IF cstate = "closed" THEN "leaving"
               ELSE IF reader = "failing" THEN "cleaning" ELSE "cleaningQuietly"
  /\ UNCHANGED <<server, network, socket, output, outClosed, closed, chunk, cclose, cctx, fired,
                 deadline, caller, setup>>

ReaderCleansUp ==
  /\ reader \in {"cleaning", "cleaningQuietly"}
  /\ socket' = FALSE /\ closed' = TRUE
  /\ reader' = IF reader = "cleaning" THEN "callback" ELSE "leaving"
  /\ UNCHANGED <<server, network, cstate, output, outClosed, chunk, cclose, cctx, fired, deadline,
                 caller, setup>>

\* The callback returns, or calls Close and waits for its own goroutine.
ReaderDispatches ==
  /\ reader = "callback"
  /\ reader' \in {"leaving", "stuck"}
  /\ UNCHANGED <<server, network, cstate, socket, output, outClosed, closed, chunk, cclose, cctx,
                 fired, deadline, caller, setup>>

\* The deferred calls: close(output), readWG.Done.
ReaderLeaves ==
  /\ reader = "leaving"
  /\ outClosed' = TRUE /\ reader' = "done"
  /\ UNCHANGED <<server, network, cstate, socket, output, closed, chunk, cclose, cctx, fired,
                 deadline, caller, setup>>

CloseCAS ==
  /\ cclose = "idle" /\ "close" \in setup.can
  /\ cstate' = IF cstate = "connected" THEN "closed" ELSE cstate
  /\ cclose' = IF cstate = "connected" THEN "cleaning" ELSE "waiting"
  /\ UNCHANGED <<server, network, socket, output, outClosed, closed, reader, chunk, cctx, fired,
                 deadline, caller, setup>>

CloseCleansUp ==
  /\ cclose = "cleaning"
  /\ socket' = FALSE /\ closed' = TRUE
  /\ cclose' = "waiting"
  /\ UNCHANGED <<server, network, cstate, output, outClosed, reader, chunk, cctx, fired, deadline,
                 caller, setup>>

CloseReturns ==
  /\ cclose = "waiting" /\ reader \in {"none", "done"}
  /\ cclose' = "returned"
  /\ UNCHANGED <<server, network, cstate, socket, output, outClosed, closed, reader, chunk, cctx,
                 fired, deadline, caller, setup>>

-----------------------------------------------------------------------------
(* The client's user.                                                      *)

\* Write: stateErr, then the connection's Write under writeMu.
Write(d) ==
  /\ user = "idle" /\ d \notin written /\ Cardinality(written) < setup.writes
  /\ cstate = "connected" /\ socket
  /\ requests' = requests (+) SetToBag({d}) /\ written' = written \cup {d}
  /\ UNCHANGED <<server, answers, doubles, client, user, setup>>

\* Read asks only whether Connect has been called.
ReadBegins ==
  /\ "read" \in setup.can /\ user = "idle" /\ cstate # "init"
  /\ user' = "reading"
  /\ UNCHANGED <<server, network, client, written, setup>>

ReadTakes ==
  /\ user = "reading" /\ output # <<>>
  /\ output' = Tail(output) /\ user' = "idle"
  /\ UNCHANGED <<server, network, cstate, socket, outClosed, closed, reader, chunk, cclose, cctx,
                 fired, deadline, written, setup>>

\* io.EOF, once nothing is left in output.
ReadEnds ==
  /\ user = "reading" /\ output = <<>> /\ (outClosed \/ closed)
  /\ user' = "ended"
  /\ UNCHANGED <<server, network, client, written, setup>>

-----------------------------------------------------------------------------
Listen == \/ ListenCAS \/ ListenAdd \/ ListenBind \/ ListenBindFails \/ ListenSetUp
          \/ ReadFrom \/ SkipEmpty \/ DropPacket \/ Spawn \/ ReadFromFails
          \/ ListenLeave \/ ListenWait \/ ListenReturns

Answers(g) == HandlerAnswers(g) \/ HandlerAnswersOn(g)

HandlePacket(g) == HandlerStarts(g) \/ HandlerReleases(g) \/ HandlerDone(g)

ServerClose == ServerCloseCAS \/ ServerCloseConn \/ ServerCloseCancel \/ ServerCloseReturns

ReadLoop == \/ ReaderArms \/ ReaderReads \/ ReaderSends \/ ReaderQuits \/ ReaderFails
            \/ ReaderTimesOut \/ ReaderCAS \/ ReaderCleansUp \/ ReaderDispatches \/ ReaderLeaves

Close == CloseCAS \/ CloseCleansUp \/ CloseReturns

Next == \/ Listen \/ ServerClose \/ ParentCancelled
        \/ \E g \in Goroutines : HandlePacket(g) \/ Answers(g) \/ HandlerReturns(g)
        \/ Loses \/ Doubles
        \/ Connect \/ ReadLoop \/ ContextCancelled \/ ContextFires \/ Close
        \/ (\E d \in Datagrams : Write(d)) \/ ReadBegins \/ ReadTakes \/ ReadEnds

Spec == Init /\ [][Next]_vars

\* Goroutines that can run do run, a read deadline that is set comes, and a
\* handler whose context is cancelled returns.  No call need be made, and a
\* Read that has begun ends when it can.
Fairness ==
  /\ WF_vars(Listen /\ listen # "idle")
  /\ WF_vars(ServerClose /\ closer # "idle")
  /\ \A g \in Goroutines : /\ WF_vars(HandlePacket(g))
                           /\ WF_vars(HandlerReturns(g) /\ ctx = "cancelled")
  /\ WF_vars(ReadLoop) /\ WF_vars(ContextFires)
  /\ WF_vars(Close /\ cclose # "idle")
  /\ WF_vars(ReadTakes \/ ReadEnds)

FairSpec == Spec /\ Fairness

-----------------------------------------------------------------------------
(* Properties.                                                             *)

\* Types.
TypeOK ==
  /\ state \in {"init", "serving", "closed"} /\ ctx \in {"nil", "live", "cancelled"}
  /\ listenWG \in {0, 1} /\ buf \in Datagrams \cup {None} /\ Len(output) <= OutCap
  /\ \A g \in Goroutines : gor[g].data \in Datagrams \cup {None}
  /\ cstate \in {"init", "connected", "closed"}

\* The packets that handlers have, had or are about to get.
Given  == {g \in Goroutines : gor[g].at # "none"}
Served == [d \in {gor[g].data : g \in Given} |-> Cardinality({g \in Given : gor[g].data = d})]
InHand == IF listen = "admitting" THEN SetToBag({buf}) ELSE EmptyBag

\* "The handler is called once for every datagram that arrives": each packet
\* read is with one goroutine, or was dropped at the limit, which OnError tells,
\* or is about to be decided on.  An empty one is passed over without a word.
EachIsServed == taken = Served (+) refused (+) InHand

\* Every packet that was read is in exactly one goroutine, as it was when it
\* was read, or was dropped at the limit or is about to be decided on, though
\* the buffer has been overwritten since; only empty ones are passed over.  The
\* semaphore counts the goroutines that hold a slot, at most MaxConns, and
\* ConnCount stays within it.
PacketsHandled ==
  /\ TypeOK
  /\ taken = Served (+) refused (+) skipped (+) InHand /\ DOMAIN skipped \subseteq Empty
  /\ MaxConns > 0 => sem = Cardinality(Holding) /\ active <= sem /\ sem <= MaxConns

\* A Listen of the server that has returned, and a Close of it that took effect
\* after Listen had set up and has returned, leave no goroutine and no socket,
\* whatever was read, spawned or answered meanwhile.
NothingRemains ==
  listen = "returned" \/ (closer = "returned" /\ ~early) => Busy = {} /\ ~bound

\* A Close of the server that took effect after Listen had set up returns, and
\* a cancelled parent context ends Listen.
ServerStops ==
  /\ closer = "stopping" ~> (early \/ closer = "returned")
  /\ ctx = "cancelled" ~> listen = "returned"

\* "The context is optional; cancelling it closes the connection": a client whose
\* context is cancelled gets closed, unless readLoop blocks on a full output that
\* nobody reads.  The code does not keep this: the context sets the deadline once,
\* and a ReadTimeout replaces it before the next read.
CancelCloses ==
  (cctx = "cancelled" /\ reader # "none") ~> (closed \/ (reader = "sending" /\ Len(output) = OutCap))

\* The client's Close returns and wakes a blocked Read, unless the callback of
\* OnError has called Close; and CancelCloses holds where no ReadTimeout is set
\* or the answers at last pause.
ClientStops ==
  /\ cclose = "cleaning" ~> (cclose = "returned" \/ reader = "stuck")
  /\ (closed /\ user = "reading") ~> user # "reading"
  /\ CancelCloses \/ ("timeout" \in setup.can /\ []<><<\E g \in Goroutines : Answers(g)>>_vars)

\* Both ends stop when they are asked to, whatever the network does with the
\* packets between them.
BothEndsStop == ServerStops /\ ClientStops
=============================================================================
