------------------------------ MODULE WsClient ------------------------------
(***************************************************************************)
(* The WebSocket client (ws/client/client.go): calls of Connect, Send and  *)
(* Close, the three goroutines that serve a connection, and the reconnect  *)
(* goroutine that the loss of one starts.  They share the state, the field *)
(* conn and the channel sendCh.                                            *)
(*                                                                         *)
(* Connections are numbered in the order they are dialled; MaxDials bounds *)
(* their number.  The goroutine that reconnects after the loss of c is     *)
(* named c as well.  Responses received and decoded only reach the user's  *)
(* callback and are left out.                                              *)
(***************************************************************************)
EXTENDS Integers, Sequences, FiniteSets

CONSTANTS Users,          \* calls of Connect by the user
          Closers,        \* calls of Close
          Messages,       \* requests, each sent once
          MaxDials,       \* bound: connections established
          MaxAttempts,    \* WithClientMaxReconnectAttempts
          PingLimit,      \* failed pings in a row that end a connection (3)
          SendCap,        \* capacity of sendCh (512)
          BaseDelay,      \* first delay before a reconnect (5 * 10^8 ns)
          IntBits         \* width of a time.Duration (64)

Conns   == 1 .. MaxDials
None    == 0
Dialers == Users \cup Conns

ASSUME NumbersAssumption == /\ {MaxDials, MaxAttempts} \subseteq Nat
                            /\ {PingLimit, SendCap, BaseDelay, IntBits} \subseteq Nat \ {0}
ASSUME UsersAssumption == IsFiniteSet(Users) /\ Users \cap Conns = {}
ASSUME MessagesAssumption == None \notin Messages

VARIABLES autoReconnect,  \* the option, fixed when the client is made
          heartbeat,  \* its interval is above 0, fixed as well
          state,      \* the atomic state
          ctxDone,    \* the client's context is cancelled
          conn,       \* the field conn, None when nil
          link,       \* the network's view of each connection
          dialled,    \* number of connections established
          dialer,     \* the goroutines that run Connect
          got,        \* the connection each of them has dialled
          attempt,    \* the loop variable of each reconnect
          reader, writer, health,  \* the loops of each connection
          wmsg,       \* what a writer has taken from sendCh
          fails,      \* failed pings in a row
          sendCh,     \* contents of the channel
          msg,        \* what has become of each message
          accepted,   \* messages in the order sendCh took them
          delivered,  \* messages in the order the peers received them
          closer      \* the Close calls

options == <<autoReconnect, heartbeat>>
dials == <<dialled, dialer, got, attempt>>
loops == <<reader, writer, health, wmsg, fails>>
mail  == <<sendCh, msg, accepted, delivered>>
vars  == <<options, state, ctxDone, conn, link, dials, loops, mail, closer>>

NewClient ==
  /\ autoReconnect \in BOOLEAN /\ heartbeat \in BOOLEAN
  /\ state = "Init" /\ ctxDone = FALSE /\ conn = None
  /\ link = [c \in Conns |-> "unused"] /\ dialled = 0
  /\ dialer = [d \in Dialers |-> "idle"] /\ got = [d \in Dialers |-> None]
  /\ attempt = [c \in Conns |-> 0]
  /\ reader = [c \in Conns |-> "off"] /\ writer = [c \in Conns |-> "off"]
  /\ health = [c \in Conns |-> "off"]
  /\ wmsg = [c \in Conns |-> None] /\ fails = [c \in Conns |-> 0]
  /\ sendCh = <<>> /\ msg = [m \in Messages |-> "new"]
  /\ accepted = <<>> /\ delivered = <<>>
  /\ closer = [k \in Closers |-> "idle"]

\* The context of an installed connection is cancelled: its own, or its parent.
Dead(c) == link[c] = "closed" \/ ctxDone

\* Mutant of CloseConn: forgets the connection without cancelling it.
CloseConnForgets ==
  /\ conn' = None
  /\ UNCHANGED link

\* Cancels, closes and forgets whatever connection is current.
CloseConn ==
  /\ conn' = None
  /\ link' = [c \in Conns |-> IF c = conn THEN "closed" ELSE link[c]]

-----------------------------------------------------------------------------
(* Connect, called by the user or by reconnect.                            *)

UserCalls(u) ==
  /\ dialer[u] = "idle"
  /\ dialer' = [dialer EXCEPT ![u] = "called"]
  /\ UNCHANGED <<options, state, ctxDone, conn, link, dialled, got, attempt, loops, mail, closer>>

ConnectCheck(d) ==
  /\ dialer[d] = "called"
  /\ dialer' = [dialer EXCEPT ![d] = IF ctxDone THEN "err" ELSE "checked"]
  /\ UNCHANGED <<options, state, ctxDone, conn, link, dialled, got, attempt, loops, mail, closer>>

ConnectDials(d) ==
  /\ dialer[d] = "checked"
  /\ state' = "Connecting"
  /\ dialer' = [dialer EXCEPT ![d] = "dialing"]
  /\ UNCHANGED <<options, ctxDone, conn, link, dialled, got, attempt, loops, mail, closer>>

\* reconnect dials under the client's context, the user under one of his own.
DialSucceeds(d) ==
  /\ dialer[d] = "dialing"
  /\ dialled < MaxDials
  /\ d \in Conns => ~ctxDone
  /\ dialled' = dialled + 1
  /\ link' = [link EXCEPT ![dialled + 1] = "open"]
  /\ got' = [got EXCEPT ![d] = dialled + 1]
  /\ dialer' = [dialer EXCEPT ![d] = "dialled"]
  /\ UNCHANGED <<options, state, ctxDone, conn, attempt, loops, mail, closer>>

DialFails(d) ==
  /\ dialer[d] = "dialing"
  /\ state' = "Failed"
  /\ dialer' = [dialer EXCEPT ![d] = "err"]
  /\ UNCHANGED <<options, ctxDone, conn, link, dialled, got, attempt, loops, mail, closer>>

ConnectClears(d) ==
  /\ dialer[d] = "dialled"
  /\ CloseConn
  /\ dialer' = [dialer EXCEPT ![d] = "cleared"]
  /\ UNCHANGED <<options, state, ctxDone, dialled, got, attempt, loops, mail, closer>>

ConnectInstalls(d) ==
  /\ dialer[d] = "cleared"
  /\ conn' = got[d]
  /\ dialer' = [dialer EXCEPT ![d] = "installed"]
  /\ UNCHANGED <<options, state, ctxDone, link, dialled, got, attempt, loops, mail, closer>>

\* The state, the callback, the goroutines; without a heartbeat no health loop.
ConnectReturns(d) ==
  /\ dialer[d] = "installed"
  /\ state' = "Connected"
  /\ reader' = [reader EXCEPT ![got[d]] = "reading"]
  /\ writer' = [writer EXCEPT ![got[d]] = "waiting"]
  /\ health' = [health EXCEPT ![got[d]] = IF heartbeat THEN "on" ELSE "off"]
  /\ dialer' = [dialer EXCEPT ![d] = "ok"]
  /\ got' = [got EXCEPT ![d] = None]
  /\ UNCHANGED <<options, ctxDone, conn, link, dialled, attempt, wmsg, fails, mail, closer>>

Connect(d) == \/ ConnectCheck(d) \/ ConnectDials(d) \/ DialSucceeds(d) \/ DialFails(d)
              \/ ConnectClears(d) \/ ConnectInstalls(d) \/ ConnectReturns(d)

-----------------------------------------------------------------------------
(* readLoop and onConnectionLost.                                          *)

ReadFails(c) ==
  /\ reader[c] = "reading"
  /\ link[c] = "lost" \/ Dead(c)
  /\ reader' = [reader EXCEPT ![c] = "losing"]
  /\ UNCHANGED <<options, state, ctxDone, conn, link, dials, writer, health, wmsg, fails, mail, closer>>

\* Mutant of LostClears: leaves everything to a Close that has been called.
LostClearsUnlessClosed(c) ==
  /\ reader[c] = "losing"
  /\ IF ctxDone THEN UNCHANGED <<conn, link>> ELSE CloseConn
  /\ reader' = [reader EXCEPT ![c] = "judging"]
  /\ UNCHANGED <<options, state, ctxDone, dials, writer, health, wmsg, fails, mail, closer>>

LostClears(c) ==
  /\ reader[c] = "losing"
  /\ CloseConn
  /\ reader' = [reader EXCEPT ![c] = "judging"]
  /\ UNCHANGED <<options, state, ctxDone, dials, writer, health, wmsg, fails, mail, closer>>

LostReconnects(c) ==
  /\ reader[c] = "judging"
  /\ ~ctxDone /\ autoReconnect
  /\ reader' = [reader EXCEPT ![c] = "ended"]
  /\ dialer' = [dialer EXCEPT ![c] = "top"]
  /\ UNCHANGED <<options, state, ctxDone, conn, link, dialled, got, attempt,
                 writer, health, wmsg, fails, mail, closer>>

\* Closed by the user, or about to report the failure.
LostStops(c) ==
  /\ reader[c] = "judging"
  /\ ctxDone \/ ~autoReconnect
  /\ reader' = [reader EXCEPT ![c] = IF ctxDone THEN "ended" ELSE "failing"]
  /\ UNCHANGED <<options, state, ctxDone, conn, link, dials, writer, health, wmsg, fails, mail, closer>>

LostFails(c) ==
  /\ reader[c] = "failing"
  /\ state' = "Failed"
  /\ reader' = [reader EXCEPT ![c] = "ended"]
  /\ UNCHANGED <<options, ctxDone, conn, link, dials, writer, health, wmsg, fails, mail, closer>>

ReadLoop(c) == \/ ReadFails(c) \/ LostClears(c) \/ LostReconnects(c)
               \/ LostStops(c) \/ LostFails(c)

-----------------------------------------------------------------------------
(* reconnect.                                                              *)

\* The delay before attempt n, doubled every time, as a signed IntBits-bit
\* number; the cap on it does nothing for one that has turned negative.
Delay(n) == LET d == (BaseDelay * 2^n) % 2^IntBits
            IN  IF d < 2^(IntBits - 1) THEN d ELSE d - 2^IntBits

\* rand.Int63n panics unless half the delay is positive.
BackoffPanics(n) == Delay(n) < 2

\* The head of the loop, up to the wait.
ReconnectLoops(c) ==
  /\ dialer[c] = "top"
  /\ dialer' = [dialer EXCEPT ![c] = IF attempt[c] >= MaxAttempts THEN "exhausted"
                                     ELSE IF ctxDone THEN "ended"
                                     ELSE IF BackoffPanics(attempt[c]) THEN "panicked"
                                     ELSE "backoff"]
  /\ UNCHANGED <<options, state, ctxDone, conn, link, dialled, got, attempt, loops, mail, closer>>

ReconnectStops(c) ==
  /\ dialer[c] = "backoff"
  /\ ctxDone
  /\ dialer' = [dialer EXCEPT ![c] = "ended"]
  /\ UNCHANGED <<options, state, ctxDone, conn, link, dialled, got, attempt, loops, mail, closer>>

\* The timer has fired; the select may prefer it to a cancelled context.
ReconnectTries(c) ==
  /\ dialer[c] = "backoff"
  /\ state' = "Reconnecting"
  /\ dialer' = [dialer EXCEPT ![c] = "called"]
  /\ UNCHANGED <<options, ctxDone, conn, link, dialled, got, attempt, loops, mail, closer>>

ReconnectRetries(c) ==
  /\ dialer[c] = "err"
  /\ state' = "Failed"
  /\ attempt' = [attempt EXCEPT ![c] = @ + 1]
  /\ dialer' = [dialer EXCEPT ![c] = "top"]
  /\ UNCHANGED <<options, ctxDone, conn, link, dialled, got, loops, mail, closer>>

ReconnectGivesUp(c) ==
  /\ dialer[c] = "exhausted"
  /\ state' = "Failed"
  /\ dialer' = [dialer EXCEPT ![c] = "gaveUp"]
  /\ UNCHANGED <<options, ctxDone, conn, link, dialled, got, attempt, loops, mail, closer>>

Reconnect(c) == \/ ReconnectLoops(c) \/ ReconnectStops(c) \/ ReconnectTries(c)
                \/ ReconnectRetries(c) \/ ReconnectGivesUp(c)

-----------------------------------------------------------------------------
(* writeLoop.  A select with both cases ready takes either.                *)

WriterTakes(c) ==
  /\ writer[c] = "waiting"
  /\ sendCh # <<>>
  /\ wmsg' = [wmsg EXCEPT ![c] = Head(sendCh)]
  /\ sendCh' = Tail(sendCh)
  /\ writer' = [writer EXCEPT ![c] = "writing"]
  /\ UNCHANGED <<options, state, ctxDone, conn, link, dials, reader, health, fails,
                 msg, accepted, delivered, closer>>

WriterStops(c) ==
  /\ writer[c] = "waiting"
  /\ Dead(c)
  /\ writer' = [writer EXCEPT ![c] = "ended"]
  /\ UNCHANGED <<options, state, ctxDone, conn, link, dials, reader, health, wmsg, fails, mail, closer>>

\* conn.Write succeeds.  On a connection lost without notice nobody receives.
WriteSucceeds(c) ==
  /\ writer[c] = "writing"
  /\ ~Dead(c)
  /\ delivered' = IF link[c] = "open" THEN Append(delivered, wmsg[c]) ELSE delivered
  /\ msg' = [msg EXCEPT ![wmsg[c]] = IF link[c] = "open" THEN "delivered" ELSE "lost"]
  /\ wmsg' = [wmsg EXCEPT ![c] = None]
  /\ writer' = [writer EXCEPT ![c] = "waiting"]
  /\ UNCHANGED <<options, state, ctxDone, conn, link, dials, reader, health, fails,
                 sendCh, accepted, closer>>

\* Mutant of WriteFails: the message goes back to the channel.
WriteFailsRequeues(c) ==
  /\ writer[c] = "writing" /\ (link[c] = "lost" \/ Dead(c))
  /\ sendCh' = Append(sendCh, wmsg[c])
  /\ wmsg' = [wmsg EXCEPT ![c] = None]
  /\ writer' = [writer EXCEPT ![c] = "ended"]
  /\ UNCHANGED <<options, state, ctxDone, conn, link, dials, reader, health, fails,
                 msg, accepted, delivered, closer>>

WriteFails(c) ==
  /\ writer[c] = "writing"
  /\ link[c] = "lost" \/ Dead(c)
  /\ msg' = [msg EXCEPT ![wmsg[c]] = "lost"]
  /\ wmsg' = [wmsg EXCEPT ![c] = None]
  /\ writer' = [writer EXCEPT ![c] = "ended"]
  /\ UNCHANGED <<options, state, ctxDone, conn, link, dials, reader, health, fails,
                 sendCh, accepted, delivered, closer>>

WriteLoop(c) == WriterTakes(c) \/ WriterStops(c) \/ WriteSucceeds(c) \/ WriteFails(c)

-----------------------------------------------------------------------------
(* healthLoop.  A tick and the ping it sends are one step: the select may    *)
(* prefer the tick even when the context is cancelled.                     *)

HealthStops(c) ==
  /\ health[c] = "on"
  /\ Dead(c)
  /\ health' = [health EXCEPT ![c] = "ended"]
  /\ fails' = [fails EXCEPT ![c] = 0]
  /\ UNCHANGED <<options, state, ctxDone, conn, link, dials, reader, writer, wmsg, mail, closer>>

PingSucceeds(c) ==
  /\ health[c] = "on"
  /\ link[c] = "open" /\ ~ctxDone
  /\ fails' = [fails EXCEPT ![c] = 0]
  /\ UNCHANGED <<options, state, ctxDone, conn, link, dials, reader, writer, health, wmsg, mail, closer>>

\* A ping may time out on any connection.
PingFails(c) ==
  /\ health[c] = "on"
  /\ fails[c] + 1 < PingLimit
  /\ fails' = [fails EXCEPT ![c] = @ + 1]
  /\ UNCHANGED <<options, state, ctxDone, conn, link, dials, reader, writer, health, wmsg, mail, closer>>

\* Mutant of HealthGivesUp: the loop ends, the connection is left as it is.
HealthGivesUpQuietly(c) ==
  /\ health[c] = "on" /\ fails[c] + 1 >= PingLimit
  /\ fails' = [fails EXCEPT ![c] = 0]
  /\ health' = [health EXCEPT ![c] = "ended"]
  /\ UNCHANGED <<options, state, ctxDone, conn, link, dials, reader, writer, wmsg, mail, closer>>

\* The last failure closes the connection that is current now.
HealthGivesUp(c) ==
  /\ health[c] = "on"
  /\ fails[c] + 1 >= PingLimit
  /\ CloseConn
  /\ fails' = [fails EXCEPT ![c] = 0]
  /\ health' = [health EXCEPT ![c] = "ended"]
  /\ UNCHANGED <<options, state, ctxDone, dials, reader, writer, wmsg, mail, closer>>

HealthLoop(c) == HealthStops(c) \/ PingSucceeds(c) \/ PingFails(c) \/ HealthGivesUp(c)

-----------------------------------------------------------------------------
(* Send and Close.                                                         *)

SendChecks(m) ==
  /\ msg[m] = "new"
  /\ msg' = [msg EXCEPT ![m] = IF ctxDone \/ state # "Connected" THEN "refused" ELSE "sending"]
  /\ UNCHANGED <<options, state, ctxDone, conn, link, dials, loops, sendCh, accepted, delivered, closer>>

SendQueues(m) ==
  /\ msg[m] = "sending"
  /\ Len(sendCh) < SendCap
  /\ sendCh' = Append(sendCh, m)
  /\ accepted' = Append(accepted, m)
  /\ msg' = [msg EXCEPT ![m] = "queued"]
  /\ UNCHANGED <<options, state, ctxDone, conn, link, dials, loops, delivered, closer>>

SendAborts(m) ==
  /\ msg[m] = "sending"
  /\ ctxDone
  /\ msg' = [msg EXCEPT ![m] = "refused"]
  /\ UNCHANGED <<options, state, ctxDone, conn, link, dials, loops, sendCh, accepted, delivered, closer>>

Send(m) == SendChecks(m) \/ SendQueues(m) \/ SendAborts(m)

CloseChecks(k) ==
  /\ closer[k] = "idle"
  /\ closer' = [closer EXCEPT ![k] = IF ctxDone THEN "returned" ELSE "cancelling"]
  /\ UNCHANGED <<options, state, ctxDone, conn, link, dials, loops, mail>>

CloseCancels(k) ==
  /\ closer[k] = "cancelling"
  /\ ctxDone' = TRUE
  /\ closer' = [closer EXCEPT ![k] = "clearing"]
  /\ UNCHANGED <<options, state, conn, link, dials, loops, mail>>

CloseClears(k) ==
  /\ closer[k] = "clearing"
  /\ CloseConn
  /\ closer' = [closer EXCEPT ![k] = "reporting"]
  /\ UNCHANGED <<options, state, ctxDone, dials, loops, mail>>

CloseReports(k) ==
  /\ closer[k] = "reporting"
  /\ state' = "Disconnected"
  /\ closer' = [closer EXCEPT ![k] = "returned"]
  /\ UNCHANGED <<options, ctxDone, conn, link, dials, loops, mail>>

Close(k) == CloseChecks(k) \/ CloseCancels(k) \/ CloseClears(k) \/ CloseReports(k)

-----------------------------------------------------------------------------
\* The network drops a connection; nobody has noticed yet.
LinkDrops(c) ==
  /\ link[c] = "open"
  /\ link' = [link EXCEPT ![c] = "lost"]
  /\ UNCHANGED <<options, state, ctxDone, conn, dials, loops, mail, closer>>

Serve(c) == ReadLoop(c) \/ WriteLoop(c) \/ HealthLoop(c) \/ Reconnect(c) \/ LinkDrops(c)

\* Nothing recovers a panic in the goroutine that reconnects: it ends the
\* process.
Running == \A c \in Conns : dialer[c] # "panicked"

Next == /\ Running
        /\ \/ \E u \in Users : UserCalls(u)
           \/ \E d \in Dialers : Connect(d)
           \/ \E c \in Conns : Serve(c)
           \/ \E m \in Messages : Send(m)
           \/ \E k \in Closers : Close(k)

Spec == NewClient /\ [][Next]_vars

\* Every goroutine that can take a step takes one as long as the process
\* runs: Read, Write and Ping fail once the connection's context is cancelled,
\* Ping ends within its timeout, Dial within its own, the backoff timer fires.
\* A connection need not drop, Read need not notice that it has, and nobody
\* need call Connect, Send or Close.
Fairness ==
  /\ \A d \in Dialers : WF_vars(Running /\ Connect(d))
  /\ \A c \in Conns : /\ WF_vars(Running /\ ReadLoop(c) /\ (reader[c] = "reading" => Dead(c)))
                      /\ WF_vars(Running /\ Reconnect(c))
                      /\ WF_vars(Running /\ WriteLoop(c)) /\ WF_vars(Running /\ HealthLoop(c))
  /\ \A m \in Messages : WF_vars(Running /\ (SendQueues(m) \/ SendAborts(m)))
  /\ \A k \in Closers : WF_vars(Running /\ Close(k) /\ closer[k] # "idle")

FairSpec == Spec /\ Fairness

-----------------------------------------------------------------------------
(* Properties.                                                             *)

\* Types.
TypeOK ==
  /\ autoReconnect \in BOOLEAN /\ heartbeat \in BOOLEAN
  /\ state \in {"Init", "Connecting", "Connected", "Disconnected", "Reconnecting", "Failed"}
  /\ ctxDone \in BOOLEAN /\ conn \in Conns \cup {None}
  /\ link \in [Conns -> {"unused", "open", "lost", "closed"}]
  /\ dialled \in 0 .. MaxDials
  /\ dialer \in [Dialers -> {"idle", "top", "backoff", "called", "checked", "dialing",
                             "dialled", "cleared", "installed", "ok", "err", "exhausted",
                             "gaveUp", "ended", "panicked"}]
  /\ got \in [Dialers -> Conns \cup {None}]
  /\ attempt \in [Conns -> 0 .. MaxAttempts]
  /\ reader \in [Conns -> {"off", "reading", "losing", "judging", "failing", "ended"}]
  /\ writer \in [Conns -> {"off", "waiting", "writing", "ended"}]
  /\ health \in [Conns -> {"off", "on", "ended"}]
  /\ wmsg \in [Conns -> Messages \cup {None}]
  /\ fails \in [Conns -> 0 .. PingLimit]
  /\ sendCh \in Seq(Messages) /\ Len(sendCh) <= SendCap
  /\ msg \in [Messages -> {"new", "refused", "sending", "queued", "lost", "delivered"}]
  /\ accepted \in Seq(Messages) /\ delivered \in Seq(Messages)
  /\ closer \in [Closers -> {"idle", "cancelling", "clearing", "reporting", "returned"}]

\* Goroutines inside Connect or reconnect, and the connection one is setting up.
Dialing == {d \in Dialers : dialer[d] \notin {"idle", "ok", "ended", "gaveUp", "panicked"}
                            /\ (d \in Users => dialer[d] # "err")}
InHand  == {got[d] : d \in {x \in Dialers : dialer[x] \in {"dialled", "cleared"}}}

\* Connections nobody has cancelled.
Alive == {c \in Conns : link[c] # "unused" /\ ~Dead(c)}

\* The user has called Connect at most once, as the README's example does, and
\* leaves the rest to the client.
OneCall == Cardinality({u \in Users : dialer[u] # "idle"}) <= 1

\* As long as Connect is called once there is at most one goroutine that
\* dials, and every connection that is alive is the current one or in that
\* goroutine's hand: none is orphaned, through every loss, every failed dial
\* and every health check that fires late on a connection already replaced.
NoOrphans == /\ TypeOK
             /\ OneCall => /\ Cardinality(Dialing) <= 1
                           /\ Alive \subseteq {conn} \cup InHand

\* Peers receive a subsequence of what Send accepted, in that order and each
\* message at most once, although old and new writers share the channel and
\* either may take a message.
InOrder ==
  OneCall => \E f \in [1 .. Len(delivered) -> 1 .. Len(accepted)] :
               /\ \A p \in DOMAIN f : accepted[f[p]] = delivered[p]
               /\ \A p, q \in DOMAIN f : p < q => f[p] < f[q]

\* The goroutines of every connection have ended, none is current, no Send
\* is blocked; a Connect may be about to find the client closed.
Quiet == /\ \A c \in Conns : /\ reader[c] \in {"off", "ended"}
                             /\ writer[c] \in {"off", "ended"}
                             /\ health[c] \in {"off", "ended"}
         /\ conn = None
         /\ \A d \in Dialing : d \in Users /\ dialer[d] = "called"
         /\ \A m \in Messages : msg[m] # "sending"

\* After Close everything comes to rest, also when Connect or a reconnect was
\* under way and installs its connection after Close has looked for one.
CloseQuiesces == ctxDone ~> []Quiet

\* The attempts allowed stay below the one whose delay overflows, the 36th.
FewAttempts == \A n \in 0 .. MaxAttempts - 1 : ~BackoffPanics(n)

\* What becomes of the loss of c: it is replaced, or the client gives up and
\* says so, or it is closed.
Handled(c) == \/ ctxDone
              \/ conn \notin {None, c}
              \/ \E d \in Conns : dialer[d] = "gaveUp"

\* With a heartbeat, a connection lost without notice is replaced, given up
\* with a report, or closed: the health loop notices, closes it, and Read
\* starts the reconnect.  Unless more attempts are allowed than the delay can
\* be doubled.
LossIsHandled ==
  \A c \in Conns :
    autoReconnect /\ heartbeat /\ FewAttempts /\ link[c] = "lost" /\ reader[c] = "reading" ~>
    Handled(c)

\* The same for any number of attempts, as the README describes the backoff:
\* doubled, at most 60 s, and a report once they are used up.  Refuted: the
\* delay of the 36th attempt is negative, and the process panics.
EveryLossIsHandled ==
  \A c \in Conns : autoReconnect /\ heartbeat /\ link[c] = "lost" /\ reader[c] = "reading" ~>
                     Handled(c)

\* The README's table of states: StateDisconnected after Close.  Refuted: a
\* Connect or a reconnect under way stores its own state after Close has
\* stored that one, and it stays.
ClosedIsDisconnected ==
  /\ \E k \in Closers : closer[k] = "returned"
  /\ \A k \in Closers : closer[k] \in {"idle", "returned"}
  /\ Quiet
  => state = "Disconnected"
=============================================================================
