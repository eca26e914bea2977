------------------------------ MODULE TcpServer ------------------------------
(***************************************************************************)
(* The TCP server (pkg/socket/tcp_server.go): one Listen goroutine that    *)
(* accepts, a goroutine per connection, and Close calls that race with     *)
(* both.  pkg/telnet/server.go repeats this code.                          *)
(*                                                                         *)
(* The handler is the user's: it may return at any moment, and one that    *)
(* blocks in Read or Write returns once its connection is closed or its    *)
(* context cancelled (Conn.Read, Conn.Write and the AfterFunc that sets    *)
(* the deadline).  A panic is recovered and counts as a return.            *)
(***************************************************************************)
EXTENDS Integers, FiniteSets

CONSTANTS Peers,      \* connections that clients open
          Closers,    \* calls of Close
          MaxConns,   \* the configured limit, 0 for none
          None        \* no connection

ASSUME LimitAssumption == MaxConns \in Nat
ASSUME PeersAssumption == IsFiniteSet(Peers) /\ None \notin Peers

VARIABLES state,      \* the atomic: "init", "serving" or "closed"
          listen,     \* the Listen goroutine
          raw,        \* the connection it has accepted and not yet handed on
          bound,      \* the socket listens
          listener,   \* s.listener is set
          ctx,        \* s.serverCtx: "nil", "live" or "cancelled"
          sem,        \* slots taken in the semaphore
          listenWG,   \* the WaitGroup Close waits for
          conns,      \* the registry of connections
          peer,       \* each client's connection
          shut,       \* connections whose Conn.Close has been called
          closer,     \* the Close calls
          early       \* Close took effect before Listen had finished setting up

socket  == <<bound, listener, ctx>>
clients == <<conns, peer, shut>>
vars    == <<state, listen, raw, socket, sem, listenWG, clients, closer, early>>

\* The goroutines s.wg counts.
Handlers == {p \in Peers : peer[p] \in {"spawned", "handling", "ended"}}

Init ==
  /\ state = "init" /\ listen = "idle" /\ raw = None
  /\ bound = FALSE /\ listener = FALSE /\ ctx = "nil"
  /\ sem = 0 /\ listenWG = 0
  /\ conns = {} /\ peer = [p \in Peers |-> "away"] /\ shut = {}
  /\ closer = [c \in Closers |-> "idle"] /\ early = FALSE

-----------------------------------------------------------------------------
(* Listen.                                                                 *)

\* state only ever leaves "init" once: a further Listen returns an error.
ListenCAS ==
  /\ listen = "idle"
  /\ state' = IF state = "init" THEN "serving" ELSE state
  /\ listen' = IF state = "init" THEN "adding" ELSE "refused"
  /\ UNCHANGED <<raw, socket, sem, listenWG, clients, closer, early>>

ListenAdd ==
  /\ listen = "adding"
  /\ listenWG' = listenWG + 1
  /\ listen' = "binding"
  /\ UNCHANGED <<state, raw, socket, sem, clients, closer, early>>

ListenBind ==
  /\ listen = "binding"
  /\ bound' = TRUE
  /\ listen' = "bound"
  /\ UNCHANGED <<state, raw, listener, ctx, sem, listenWG, clients, closer, early>>

\* net.Listen failed: the error returns before listenWG.Done is deferred.
ListenBindFails ==
  /\ listen = "binding"
  /\ state' = "closed"
  /\ listen' = "failed"
  /\ UNCHANGED <<raw, socket, sem, listenWG, clients, closer, early>>

\* Context, listener, registry, semaphore and the deferred calls.
ListenSetUp ==
  /\ listen = "bound"
  /\ ctx' = "live" /\ listener' = TRUE
  /\ listen' = "accepting"
  /\ UNCHANGED <<state, raw, bound, sem, listenWG, clients, closer, early>>

Accept(p) ==
  /\ listen = "accepting"
  /\ bound
  /\ peer[p] = "waiting"
  /\ peer' = [peer EXCEPT ![p] = "accepted"]
  /\ raw' = p
  /\ listen' = "admitting"
  /\ UNCHANGED <<state, socket, sem, listenWG, conns, shut, closer, early>>

\* A slot is free: wg.Add(1) and a goroutine.
Admit ==
  /\ listen = "admitting"
  /\ MaxConns = 0 \/ sem < MaxConns
  /\ sem' = IF MaxConns = 0 THEN sem ELSE sem + 1
  /\ peer' = [peer EXCEPT ![raw] = "spawned"]
  /\ raw' = None /\ listen' = "accepting"
  /\ UNCHANGED <<state, socket, listenWG, conns, shut, closer, early>>

RejectConn ==
  /\ listen = "admitting"
  /\ MaxConns > 0 /\ sem >= MaxConns
  /\ peer' = [peer EXCEPT ![raw] = "rejected"]
  /\ raw' = None /\ listen' = "accepting"
  /\ UNCHANGED <<state, socket, sem, listenWG, conns, shut, closer, early>>

\* Accept reports that the listener is closed.
AcceptClosed ==
  /\ listen = "accepting"
  /\ ~bound
  /\ listen' = "leaving"
  /\ UNCHANGED <<state, raw, socket, sem, listenWG, clients, closer, early>>

\* Any other error of Accept ends the loop if the context has been cancelled;
\* if not, the loop sleeps and goes on, and nothing changes.
AcceptErrs ==
  /\ listen = "accepting"
  /\ ctx = "cancelled"
  /\ listen' = "leaving"
  /\ UNCHANGED <<state, raw, socket, sem, listenWG, clients, closer, early>>

\* The deferred function: close the listener, cancel, then wait for s.wg.
ListenLeave ==
  /\ listen = "leaving"
  /\ bound' = IF listener THEN FALSE ELSE bound
  /\ listener' = FALSE
  /\ ctx' = "cancelled"
  /\ listen' = "waiting"
  /\ UNCHANGED <<state, raw, sem, listenWG, clients, closer, early>>

\* Mutant of ListenWait: does not wait for the handlers.
ListenNoWait ==
  /\ listen = "waiting"
  /\ state' = "closed"
  /\ listen' = "ending"
  /\ UNCHANGED <<raw, socket, sem, listenWG, clients, closer, early>>

ListenWait ==
  /\ listen = "waiting"
  /\ Handlers = {}
  /\ state' = "closed"
  /\ listen' = "ending"
  /\ UNCHANGED <<raw, socket, sem, listenWG, clients, closer, early>>

\* Mutant of ListenReturns: listenWG.Done is missing on this path, as it is
\* on the one of ListenBindFails.
ListenReturnsNotDone ==
  /\ listen = "ending"
  /\ listen' = "returned"
  /\ UNCHANGED <<state, raw, socket, sem, listenWG, clients, closer, early>>

ListenReturns ==
  /\ listen = "ending"
  /\ listenWG' = listenWG - 1
  /\ listen' = "returned"
  /\ UNCHANGED <<state, raw, socket, sem, clients, closer, early>>

-----------------------------------------------------------------------------
(* Clients, the parent context and the function that watches it.           *)

Connects(p) ==
  /\ peer[p] = "away"
  /\ bound
  /\ peer' = [peer EXCEPT ![p] = "waiting"]
  /\ UNCHANGED <<state, listen, raw, socket, sem, listenWG, conns, shut, closer, early>>

ParentCancelled ==
  /\ ctx = "live"
  /\ ctx' = "cancelled"
  /\ UNCHANGED <<state, listen, raw, bound, listener, sem, listenWG, clients, closer, early>>

\* context.AfterFunc(s.serverCtx, s.closeListener)
WatchContext ==
  /\ ctx = "cancelled"
  /\ listener
  /\ bound' = FALSE /\ listener' = FALSE
  /\ UNCHANGED <<state, listen, raw, ctx, sem, listenWG, clients, closer, early>>

-----------------------------------------------------------------------------
(* handleConn.                                                             *)

Register(p) ==
  /\ peer[p] = "spawned"
  /\ conns' = conns \cup {p}
  /\ peer' = [peer EXCEPT ![p] = "handling"]
  /\ UNCHANGED <<state, listen, raw, socket, sem, listenWG, shut, closer, early>>

\* The deferred function takes the connection from the registry and closes it.
HandlerReturns(p) ==
  /\ peer[p] = "handling"
  /\ conns' = conns \ {p}
  /\ shut' = shut \cup {p}
  /\ peer' = [peer EXCEPT ![p] = "ended"]
  /\ UNCHANGED <<state, listen, raw, socket, sem, listenWG, closer, early>>

\* wg.Done
HandlerDone(p) ==
  /\ peer[p] = "ended"
  /\ peer' = [peer EXCEPT ![p] = "done"]
  /\ UNCHANGED <<state, listen, raw, socket, sem, listenWG, conns, shut, closer, early>>

\* A Read or Write of the handler fails from here on.
Woken(p) == p \in shut \/ ctx = "cancelled"

-----------------------------------------------------------------------------
(* Close.                                                                  *)

SettingUp == listen \in {"adding", "binding", "bound"}

CloseCAS(c) ==
  /\ closer[c] = "idle"
  /\ state' = "closed"
  /\ closer' = [closer EXCEPT ![c] = IF state = "serving" THEN "stopping" ELSE "nothing"]
  /\ early' = (early \/ (state = "serving" /\ SettingUp))
  /\ UNCHANGED <<listen, raw, socket, sem, listenWG, clients>>

CloseListener(c) ==
  /\ closer[c] = "stopping"
  /\ bound' = IF listener THEN FALSE ELSE bound
  /\ listener' = FALSE
  /\ closer' = [closer EXCEPT ![c] = "cancelling"]
  /\ UNCHANGED <<state, listen, raw, ctx, sem, listenWG, clients, early>>

CloseCancel(c) ==
  /\ closer[c] = "cancelling"
  /\ ctx' = IF ctx = "nil" THEN "nil" ELSE "cancelled"
  /\ closer' = [closer EXCEPT ![c] = "sweeping"]
  /\ UNCHANGED <<state, listen, raw, bound, listener, sem, listenWG, clients, early>>

CloseAllConns(c) ==
  /\ closer[c] = "sweeping"
  /\ shut' = shut \cup conns
  /\ closer' = [closer EXCEPT ![c] = "waiting"]
  /\ UNCHANGED <<state, listen, raw, socket, sem, listenWG, conns, peer, early>>

CloseReturns(c) ==
  /\ closer[c] = "waiting"
  /\ listenWG = 0
  /\ closer' = [closer EXCEPT ![c] = "returned"]
  /\ UNCHANGED <<state, listen, raw, socket, sem, listenWG, clients, early>>

-----------------------------------------------------------------------------
Listen == \/ ListenCAS \/ ListenAdd \/ ListenBind \/ ListenBindFails
          \/ ListenSetUp \/ (\E p \in Peers : Accept(p)) \/ Admit \/ RejectConn
          \/ AcceptClosed \/ ListenLeave \/ ListenWait \/ ListenReturns

HandleConn(p) == Register(p) \/ HandlerReturns(p) \/ HandlerDone(p)

Close(c) == \/ CloseCAS(c) \/ CloseListener(c) \/ CloseCancel(c)
            \/ CloseAllConns(c) \/ CloseReturns(c)

Next == \/ Listen \/ AcceptErrs
        \/ \E p \in Peers : Connects(p) \/ HandleConn(p)
        \/ ParentCancelled \/ WatchContext
        \/ \E c \in Closers : Close(c)

Spec == Init /\ [][Next]_vars

-----------------------------------------------------------------------------
(* Properties.                                                             *)

\* Types.
TypeOK ==
  /\ state \in {"init", "serving", "closed"}
  /\ listen \in {"idle", "refused", "adding", "binding", "bound", "failed",
                 "accepting", "admitting", "leaving", "waiting", "ending", "returned"}
  /\ raw \in Peers \cup {None}
  /\ bound \in BOOLEAN /\ listener \in BOOLEAN /\ ctx \in {"nil", "live", "cancelled"}
  /\ sem \in 0 .. MaxConns /\ listenWG \in {0, 1}
  /\ conns \subseteq Peers /\ shut \subseteq Peers
  /\ peer \in [Peers -> {"away", "waiting", "accepted", "rejected", "spawned",
                         "handling", "ended", "done"}]
  /\ closer \in [Closers -> {"idle", "nothing", "stopping", "cancelling", "sweeping",
                             "waiting", "returned"}]
  /\ early \in BOOLEAN

\* Never more handlers at work than MaxConns, whatever the interleaving of
\* the accept loop with handlers that come and go.
WithinLimit == MaxConns > 0 => Cardinality(Handlers) <= MaxConns

\* What a Listen that has returned leaves behind: nothing.  No handler runs,
\* the registry is empty, the socket is closed, the state says so.
ListenLeavesNothing ==
  listen \in {"ending", "returned"} =>
    /\ Handlers = {} /\ conns = {}
    /\ ~bound /\ ~listener /\ state = "closed"

\* A Close that took effect after Listen had set up returns only when every
\* handler has ended and the socket is closed, including handlers spawned
\* after Close had swept the registry.
CloseIsComplete ==
  (~early /\ \E c \in Closers : closer[c] = "returned") =>
    /\ listen = "returned"
    /\ Handlers = {} /\ conns = {} /\ ~bound

\* Such a Close returns: connections the sweep of the registry misses, because
\* their goroutine had not registered them yet, are woken by the context.
CloseTerminates ==
  \A c \in Closers : closer[c] = "stopping" ~> (closer[c] = "returned" \/ early)

\* "Close closes the server and blocks until every handler goroutine has
\* returned": it returns, whenever it is called.  One that comes while Listen
\* binds finds neither listener nor cancel function and waits for a Listen that
\* goes on serving, or that has failed without listenWG.Done.
EveryCloseReturns == \A c \in Closers : closer[c] = "stopping" ~> closer[c] = "returned"

\* "MaxConns: the largest number of concurrent connections": a connection is
\* rejected only while that many handlers are at work.  No slot is ever given
\* back, so that later connections are rejected at an idle server.
RejectsAtLimit ==
  [][\A p \in Peers : peer[p] # "rejected" /\ peer'[p] = "rejected" =>
                       Cardinality(Handlers) >= MaxConns]_vars

\* Cancelling the parent context stops the server by itself.
ContextStopsServer == ctx = "cancelled" ~> listen = "returned"

\* The server is shut down completely and after finite time, by Close or by the
\* context, and never works above its limit: the parts above, on variables of
\* their types.
NothingLeft == TypeOK /\ WithinLimit /\ ListenLeavesNothing /\ CloseIsComplete
ServerStops == CloseTerminates /\ ContextStopsServer
=============================================================================
