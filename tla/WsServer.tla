------------------------------ MODULE WsServer ------------------------------
(***************************************************************************)
(* The WebSocket server (ws/server/server.go, ws/server/conn.go): HTTP     *)
(* requests being upgraded, the three loops of every connection, handlers  *)
(* and other goroutines of the user that hold a connection, and Shutdown.  *)
(* They meet in the registry of connections and in the topics.             *)
(*                                                                         *)
(* What travels over a connection is left out: requests, answers, the send *)
(* queue and the codecs.  A handler may call any method of its connection, *)
(* also after the connection has been closed.                              *)
(***************************************************************************)
EXTENDS Integers, Sequences, FiniteSets

CONSTANTS Conns,      \* HTTP requests, each of which may become a connection
          Users,      \* goroutines of the user that hold the connections
          Topics,
          MaxConns,   \* WithServerMaxConns, 0 for no limit
          PingLimit   \* failed pings in a row that close a connection (3)

ASSUME SizesAssumption == MaxConns \in Nat /\ PingLimit \in Nat \ {0}
ASSUME ConnsAssumption == IsFiniteSet(Conns)

VARIABLES closed,     \* the server's flag
          total,      \* ConnManager.total
          m,          \* ConnManager.m
          topics,     \* topicManager.topics
          serve,      \* ServeHTTP, for each request
          once,       \* how far closeOnce has got, for each connection
          link,       \* the network's view
          subs,       \* Conn.subs
          call,       \* what each user has still to tell topicManager
          heartbeat,  \* the option is above 0, fixed when the server is made
          reader, writer, health,
          fails,      \* failed pings in a row
          shutdown,   \* the Shutdown call
          sweep       \* the connections it has still to close

registry == <<total, m>>
loops    == <<reader, writer, health, fails>>
pubsub   == <<topics, subs, call>>
stop     == <<closed, shutdown, sweep>>
vars     == <<heartbeat, registry, pubsub, serve, once, link, loops, stop>>

\* A user who is not inside Subscribe or Unsubscribe.
Free == <<>>

NewServer ==
  /\ heartbeat \in BOOLEAN
  /\ closed = FALSE /\ total = 0 /\ m = {}
  /\ topics = [t \in Topics |-> {}]
  /\ serve = [c \in Conns |-> "away"]
  /\ once = [c \in Conns |-> "open"]
  /\ link = [c \in Conns |-> "none"]
  /\ subs = [c \in Conns |-> {}] /\ call = [u \in Users |-> Free]
  /\ reader = [c \in Conns |-> "off"] /\ writer = [c \in Conns |-> "off"]
  /\ health = [c \in Conns |-> "off"] /\ fails = [c \in Conns |-> 0]
  /\ shutdown = "idle" /\ sweep = {}

-----------------------------------------------------------------------------
(* ServeHTTP and Conn.init.                                                *)

ServeOpen(c) ==
  /\ serve[c] = "away"
  /\ serve' = [serve EXCEPT ![c] = IF closed THEN "refused" ELSE "admitted"]
  /\ UNCHANGED <<heartbeat, registry, pubsub, once, link, loops, stop>>

\* maxConns, then the origin check and the handshake, which may fail too.
ServeAccept(c) ==
  /\ serve[c] = "admitted"
  /\ \/ /\ MaxConns = 0 \/ total < MaxConns
        /\ serve' = [serve EXCEPT ![c] = "accepted"]
        /\ link' = [link EXCEPT ![c] = "open"]
     \/ /\ serve' = [serve EXCEPT ![c] = "refused"]
        /\ UNCHANGED link
  /\ UNCHANGED <<heartbeat, registry, pubsub, once, loops, stop>>

\* ConnManager.add: the map under its lock,
ServeAdd(c) ==
  /\ serve[c] = "accepted"
  /\ m' = m \cup {c}
  /\ serve' = [serve EXCEPT ![c] = "added"]
  /\ UNCHANGED <<heartbeat, total, pubsub, once, link, loops, stop>>

\* then the atomic counter.
ServeCount(c) ==
  /\ serve[c] = "added"
  /\ total' = total + 1
  /\ serve' = [serve EXCEPT ![c] = "counted"]
  /\ UNCHANGED <<heartbeat, m, pubsub, once, link, loops, stop>>

\* onConnect, then the goroutines; without a heartbeat no health loop.
ServeStart(c) ==
  /\ serve[c] = "counted"
  /\ reader' = [reader EXCEPT ![c] = "reading"]
  /\ writer' = [writer EXCEPT ![c] = "on"]
  /\ health' = [health EXCEPT ![c] = IF heartbeat THEN "on" ELSE "off"]
  /\ serve' = [serve EXCEPT ![c] = "serving"]
  /\ UNCHANGED <<heartbeat, registry, pubsub, once, link, fails, stop>>

ServeHTTP(c) == ServeOpen(c) \/ ServeAccept(c) \/ ServeAdd(c) \/ ServeCount(c) \/ ServeStart(c)

-----------------------------------------------------------------------------
(* Conn.Close: closeOnce makes the first caller run it and the others wait.*)

\* Mutant of CloseBegins: every caller runs the function.
CloseBeginsAgain(c) ==
  /\ once' = [once EXCEPT ![c] = "framed"]
  /\ link' = [link EXCEPT ![c] = "down"]

\* The function starts running: the Close frame is sent, the link goes down.
CloseBegins(c) ==
  /\ once' = [once EXCEPT ![c] = IF @ = "open" THEN "framed" ELSE @]
  /\ link' = [link EXCEPT ![c] = "down"]

\* The connection's context is cancelled.
Cancelled(c) == once[c] \in {"removed", "uncounted", "closed"}

\* cancel, then ConnManager.remove: the map under its lock,
CloseRemoves(c) ==
  /\ once[c] = "framed"
  /\ m' = m \ {c}
  /\ once' = [once EXCEPT ![c] = "removed"]
  /\ UNCHANGED <<heartbeat, total, pubsub, serve, link, loops, stop>>

\* then the atomic counter.
CloseUncounts(c) ==
  /\ once[c] = "removed"
  /\ total' = total - 1
  /\ once' = [once EXCEPT ![c] = "uncounted"]
  /\ UNCHANGED <<heartbeat, m, pubsub, serve, link, loops, stop>>

\* topicManager.unsubscribeAll, then onDisconnect.  Conn.subs stays as it is.
CloseUnsubscribes(c) ==
  /\ once[c] = "uncounted"
  /\ topics' = [t \in Topics |-> topics[t] \ {c}]
  /\ once' = [once EXCEPT ![c] = "closed"]
  /\ UNCHANGED <<heartbeat, subs, call, registry, serve, link, loops, stop>>

Close(c) == CloseRemoves(c) \/ CloseUncounts(c) \/ CloseUnsubscribes(c)

-----------------------------------------------------------------------------
(* The user's goroutines that hold connections: onConnect, handlers.       *)
(* Subscribe and Unsubscribe change the connection's list and then, still   *)
(* under its lock subsMu, the topics under theirs.                         *)

Held(c) == serve[c] \in {"counted", "serving"}

\* subsMu is taken.
Locked(c) == \E u \in Users : call[u] # Free /\ call[u][2] = c

\* Mutant of SubscribeLists: the list has no lock, or gives it back too early.
SubscribeListsUnlocked(u, c, t) ==
  /\ Held(c) /\ call[u] = Free
  /\ t \notin subs[c]
  /\ subs' = [subs EXCEPT ![c] = @ \cup {t}]
  /\ call' = [call EXCEPT ![u] = <<"in", c, t>>]
  /\ UNCHANGED <<heartbeat, topics, registry, serve, once, link, loops, stop>>

SubscribeLists(u, c, t) ==
  /\ Held(c) /\ call[u] = Free /\ ~Locked(c)
  /\ t \notin subs[c]
  /\ subs' = [subs EXCEPT ![c] = @ \cup {t}]
  /\ call' = [call EXCEPT ![u] = <<"in", c, t>>]
  /\ UNCHANGED <<heartbeat, topics, registry, serve, once, link, loops, stop>>

\* topicManager.subscribe, which does not ask whether the connection is closed.
SubscribeTells(u) ==
  /\ call[u] # Free /\ call[u][1] = "in"
  /\ topics' = [topics EXCEPT ![call[u][3]] = @ \cup {call[u][2]}]
  /\ call' = [call EXCEPT ![u] = Free]
  /\ UNCHANGED <<heartbeat, subs, registry, serve, once, link, loops, stop>>

UnsubscribeLists(u, c, t) ==
  /\ Held(c) /\ call[u] = Free /\ ~Locked(c)
  /\ t \in subs[c]
  /\ subs' = [subs EXCEPT ![c] = @ \ {t}]
  /\ call' = [call EXCEPT ![u] = <<"out", c, t>>]
  /\ UNCHANGED <<heartbeat, topics, registry, serve, once, link, loops, stop>>

UnsubscribeTells(u) ==
  /\ call[u] # Free /\ call[u][1] = "out"
  /\ topics' = [topics EXCEPT ![call[u][3]] = @ \ {call[u][2]}]
  /\ call' = [call EXCEPT ![u] = Free]
  /\ UNCHANGED <<heartbeat, subs, registry, serve, once, link, loops, stop>>

UserCloses(c) ==
  /\ Held(c)
  /\ once[c] = "open"
  /\ CloseBegins(c)
  /\ UNCHANGED <<heartbeat, registry, pubsub, serve, loops, stop>>

User(u) == \/ \E c \in Conns, t \in Topics : SubscribeLists(u, c, t) \/ UnsubscribeLists(u, c, t)
           \/ SubscribeTells(u) \/ UnsubscribeTells(u)

-----------------------------------------------------------------------------
(* readLoop.                                                               *)

\* Sending the Close frame has taken the link down before the context goes.
Up(c) == link[c] = "open"

\* Read fails and the deferred Close runs, or waits for the one that does.
ReadFails(c) ==
  /\ reader[c] = "reading"
  /\ ~Up(c)
  /\ CloseBegins(c)
  /\ reader' = [reader EXCEPT ![c] = "closing"]
  /\ UNCHANGED <<heartbeat, registry, pubsub, serve, writer, health, fails, stop>>

ReadEnds(c) ==
  /\ reader[c] = "closing"
  /\ once[c] = "closed"
  /\ reader' = [reader EXCEPT ![c] = "ended"]
  /\ UNCHANGED <<heartbeat, registry, pubsub, serve, once, link, writer, health, fails, stop>>

ReadLoop(c) == ReadFails(c) \/ ReadEnds(c)

-----------------------------------------------------------------------------
(* writeLoop.                                                              *)

\* The context is cancelled, or a write has failed.
WriteEnds(c) ==
  /\ writer[c] = "on"
  /\ ~Up(c)
  /\ writer' = [writer EXCEPT ![c] = "ended"]
  /\ UNCHANGED <<heartbeat, registry, pubsub, serve, once, link, reader, health, fails, stop>>

-----------------------------------------------------------------------------
(* healthLoop.                                                             *)

PingSucceeds(c) ==
  /\ health[c] = "on"
  /\ Up(c)
  /\ fails' = [fails EXCEPT ![c] = 0]
  /\ UNCHANGED <<heartbeat, registry, pubsub, serve, once, link, reader, writer, health, stop>>

PingFails(c) ==
  /\ health[c] = "on"
  /\ fails[c] + 1 < PingLimit
  /\ fails' = [fails EXCEPT ![c] = @ + 1]
  /\ UNCHANGED <<heartbeat, registry, pubsub, serve, once, link, reader, writer, health, stop>>

\* Mutant of HealthGivesUp: the loop ends and leaves the connection alone.
HealthGivesUpQuietly(c) ==
  /\ health[c] = "on" /\ fails[c] + 1 >= PingLimit
  /\ health' = [health EXCEPT ![c] = "ended"]
  /\ fails' = [fails EXCEPT ![c] = 0]
  /\ UNCHANGED <<heartbeat, registry, pubsub, serve, once, link, reader, writer, stop>>

HealthGivesUp(c) ==
  /\ health[c] = "on"
  /\ fails[c] + 1 >= PingLimit
  /\ CloseBegins(c)
  /\ health' = [health EXCEPT ![c] = "closing"]
  /\ fails' = [fails EXCEPT ![c] = 0]
  /\ UNCHANGED <<heartbeat, registry, pubsub, serve, reader, writer, stop>>

HealthEnds(c) ==
  /\ \/ health[c] = "on" /\ Cancelled(c)
     \/ health[c] = "closing" /\ once[c] = "closed"
  /\ health' = [health EXCEPT ![c] = "ended"]
  /\ fails' = [fails EXCEPT ![c] = 0]
  /\ UNCHANGED <<heartbeat, registry, pubsub, serve, once, link, reader, writer, stop>>

HealthLoop(c) == PingSucceeds(c) \/ PingFails(c) \/ HealthGivesUp(c) \/ HealthEnds(c)

-----------------------------------------------------------------------------
(* Shutdown: the flag, a snapshot, and Close for each of it in turn.       *)

ShutdownFlags ==
  /\ shutdown = "idle"
  /\ closed' = TRUE
  /\ shutdown' = "flagged"
  /\ UNCHANGED <<heartbeat, registry, pubsub, serve, once, link, loops, sweep>>

ShutdownRange ==
  /\ shutdown = "flagged"
  /\ sweep' = m
  /\ shutdown' = "sweeping"
  /\ UNCHANGED <<heartbeat, registry, pubsub, serve, once, link, loops, closed>>

ShutdownCloses(c) ==
  /\ shutdown = "sweeping"
  /\ c \in sweep
  /\ once[c] = "open"
  /\ CloseBegins(c)
  /\ UNCHANGED <<heartbeat, registry, pubsub, serve, loops, stop>>

\* Mutant of ShutdownNext: gives up at a connection somebody else is closing.
ShutdownSkips(c) ==
  /\ shutdown = "sweeping" /\ c \in sweep /\ once[c] # "open"
  /\ sweep' = {}
  /\ UNCHANGED <<heartbeat, closed, shutdown, registry, pubsub, serve, once, link, loops>>

ShutdownNext(c) ==
  /\ shutdown = "sweeping"
  /\ c \in sweep
  /\ once[c] = "closed"
  /\ sweep' = sweep \ {c}
  /\ UNCHANGED <<heartbeat, closed, shutdown, registry, pubsub, serve, once, link, loops>>

ShutdownReturns ==
  /\ shutdown = "sweeping"
  /\ sweep = {}
  /\ shutdown' = "done"
  /\ UNCHANGED <<heartbeat, closed, sweep, registry, pubsub, serve, once, link, loops>>

Shutdown == \/ ShutdownFlags \/ ShutdownRange \/ ShutdownReturns
            \/ \E c \in Conns : ShutdownCloses(c) \/ ShutdownNext(c)

-----------------------------------------------------------------------------
\* The network drops a connection; Read need not notice.
LinkDrops(c) ==
  /\ link[c] = "open"
  /\ link' = [link EXCEPT ![c] = "down"]
  /\ UNCHANGED <<heartbeat, registry, pubsub, serve, once, loops, stop>>

Next == \/ \E c \in Conns : \/ ServeHTTP(c) \/ Close(c) \/ UserCloses(c) \/ LinkDrops(c)
                            \/ ReadLoop(c) \/ WriteEnds(c) \/ HealthLoop(c)
        \/ \E u \in Users : User(u)
        \/ Shutdown

Spec == NewServer /\ [][Next]_vars

\* Every goroutine runs; Read returns an error once the context is cancelled
\* but need not notice a dropped link, pings fail on one.  Requests need not
\* arrive, the user need not call anything.
Fairness ==
  /\ \A c \in Conns : /\ WF_vars(ServeHTTP(c) /\ serve[c] # "away")
                      /\ WF_vars(Close(c))
                      /\ WF_vars(ReadFails(c) /\ Cancelled(c)) /\ WF_vars(ReadEnds(c))
                      /\ WF_vars(WriteEnds(c) /\ Cancelled(c)) /\ WF_vars(HealthLoop(c))
  /\ WF_vars(Shutdown /\ shutdown # "idle")

FairSpec == Spec /\ Fairness

-----------------------------------------------------------------------------
(* Properties.                                                             *)

\* Types.
TypeOK ==
  /\ closed \in BOOLEAN /\ total \in Int /\ m \subseteq Conns
  /\ heartbeat \in BOOLEAN
  /\ topics \in [Topics -> SUBSET Conns] /\ subs \in [Conns -> SUBSET Topics]
  /\ call \in [Users -> {Free} \cup ({"in", "out"} \X Conns \X Topics)]
  /\ serve \in [Conns -> {"away", "refused", "admitted", "accepted", "added", "counted", "serving"}]
  /\ once \in [Conns -> {"open", "framed", "removed", "uncounted", "closed"}]
  /\ link \in [Conns -> {"none", "open", "down"}]
  /\ reader \in [Conns -> {"off", "reading", "closing", "ended"}]
  /\ writer \in [Conns -> {"off", "on", "ended"}]
  /\ health \in [Conns -> {"off", "on", "closing", "ended"}]
  /\ fails \in [Conns -> 0 .. PingLimit - 1]
  /\ shutdown \in {"idle", "flagged", "sweeping", "done"}
  /\ sweep \subseteq Conns

\* The atomic counter and the map, changed at different moments, drift apart by
\* exactly the connections between the two: those added and not counted, and
\* those removed and not uncounted.  A connection that Shutdown finds between
\* add's two statements is both.
CountAgrees ==
  TypeOK /\ total = Cardinality(m)
            - Cardinality({c \in Conns : serve[c] = "added" /\ once[c] \in {"open", "framed"}})
            + Cardinality({c \in Conns : once[c] = "removed" /\ serve[c] # "added"})
            - Cardinality({c \in Conns : once[c] \in {"uncounted", "closed"} /\ serve[c] = "added"})

\* What a user has listed or taken off the list and not told topicManager yet.
Telling(way, c, t) == \E u \in Users : call[u] = <<way, c, t>>

\* The two sides of a subscription, changed under two locks in two steps by
\* many users: a topic holds only connections that list it, so that a topic
\* can always be left again, also after unsubscribeAll and late subscriptions;
\* and a connection that is not closed is in every topic it lists.  What one
\* user is about to tell topicManager is the only exception.
SubscriptionsAgree ==
  \A c \in Conns, t \in Topics :
    /\ c \in topics[t] => (t \in subs[c] /\ ~Telling("in", c, t)) \/ Telling("out", c, t)
    /\ once[c] # "closed" /\ t \in subs[c] => c \in topics[t] \/ Telling("in", c, t)

\* Closing a connection clears all its subscriptions, as the README has it.
\* Refuted: a handler subscribes the connection after unsubscribeAll, or has
\* listed the topic before it and tells topicManager after it.
ClosedIsCleared ==
  \A c \in Conns : once[c] = "closed" /\ ~Locked(c) => \A t \in Topics : c \notin topics[t]

\* A connection gone silent ends up closed, out of the registry and with all
\* of its goroutines ended, whoever closes it and even if Read never notices,
\* as long as there is a heartbeat.
LossIsCleared ==
  \A c \in Conns : (heartbeat /\ serve[c] = "serving" /\ link[c] = "down") ~>
    /\ once[c] = "closed" /\ c \notin m
    /\ reader[c] = "ended" /\ writer[c] = "ended" /\ health[c] = "ended"

\* Shutdown ends, and has then closed every connection that was registered
\* when it set the flag, also those that others were closing meanwhile.
ShutdownSweeps ==
  \A c \in Conns :
    (shutdown = "flagged" /\ c \in m) ~> (shutdown = "done" /\ once[c] = "closed")

\* Once Shutdown has returned no connection is being served, as its comment
\* says: the flag keeps new ones out and the sweep closes the others.  Refuted:
\* a request that has passed the check of the flag registers after the sweep
\* has listed the connections.
ShutdownLeavesNone ==
  shutdown = "done" => \A c \in Conns : serve[c] = "serving" => once[c] # "open"

\* There are never more connections than the option allows.  Refuted: they are
\* counted long before they are registered.
LimitHolds == MaxConns > 0 => Cardinality(m) <= MaxConns
=============================================================================
