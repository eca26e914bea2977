--------------------------- MODULE WsServerProofs ---------------------------
(***************************************************************************)
(* Proofs about WsServer for any finite set of requests, any topics and    *)
(* any limits, and about WsMessages for any connections, requests and size *)
(* of the send queue.                                                      *)
(***************************************************************************)
EXTENDS WsServer, WsMessages, FiniteSetTheorems, TLAPS

-----------------------------------------------------------------------------
(* Types.                                                                  *)

LEMMA NewServerType == NewServer => TypeOK
<1>. SUFFICES ASSUME NewServer PROVE TypeOK
  OBVIOUS
<1>1. 0 \in 0 .. PingLimit - 1
  BY SizesAssumption
<1>2. closed \in BOOLEAN /\ heartbeat \in BOOLEAN
  BY DEF NewServer
<1>. QED
  BY <1>1, <1>2 DEF NewServer, TypeOK

\* Conn.Close, whoever calls it, keeps the types of what it changes.
LEMMA CloseBeginsType ==
  ASSUME TypeOK, NEW c \in Conns, CloseBegins(c)
  PROVE  /\ once' \in [Conns -> {"open", "framed", "removed", "uncounted", "closed"}]
         /\ link' \in [Conns -> {"none", "open", "down"}]
BY DEF TypeOK, CloseBegins

LEMMA ServeHTTPType ==
  ASSUME TypeOK, NEW c \in Conns, ServeHTTP(c)
  PROVE  TypeOK'
<1>. USE DEF TypeOK, registry, pubsub, loops, stop
<1>1. CASE ServeOpen(c)
  <2>1. PICK v \in {"refused", "admitted"} : serve' = [serve EXCEPT ![c] = v]
    BY <1>1, Zenon DEF ServeOpen
  <2>. QED
    BY <1>1, <2>1 DEF ServeOpen
<1>2. CASE ServeAccept(c)
  BY <1>2 DEF ServeAccept
<1>3. CASE ServeAdd(c)
  BY <1>3 DEF ServeAdd
<1>4. CASE ServeCount(c)
  BY <1>4 DEF ServeCount
<1>5. CASE ServeStart(c)
  <2>1. PICK v \in {"off", "on"} : health' = [health EXCEPT ![c] = v]
    BY <1>5, Zenon DEF ServeStart
  <2>. QED
    BY <1>5, <2>1 DEF ServeStart
<1>. QED
  BY <1>1, <1>2, <1>3, <1>4, <1>5 DEF ServeHTTP

LEMMA CloseType ==
  ASSUME TypeOK, NEW c \in Conns, Close(c)
  PROVE  TypeOK'
<1>. USE DEF TypeOK, registry, pubsub, loops, stop
<1>1. CASE CloseRemoves(c)
  BY <1>1 DEF CloseRemoves
<1>2. CASE CloseUncounts(c)
  BY <1>2 DEF CloseUncounts
<1>3. CASE CloseUnsubscribes(c)
  BY <1>3 DEF CloseUnsubscribes
<1>. QED
  BY <1>1, <1>2, <1>3 DEF Close

\* Who is inside Subscribe or Unsubscribe is at some topic of some connection.
LEMMA CallType ==
  ASSUME TypeOK, NEW u \in Users
  PROVE  /\ call[u] # Free => /\ call[u][1] \in {"in", "out"}
                              /\ call[u][2] \in Conns /\ call[u][3] \in Topics
                              /\ call[u] = <<call[u][1], call[u][2], call[u][3]>>
         /\ \A w \in {"in", "out"}, c \in Conns, t \in Topics :
              call[u] = <<w, c, t>> => call[u] # Free
<1>1. call[u] \in {Free} \cup ({"in", "out"} \X Conns \X Topics)
  BY DEF TypeOK
<1>2. ASSUME call[u] # Free
      PROVE  /\ call[u][1] \in {"in", "out"} /\ call[u][2] \in Conns /\ call[u][3] \in Topics
             /\ call[u] = <<call[u][1], call[u][2], call[u][3]>>
  <2>1. call[u] \in {"in", "out"} \X Conns \X Topics
    BY <1>1, <1>2
  <2>. QED
    BY <2>1
<1>3. ASSUME NEW w \in {"in", "out"}, NEW c \in Conns, NEW t \in Topics, call[u] = <<w, c, t>>
      PROVE  call[u] # Free
  BY <1>3 DEF Free
<1>. QED
  BY <1>2, <1>3

LEMMA UserType ==
  ASSUME TypeOK, NEW u \in Users, User(u)
  PROVE  TypeOK'
<1>. USE DEF TypeOK, registry, pubsub, loops, stop
<1>1. ASSUME NEW c \in Conns, NEW t \in Topics, SubscribeLists(u, c, t) PROVE TypeOK'
  BY <1>1 DEF SubscribeLists
<1>2. ASSUME NEW c \in Conns, NEW t \in Topics, UnsubscribeLists(u, c, t) PROVE TypeOK'
  BY <1>2 DEF UnsubscribeLists
<1>3. CASE SubscribeTells(u)
  <2>1. call[u][2] \in Conns /\ call[u][3] \in Topics
    BY <1>3, CallType DEF SubscribeTells
  <2>. QED
    BY <1>3, <2>1 DEF SubscribeTells
<1>4. CASE UnsubscribeTells(u)
  <2>1. call[u][2] \in Conns /\ call[u][3] \in Topics
    BY <1>4, CallType DEF UnsubscribeTells
  <2>. QED
    BY <1>4, <2>1 DEF UnsubscribeTells
<1>. QED
  BY <1>1, <1>2, <1>3, <1>4 DEF User

LEMMA LoopsType ==
  ASSUME TypeOK, NEW c \in Conns,
         UserCloses(c) \/ ReadLoop(c) \/ WriteEnds(c) \/ HealthLoop(c) \/ LinkDrops(c)
  PROVE  TypeOK'
<1>. USE DEF TypeOK, registry, pubsub, loops, stop
<1>0. PingLimit \in Nat \ {0} /\ fails[c] \in 0 .. PingLimit - 1
  BY SizesAssumption
<1>1. CASE ReadFails(c)
  BY <1>1, CloseBeginsType DEF ReadFails
<1>2. CASE ReadEnds(c)
  BY <1>2 DEF ReadEnds
<1>3. CASE WriteEnds(c)
  BY <1>3 DEF WriteEnds
<1>4. CASE PingSucceeds(c)
  BY <1>0, <1>4 DEF PingSucceeds
<1>5. CASE PingFails(c)
  <2>1. fails[c] + 1 \in 0 .. PingLimit - 1
    BY <1>0, <1>5 DEF PingFails
  <2>. QED
    BY <1>5, <2>1 DEF PingFails
<1>6. CASE HealthGivesUp(c)
  BY <1>0, <1>6, CloseBeginsType DEF HealthGivesUp
<1>7. CASE HealthEnds(c)
  BY <1>0, <1>7 DEF HealthEnds
<1>8. CASE LinkDrops(c)
  BY <1>8 DEF LinkDrops
<1>9. CASE UserCloses(c)
  BY <1>9, CloseBeginsType DEF UserCloses
<1>. QED
  BY <1>1, <1>2, <1>3, <1>4, <1>5, <1>6, <1>7, <1>8, <1>9 DEF ReadLoop, HealthLoop

LEMMA ShutdownType ==
  ASSUME TypeOK, Shutdown
  PROVE  TypeOK'
<1>. USE DEF TypeOK, registry, pubsub, loops, stop
<1>1. CASE ShutdownFlags
  BY <1>1 DEF ShutdownFlags
<1>2. CASE ShutdownRange
  BY <1>2 DEF ShutdownRange
<1>3. CASE ShutdownReturns
  BY <1>3 DEF ShutdownReturns
<1>4. ASSUME NEW c \in Conns, ShutdownCloses(c) PROVE TypeOK'
  BY <1>4, CloseBeginsType DEF ShutdownCloses
<1>5. ASSUME NEW c \in Conns, ShutdownNext(c) PROVE TypeOK'
  BY <1>5 DEF ShutdownNext
<1>. QED
  BY <1>1, <1>2, <1>3, <1>4, <1>5 DEF Shutdown

LEMMA NextType == TypeOK /\ [Next]_vars => TypeOK'
<1>. SUFFICES ASSUME TypeOK, [Next]_vars PROVE TypeOK'
  OBVIOUS
<1>1. CASE UNCHANGED vars
  BY <1>1 DEF TypeOK, vars, registry, pubsub, loops, stop
<1>. QED
  BY <1>1, ServeHTTPType, CloseType, UserType, LoopsType, ShutdownType DEF Next

-----------------------------------------------------------------------------
(* The registry and its counter.                                           *)

\* ConnManager.add has begun for c.
Known(c) == serve[c] \in {"added", "counted", "serving"}

\* Those counted by add, and those uncounted by remove.
Counted   == {c \in Conns : serve[c] \in {"counted", "serving"}}
Uncounted == {c \in Conns : once[c] \in {"uncounted", "closed"}}

\* Only a connection that is known has loops, is swept and is closed: Close
\* never runs before the registry has the connection.
KnownInv ==
  \A c \in Conns :
    once[c] # "open" \/ reader[c] # "off" \/ health[c] # "off" \/ c \in sweep => Known(c)

RegistryInv ==
  /\ m = {c \in Conns : Known(c) /\ once[c] \in {"open", "framed"}}
  /\ total = Cardinality(Counted) - Cardinality(Uncounted)

CountInv == TypeOK /\ KnownInv /\ RegistryInv

LEMMA ConnSets ==
  ASSUME NEW S \in SUBSET Conns
  PROVE  IsFiniteSet(S) /\ Cardinality(S) \in Nat
BY ConnsAssumption, FS_Subset, FS_CardinalityType

\* A step that neither serves nor closes changes nothing here.
LEMMA IdleCount ==
  ASSUME CountInv, UNCHANGED <<total, m, serve, once>>
  PROVE  RegistryInv'
BY DEF CountInv, RegistryInv, Known, Counted, Uncounted

\* The beginning of Conn.Close leaves the map and the counter as they are.
LEMMA CloseBeginsCount ==
  ASSUME CountInv, NEW c \in Conns, CloseBegins(c), UNCHANGED <<total, m, serve>>
  PROVE  RegistryInv'
<1>1. /\ once \in [Conns -> {"open", "framed", "removed", "uncounted", "closed"}]
      /\ once' = [once EXCEPT ![c] = IF once[c] = "open" THEN "framed" ELSE once[c]]
  BY DEF CountInv, TypeOK, CloseBegins
<1>2. \A d \in Conns : once'[d] \in {"open", "framed"} <=> once[d] \in {"open", "framed"}
  BY <1>1
<1>3. Uncounted' = Uncounted
  BY <1>1 DEF Uncounted
<1>. QED
  BY <1>2, <1>3 DEF CountInv, RegistryInv, Known, Counted

LEMMA ServeHTTPCount ==
  ASSUME CountInv, NEW c \in Conns, ServeHTTP(c)
  PROVE  KnownInv' /\ RegistryInv'
<1>. USE DEF registry, pubsub, loops, stop
<1>0. serve \in [Conns -> {"away", "refused", "admitted", "accepted", "added", "counted", "serving"}]
      /\ m \subseteq Conns /\ total \in Int
  BY DEF CountInv, TypeOK
<1>1. CASE ServeOpen(c) \/ ServeAccept(c)
  <2>1. PICK v \in {"refused", "admitted", "accepted"} : serve' = [serve EXCEPT ![c] = v]
    BY <1>1, Zenon DEF ServeOpen, ServeAccept
  <2>2. serve[c] \notin {"added", "counted", "serving"}
        /\ UNCHANGED <<total, m, once, reader, health, sweep>>
    BY <1>1 DEF ServeOpen, ServeAccept
  <2>3. Counted' = Counted /\ Uncounted' = Uncounted
    BY <1>0, <2>1, <2>2 DEF Counted, Uncounted
  <2>4. \A d \in Conns : Known(d)' <=> Known(d)
    BY <1>0, <2>1, <2>2 DEF Known
  <2>. QED
    BY <2>2, <2>3, <2>4 DEF CountInv, KnownInv, RegistryInv
<1>2. CASE ServeAdd(c)
  <2>1. Counted' = Counted /\ Uncounted' = Uncounted /\ once[c] = "open"
    BY <1>0, <1>2 DEF ServeAdd, Counted, Uncounted, CountInv, KnownInv, Known
  <2>2. \A d \in Conns : Known(d)' <=> Known(d) \/ d = c
    BY <1>0, <1>2 DEF ServeAdd, Known
  <2>. QED
    BY <1>2, <2>1, <2>2 DEF ServeAdd, CountInv, KnownInv, RegistryInv
<1>3. CASE ServeCount(c)
  <2>1. Counted' = Counted \cup {c} /\ Uncounted' = Uncounted /\ c \notin Counted
    BY <1>0, <1>3 DEF ServeCount, Counted, Uncounted
  <2>2. \A d \in Conns : Known(d)' <=> Known(d)
    BY <1>0, <1>3 DEF ServeCount, Known
  <2>3. Counted \in SUBSET Conns /\ Uncounted \in SUBSET Conns
    BY DEF Counted, Uncounted
  <2>4. Cardinality(Counted \cup {c}) = Cardinality(Counted) + 1
    BY <2>1, <2>3, ConnSets, FS_AddElement
  <2>5. Cardinality(Counted) \in Nat /\ Cardinality(Uncounted) \in Nat
    BY <2>3, ConnSets
  <2>6. total' = Cardinality(Counted') - Cardinality(Uncounted')
    BY <1>3, <2>1, <2>4, <2>5 DEF ServeCount, CountInv, RegistryInv
  <2>. QED
    BY <1>3, <2>2, <2>6 DEF ServeCount, CountInv, KnownInv, RegistryInv
<1>4. CASE ServeStart(c)
  <2>1. Counted' = Counted /\ Uncounted' = Uncounted
    BY <1>0, <1>4 DEF ServeStart, Counted, Uncounted
  <2>2. \A d \in Conns : (Known(d)' <=> Known(d)) /\ Known(c)
    BY <1>0, <1>4 DEF ServeStart, Known
  <2>3. KnownInv'
    BY <1>4, <2>2 DEF ServeStart, CountInv, KnownInv, TypeOK
  <2>. QED
    BY <1>4, <2>1, <2>2, <2>3 DEF ServeStart, CountInv, RegistryInv
<1>. QED
  BY <1>1, <1>2, <1>3, <1>4 DEF ServeHTTP

LEMMA CloseCount ==
  ASSUME CountInv, NEW c \in Conns, Close(c)
  PROVE  KnownInv' /\ RegistryInv'
<1>. USE DEF registry, pubsub, loops, stop
<1>0. once \in [Conns -> {"open", "framed", "removed", "uncounted", "closed"}]
      /\ m \subseteq Conns /\ total \in Int
  BY DEF CountInv, TypeOK
<1>1. PICK v \in {"removed", "uncounted", "closed"} :
        once' = [once EXCEPT ![c] = v] /\ once[c] # "open"
  BY Zenon DEF Close, CloseRemoves, CloseUncounts, CloseUnsubscribes
<1>2. UNCHANGED <<serve, reader, health, sweep>>
  BY DEF Close, CloseRemoves, CloseUncounts, CloseUnsubscribes
<1>3. \A d \in Conns : Known(d)' <=> Known(d)
  BY <1>2 DEF Known
<1>4. KnownInv'
  BY <1>0, <1>1, <1>2, <1>3 DEF CountInv, KnownInv
<1>5. Counted' = Counted
  BY <1>2 DEF Counted
<1>6. CASE CloseRemoves(c)
  <2>1. Uncounted' = Uncounted
    BY <1>0, <1>6 DEF CloseRemoves, Uncounted
  <2>. QED
    BY <1>0, <1>3, <1>4, <1>5, <1>6, <2>1 DEF CloseRemoves, CountInv, RegistryInv
<1>7. CASE CloseUncounts(c)
  <2>1. Uncounted' = Uncounted \cup {c} /\ c \notin Uncounted
    BY <1>0, <1>7 DEF CloseUncounts, Uncounted
  <2>2. Counted \in SUBSET Conns /\ Uncounted \in SUBSET Conns
    BY DEF Counted, Uncounted
  <2>3. Cardinality(Uncounted \cup {c}) = Cardinality(Uncounted) + 1
    BY <2>1, <2>2, ConnSets, FS_AddElement
  <2>4. Cardinality(Counted) \in Nat /\ Cardinality(Uncounted) \in Nat
    BY <2>2, ConnSets
  <2>5. total' = Cardinality(Counted') - Cardinality(Uncounted')
    BY <1>5, <1>7, <2>1, <2>3, <2>4 DEF CloseUncounts, CountInv, RegistryInv
  <2>6. m' = {d \in Conns : Known(d)' /\ once'[d] \in {"open", "framed"}}
    BY <1>0, <1>3, <1>7 DEF CloseUncounts, CountInv, RegistryInv
  <2>. QED
    BY <1>4, <2>5, <2>6 DEF RegistryInv
<1>8. CASE CloseUnsubscribes(c)
  <2>1. Uncounted' = Uncounted
    BY <1>0, <1>8 DEF CloseUnsubscribes, Uncounted
  <2>2. m' = {d \in Conns : Known(d)' /\ once'[d] \in {"open", "framed"}}
    BY <1>0, <1>3, <1>8 DEF CloseUnsubscribes, CountInv, RegistryInv
  <2>. QED
    BY <1>4, <1>5, <1>8, <2>1, <2>2 DEF CloseUnsubscribes, CountInv, RegistryInv
<1>. QED
  BY <1>6, <1>7, <1>8 DEF Close

\* Every caller of Conn.Close holds a connection that is known.
LEMMA CallersCount ==
  ASSUME CountInv, NEW c \in Conns,
         UserCloses(c) \/ ReadFails(c) \/ HealthGivesUp(c) \/ ShutdownCloses(c)
  PROVE  KnownInv' /\ RegistryInv'
<1>. USE DEF registry, pubsub, loops, stop
<1>1. CloseBegins(c) /\ UNCHANGED <<total, m, serve, sweep>>
  BY DEF UserCloses, ReadFails, HealthGivesUp, ShutdownCloses
<1>2. Known(c)
  BY DEF UserCloses, ReadFails, HealthGivesUp, ShutdownCloses, Held, Known, CountInv, KnownInv
<1>3. \A d \in Conns : d = c \/ (once'[d] = once[d] /\ reader'[d] = reader[d] /\ health'[d] = health[d])
  BY DEF UserCloses, ReadFails, HealthGivesUp, ShutdownCloses, CloseBegins, CountInv, TypeOK
<1>4. KnownInv'
  BY <1>1, <1>2, <1>3 DEF CountInv, KnownInv, Known
<1>. QED
  BY <1>1, <1>4, CloseBeginsCount

LEMMA OthersCount ==
  ASSUME CountInv,
         \/ \E u \in Users : User(u)
         \/ \E c \in Conns : \/ LinkDrops(c) \/ ReadEnds(c) \/ WriteEnds(c)
                            \/ PingSucceeds(c) \/ PingFails(c) \/ HealthEnds(c)
                            \/ ShutdownNext(c)
         \/ ShutdownFlags \/ ShutdownRange \/ ShutdownReturns
  PROVE  KnownInv' /\ RegistryInv'
<1>. USE DEF registry, pubsub, loops, stop
<1>1. UNCHANGED <<total, m, serve, once>>
  BY DEF User, SubscribeLists, SubscribeTells, UnsubscribeLists, UnsubscribeTells, LinkDrops, ReadEnds, WriteEnds, PingSucceeds, PingFails,
         HealthEnds, ShutdownFlags, ShutdownRange, ShutdownReturns, ShutdownNext
<1>2. /\ \A d \in Conns : reader'[d] = reader[d] \/ reader[d] # "off"
      /\ \A d \in Conns : health'[d] = health[d] \/ health[d] # "off"
      /\ sweep' \subseteq sweep \cup m
  BY DEF User, SubscribeLists, SubscribeTells, UnsubscribeLists, UnsubscribeTells, LinkDrops, ReadEnds, WriteEnds, PingSucceeds, PingFails,
         HealthEnds, ShutdownFlags, ShutdownRange, ShutdownReturns, ShutdownNext, CountInv, TypeOK
<1>3. KnownInv'
  BY <1>1, <1>2 DEF CountInv, KnownInv, RegistryInv, Known
<1>. QED
  BY <1>1, <1>3, IdleCount

LEMMA NextCount == CountInv /\ [Next]_vars => CountInv'
<1>. SUFFICES ASSUME CountInv, [Next]_vars PROVE CountInv'
  OBVIOUS
<1>1. TypeOK'
  BY NextType DEF CountInv
<1>2. ASSUME NEW c \in Conns, ServeHTTP(c) \/ Close(c) PROVE KnownInv' /\ RegistryInv'
  BY <1>2, ServeHTTPCount, CloseCount
<1>3. ASSUME NEW c \in Conns, UserCloses(c) \/ LinkDrops(c) \/ ReadLoop(c) \/ WriteEnds(c)
                                  \/ HealthLoop(c)
      PROVE  KnownInv' /\ RegistryInv'
  BY <1>3, CallersCount, OthersCount DEF ReadLoop, HealthLoop
<1>4. ASSUME Shutdown PROVE KnownInv' /\ RegistryInv'
  BY <1>4, CallersCount, OthersCount DEF Shutdown
<1>5. ASSUME UNCHANGED vars PROVE KnownInv' /\ RegistryInv'
  <2>1. UNCHANGED <<total, m, serve, once, reader, health, sweep>>
    BY <1>5 DEF vars, registry, loops, stop
  <2>. QED
    BY <2>1, IdleCount DEF CountInv, KnownInv, Known
<1>6. ASSUME NEW u \in Users, User(u) PROVE KnownInv' /\ RegistryInv'
  BY <1>6, OthersCount
<1>. QED
  BY <1>1, <1>2, <1>3, <1>4, <1>5, <1>6 DEF Next, CountInv

LEMMA NewServerCount == NewServer => CountInv
<1>. SUFFICES ASSUME NewServer PROVE CountInv
  OBVIOUS
<1>1. Counted = {} /\ Uncounted = {}
  BY DEF NewServer, Counted, Uncounted
<1>2. total = Cardinality(Counted) - Cardinality(Uncounted)
  BY <1>1, FS_EmptySet DEF NewServer
<1>3. KnownInv /\ m = {c \in Conns : Known(c) /\ once[c] \in {"open", "framed"}}
  BY DEF NewServer, KnownInv, Known
<1>. QED
  BY <1>2, <1>3, NewServerType DEF CountInv, RegistryInv

\* Finite sets of connections that have nothing in common.
LEMMA Disjoint ==
  ASSUME NEW S \in SUBSET Conns, NEW T \in SUBSET Conns, S \cap T = {}
  PROVE  Cardinality(S \cup T) = Cardinality(S) + Cardinality(T)
<1>1. Cardinality(S \cup T) = Cardinality(S) + Cardinality(T) - Cardinality(S \cap T)
  BY ConnSets, FS_Union
<1>. QED
  BY <1>1, ConnSets, FS_EmptySet

LEMMA CountFollows == CountInv => CountAgrees
<1>. SUFFICES ASSUME CountInv PROVE CountAgrees
  OBVIOUS
<1>. DEFINE A == {c \in Conns : serve[c] = "added" /\ once[c] \in {"open", "framed"}}
            B == {c \in Conns : once[c] = "removed" /\ serve[c] # "added"}
            C == {c \in Conns : once[c] \in {"uncounted", "closed"} /\ serve[c] = "added"}
            D == {c \in Conns : once[c] \in {"uncounted", "closed"} /\ serve[c] # "added"}
            M == {c \in Conns : serve[c] \in {"counted", "serving"} /\ once[c] \in {"open", "framed"}}
<1>1. /\ A \in SUBSET Conns /\ B \in SUBSET Conns /\ C \in SUBSET Conns
      /\ D \in SUBSET Conns /\ M \in SUBSET Conns /\ M \cup B \in SUBSET Conns
  OBVIOUS
<1>2. m = A \cup M /\ A \cap M = {}
  BY DEF CountInv, RegistryInv, Known
<1>3. Counted = (M \cup B) \cup D /\ (M \cup B) \cap D = {} /\ M \cap B = {}
  BY DEF CountInv, TypeOK, KnownInv, Known, Counted
<1>4. Uncounted = C \cup D /\ C \cap D = {}
  BY DEF Uncounted
<1>. HIDE DEF A, B, C, D, M
<1>5. /\ Cardinality(m) = Cardinality(A) + Cardinality(M)
      /\ Cardinality(Counted) = Cardinality(M) + Cardinality(B) + Cardinality(D)
      /\ Cardinality(Uncounted) = Cardinality(C) + Cardinality(D)
  BY <1>1, <1>2, <1>3, <1>4, Disjoint
<1>6. /\ Cardinality(A) \in Nat /\ Cardinality(B) \in Nat /\ Cardinality(C) \in Nat
      /\ Cardinality(D) \in Nat /\ Cardinality(M) \in Nat
  BY <1>1, ConnSets
<1>7. total = Cardinality(m) - Cardinality(A) + Cardinality(B) - Cardinality(C)
  BY <1>5, <1>6 DEF CountInv, RegistryInv
<1>. QED
  BY <1>7 DEF CountInv, CountAgrees, A, B, C

\* ConnManager: for any number of connections and however add, remove and
\* Shutdown overlap, the atomic counter and the map differ by exactly the
\* connections that are between the two statements of add or of remove.
THEOREM CounterIsExact == Spec => []CountAgrees
<1>1. CountInv /\ [Next]_vars => CountInv'
  BY NextCount
<1>. QED
  BY <1>1, NewServerCount, CountFollows, PTL DEF Spec

-----------------------------------------------------------------------------
(* Subscriptions.                                                          *)

\* subsMu: one user at a time for each connection, and what he is about to
\* tell topicManager is what he has listed.
LockInv ==
  /\ \A u, v \in Users : call[u] # Free /\ call[v] # Free /\ call[u][2] = call[v][2] => u = v
  /\ \A u \in Users : call[u] # Free => (call[u][1] = "in" <=> call[u][3] \in subs[call[u][2]])

SubsInv == TypeOK /\ LockInv /\ SubscriptionsAgree
SubsGoal == LockInv /\ SubscriptionsAgree

\* A step that leaves both sides alone and reopens nothing.
LEMMA IdleSubs ==
  ASSUME SubsInv, UNCHANGED <<topics, subs, call>>,
         \A c \in Conns : once'[c] # "closed" => once[c] # "closed"
  PROVE  SubsGoal'
BY DEF SubsInv, SubsGoal, LockInv, SubscriptionsAgree, Telling

LEMMA CloseBeginsSubs ==
  ASSUME SubsInv, NEW c \in Conns, CloseBegins(c), UNCHANGED <<topics, subs, call>>
  PROVE  SubsGoal'
<1>1. \A d \in Conns : once'[d] # "closed" => once[d] # "closed"
  BY DEF SubsInv, TypeOK, CloseBegins
<1>. QED
  BY <1>1, IdleSubs

\* unsubscribeAll takes the connection out of every topic, when it is closed.
LEMMA ClearsSubs ==
  ASSUME SubsInv, NEW c \in Conns, CloseUnsubscribes(c)
  PROVE  SubsGoal'
<1>1. /\ UNCHANGED <<subs, call>>
      /\ \A t \in Topics : topics'[t] = topics[t] \ {c}
      /\ \A d \in Conns : once'[d] = IF d = c THEN "closed" ELSE once[d]
  BY DEF CloseUnsubscribes, SubsInv, TypeOK
<1>2. LockInv'
  BY <1>1 DEF SubsInv, LockInv
<1>3. SubscriptionsAgree'
  BY <1>1 DEF SubsInv, SubscriptionsAgree, Telling
<1>. QED
  BY <1>2, <1>3 DEF SubsGoal

\* The list is changed under its lock: topicManager is told later.
LEMMA ListsSubs ==
  ASSUME SubsInv, NEW u \in Users, NEW c \in Conns, NEW t \in Topics,
         SubscribeLists(u, c, t) \/ UnsubscribeLists(u, c, t)
  PROVE  SubsGoal'
<1>1. PICK w \in {"in", "out"} :
        /\ call' = [call EXCEPT ![u] = <<w, c, t>>]
        /\ w = "in" <=> t \notin subs[c]
        /\ subs' = [subs EXCEPT ![c] = IF w = "in" THEN @ \cup {t} ELSE @ \ {t}]
  BY DEF SubscribeLists, UnsubscribeLists
<1>2. UNCHANGED <<topics, once>> /\ call[u] = Free /\ ~Locked(c)
  BY DEF SubscribeLists, UnsubscribeLists
<1>3. /\ call'[u] = <<w, c, t>> /\ call'[u] # Free
      /\ call'[u][1] = w /\ call'[u][2] = c /\ call'[u][3] = t
      /\ \A v \in Users \ {u} : call'[v] = call[v]
  BY <1>1 DEF SubsInv, TypeOK, Free
<1>4. /\ \A d \in Conns, s \in Topics : ~(d = c /\ s = t) => (s \in subs'[d] <=> s \in subs[d])
      /\ t \in subs'[c] <=> w = "in"
  BY <1>1 DEF SubsInv, TypeOK
<1>5. \A v \in Users : call[v] # Free => /\ call[v][2] # c /\ call[v][2] \in Conns
                                         /\ call[v][3] \in Topics
  BY <1>2, CallType DEF Locked, SubsInv
<1>6. LockInv'
  BY <1>2, <1>3, <1>4, <1>5 DEF SubsInv, LockInv
<1>7. \A x \in {"in", "out"}, d \in Conns, s \in Topics :
        ~(d = c /\ s = t) => (Telling(x, d, s)' <=> Telling(x, d, s))
  <2>. SUFFICES ASSUME NEW x \in {"in", "out"}, NEW d \in Conns, NEW s \in Topics, ~(d = c /\ s = t)
       PROVE  Telling(x, d, s)' <=> Telling(x, d, s)
    OBVIOUS
  <2>1. call'[u] # <<x, d, s>> /\ call[u] # <<x, d, s>>
    BY <1>2, <1>3 DEF Free
  <2>. QED
    BY <1>3, <2>1 DEF Telling
<1>8. Telling(w, c, t)' /\ \A x \in {"in", "out"} : ~Telling(x, c, t)
  <2>1. \A x \in {"in", "out"}, v \in Users : call[v] # <<x, c, t>>
    BY <1>5, CallType DEF SubsInv
  <2>. QED
    BY <1>3, <2>1 DEF Telling
<1>9. \A x \in {"in", "out"} : Telling(x, c, t)' => x = w
  BY <1>3, <1>8 DEF Telling
<1>10. SubscriptionsAgree'
  <2>. SUFFICES ASSUME NEW d \in Conns, NEW s \in Topics
       PROVE  /\ d \in topics'[s] => (s \in subs'[d] /\ ~Telling("in", d, s)') \/ Telling("out", d, s)'
              /\ once'[d] # "closed" /\ s \in subs'[d] => d \in topics'[s] \/ Telling("in", d, s)'
    BY DEF SubscriptionsAgree, Telling
  <2>1. CASE d = c /\ s = t
    BY <1>1, <1>2, <1>4, <1>8, <1>9, <2>1 DEF SubsInv, SubscriptionsAgree
  <2>2. CASE ~(d = c /\ s = t)
    BY <1>2, <1>4, <1>7, <2>2 DEF SubsInv, SubscriptionsAgree
  <2>. QED
    BY <2>1, <2>2
<1>. QED
  BY <1>6, <1>10 DEF SubsGoal

\* topicManager is told, still under the lock of the list.
LEMMA TellsSubs ==
  ASSUME SubsInv, NEW u \in Users, SubscribeTells(u) \/ UnsubscribeTells(u)
  PROVE  SubsGoal'
<1>1. PICK w \in {"in", "out"}, c \in Conns, t \in Topics : call[u] = <<w, c, t>>
  BY CallType DEF SubscribeTells, UnsubscribeTells, SubsInv
<1>2. call[u] # Free /\ call[u][1] = w /\ call[u][2] = c /\ call[u][3] = t
  BY <1>1, CallType DEF SubsInv
<1>3. /\ UNCHANGED <<subs, once>>
      /\ call' = [call EXCEPT ![u] = Free]
      /\ topics' = [topics EXCEPT ![t] = IF w = "in" THEN @ \cup {c} ELSE @ \ {c}]
  BY <1>2 DEF SubscribeTells, UnsubscribeTells
<1>4. call'[u] = Free /\ \A v \in Users \ {u} : call'[v] = call[v]
  BY <1>3 DEF SubsInv, TypeOK
<1>5. /\ \A d \in Conns, s \in Topics : ~(d = c /\ s = t) => (d \in topics'[s] <=> d \in topics[s])
      /\ c \in topics'[t] <=> w = "in"
  BY <1>3 DEF SubsInv, TypeOK
<1>6. LockInv'
  BY <1>3, <1>4 DEF SubsInv, LockInv
<1>7. w = "in" <=> t \in subs[c]
  BY <1>2 DEF SubsInv, LockInv
<1>8. \A x \in {"in", "out"}, d \in Conns, s \in Topics :
        ~(d = c /\ s = t) => (Telling(x, d, s)' <=> Telling(x, d, s))
  <2>. SUFFICES ASSUME NEW x \in {"in", "out"}, NEW d \in Conns, NEW s \in Topics, ~(d = c /\ s = t)
       PROVE  Telling(x, d, s)' <=> Telling(x, d, s)
    OBVIOUS
  <2>1. call'[u] # <<x, d, s>> /\ call[u] # <<x, d, s>>
    BY <1>1, <1>4 DEF Free
  <2>. QED
    BY <1>4, <2>1 DEF Telling
<1>9. \A x \in {"in", "out"} : ~Telling(x, c, t)'
  <2>1. \A x \in {"in", "out"}, v \in Users : call'[v] # <<x, c, t>>
    <3>. SUFFICES ASSUME NEW x \in {"in", "out"}, NEW v \in Users, call'[v] = <<x, c, t>>
         PROVE  FALSE
      OBVIOUS
    <3>1. <<x, c, t>> # Free
      BY DEF Free
    <3>2. v # u
      BY <1>4, <3>1
    <3>3. call[v] = <<x, c, t>> /\ call[v] # Free /\ call[v][2] = c
      BY <1>4, <3>1, <3>2
    <3>. QED
      BY <1>2, <3>2, <3>3 DEF SubsInv, LockInv
  <2>. QED
    BY <2>1 DEF Telling
<1>10. SubscriptionsAgree'
  <2>. SUFFICES ASSUME NEW d \in Conns, NEW s \in Topics
       PROVE  /\ d \in topics'[s] => (s \in subs'[d] /\ ~Telling("in", d, s)') \/ Telling("out", d, s)'
              /\ once'[d] # "closed" /\ s \in subs'[d] => d \in topics'[s] \/ Telling("in", d, s)'
    BY DEF SubscriptionsAgree, Telling
  <2>1. CASE d = c /\ s = t
    BY <1>3, <1>5, <1>7, <1>9, <2>1
  <2>2. CASE ~(d = c /\ s = t)
    BY <1>3, <1>5, <1>8, <2>2 DEF SubsInv, SubscriptionsAgree
  <2>. QED
    BY <2>1, <2>2
<1>. QED
  BY <1>6, <1>10 DEF SubsGoal

LEMMA UserSubs ==
  ASSUME SubsInv, NEW u \in Users, User(u)
  PROVE  SubsGoal'
BY ListsSubs, TellsSubs DEF User

LEMMA NextSubs == SubsInv /\ [Next]_vars => SubsInv'
<1>. SUFFICES ASSUME SubsInv, [Next]_vars PROVE SubsInv'
  OBVIOUS
<1>. USE DEF registry, pubsub, loops, stop
<1>1. TypeOK'
  BY NextType DEF SubsInv
<1>2. ASSUME NEW c \in Conns, ServeHTTP(c) \/ LinkDrops(c) \/ WriteEnds(c) PROVE SubsGoal'
  BY <1>2, IdleSubs DEF ServeHTTP, ServeOpen, ServeAccept, ServeAdd, ServeCount, ServeStart,
                        LinkDrops, WriteEnds
<1>3. ASSUME NEW c \in Conns, Close(c) PROVE SubsGoal'
  <2>1. CASE CloseRemoves(c) \/ CloseUncounts(c)
    <3>1. \A d \in Conns : once'[d] # "closed" => once[d] # "closed"
      BY <2>1 DEF CloseRemoves, CloseUncounts, SubsInv, TypeOK
    <3>. QED
      BY <2>1, <3>1, IdleSubs DEF CloseRemoves, CloseUncounts
  <2>2. CASE CloseUnsubscribes(c)
    BY <2>2, ClearsSubs
  <2>. QED
    BY <1>3, <2>1, <2>2 DEF Close
<1>4. ASSUME NEW u \in Users, User(u) PROVE SubsGoal'
  BY <1>4, UserSubs
<1>6. ASSUME NEW c \in Conns, UserCloses(c) \/ ReadLoop(c) \/ HealthLoop(c) PROVE SubsGoal'
  <2>1. CASE UserCloses(c) \/ ReadFails(c) \/ HealthGivesUp(c)
    BY <2>1, CloseBeginsSubs DEF UserCloses, ReadFails, HealthGivesUp
  <2>2. CASE ReadEnds(c) \/ PingSucceeds(c) \/ PingFails(c) \/ HealthEnds(c)
    BY <2>2, IdleSubs DEF ReadEnds, PingSucceeds, PingFails, HealthEnds
  <2>. QED
    BY <1>6, <2>1, <2>2 DEF ReadLoop, HealthLoop
<1>7. ASSUME Shutdown PROVE SubsGoal'
  <2>1. ASSUME NEW c \in Conns, ShutdownCloses(c) PROVE SubsGoal'
    BY <2>1, CloseBeginsSubs DEF ShutdownCloses
  <2>2. ASSUME NEW c \in Conns, ShutdownNext(c) PROVE SubsGoal'
    BY <2>2, IdleSubs DEF ShutdownNext
  <2>3. ASSUME ShutdownFlags \/ ShutdownRange \/ ShutdownReturns PROVE SubsGoal'
    BY <2>3, IdleSubs DEF ShutdownFlags, ShutdownRange, ShutdownReturns
  <2>. QED
    BY <1>7, <2>1, <2>2, <2>3 DEF Shutdown
<1>8. ASSUME UNCHANGED vars PROVE SubsGoal'
  BY <1>8, IdleSubs DEF vars
<1>. QED
  BY <1>1, <1>2, <1>3, <1>4, <1>6, <1>7, <1>8 DEF Next, SubsInv, SubsGoal

\* Conn.subs and topicManager: for any number of users, connections and
\* topics, and although the two sides of a subscription change one after the
\* other under two locks, a topic holds only connections that list it, also
\* those subscribed after unsubscribeAll, and a connection that is not closed
\* is in every topic it lists, but for what is about to be told.
THEOREM SubscriptionsConsistent == Spec => []SubscriptionsAgree
<1>1. NewServer => SubsInv
  BY NewServerType DEF NewServer, SubsInv, LockInv, SubscriptionsAgree
<1>2. SubsInv /\ [Next]_vars => SubsInv'
  BY NextSubs
<1>3. SubsInv => SubscriptionsAgree
  BY DEF SubsInv
<1>. QED
  BY <1>1, <1>2, <1>3, PTL DEF Spec

-----------------------------------------------------------------------------
(* WsMessages: what the connections carry.  Types first.                   *)

Chain == Seq(Middlewares \cup Actions)
Codes == {200, 400, 404, 413, 500}
Data == [of : Ids \cup {None}, id : Ids \cup Notices \cup {None}, code : Codes, codec : Codecs, turn : Nat]
Frame == [data : Data, turn : Nat, frame : {"text", "binary"}]
Request == [id : Ids, conn : Peers, frame : {"text", "binary"}, codec : Codecs,
            action : Actions \cup {None}, size : Nat]
Goroutine == [conn : Peers, id : Ids, action : Actions, chain : Chain, left : Nat, out : SUBSET Data]
Casting == [resp : Notices \cup {None}, unfit : SUBSET Codecs, to : SUBSET Peers,
            out : SUBSET [conn : Peers, data : Data]]

MsgTypes ==
  /\ unsent \subseteq Requests
  /\ cur \in [Peers -> [at : {"reading", "decoding", "routing", "closed"}, req : Request \cup {None}]]
  /\ respCodec \in [Peers -> Codecs] /\ used \in [Peers -> Seq(Codecs)]
  /\ sendCh \in [Peers -> Seq(Data)] /\ writing \in [Peers -> Seq(Data)]
  /\ wire \in [Peers -> Seq(Frame)]
  /\ middleware \in Seq(Middlewares) /\ handlers \in [Actions -> Chain]
  /\ gor \subseteq Goroutine /\ returned \subseteq Ids
  /\ notice \in Casting
  /\ unnoticed \subseteq Notices

\* What readLoop, a goroutine and a broadcast are at: readLoop and goroutines
\* at a request of their own connection, a broadcast at a notice; and what they
\* have made and not queued answers no other request.
Owners ==
  /\ \A c \in Peers : cur[c].at # "reading" =>
       /\ cur[c].req \in Request
       /\ \E r \in Requests : r.id = cur[c].req.id /\ r.conn = c
  /\ \A g \in gor : /\ \E r \in Requests : r.id = g.id /\ r.conn = g.conn
                    /\ \A d \in g.out : d.of = None \/ d.of = g.id
  /\ notice.to # {} => notice.resp \in Notices
  /\ \A o \in notice.out : o.data.of = None

\* A handler runs inside a prefix of the middlewares.
InPrefix(chain, a) ==
  \E n \in 0..Len(middleware) : chain = SubSeq(middleware, 1, n) \o <<a>>

Chains ==
  /\ \A a \in Actions : handlers[a] = <<>> \/ InPrefix(handlers[a], a)
  /\ \A g \in gor : InPrefix(g.chain, g.action)

\* The places of a request or its response,
InReader(r) == cur[r.conn].at # "reading" /\ cur[r.conn].req.id = r.id
InHandler(r) == \E g \in gor : g.id = r.id
Answered(r) == \E i \in DOMAIN Answers(r.conn) : Answers(r.conn)[i].of = r.id
Refused(r) == <<r.conn, r.id>> \in lost
Returned(r) == r.id \in returned

ExactlyOne(p, q, s, t, u, v) ==
  /\ p \/ q \/ s \/ t \/ u \/ v
  /\ ~(p /\ q) /\ ~(p /\ s) /\ ~(p /\ t) /\ ~(p /\ u) /\ ~(p /\ v)
  /\ ~(q /\ s) /\ ~(q /\ t) /\ ~(q /\ u) /\ ~(q /\ v)
  /\ ~(s /\ t) /\ ~(s /\ u) /\ ~(s /\ v)
  /\ ~(t /\ u) /\ ~(t /\ v)
  /\ ~(u /\ v)

\* of which it is at exactly one,
AtOne(r) ==
  ExactlyOne(r \in unsent, InReader(r), InHandler(r), Answered(r), Refused(r), Returned(r))
OnePlace == \A r \in Requests : AtOne(r)

\* and there only once.
OneGoroutine == \A g, h \in gor : g.id = h.id => g = h
OneAnswer ==
  \A c \in Peers : \A i, j \in DOMAIN Answers(c) :
    Answers(c)[i].of = Answers(c)[j].of /\ Answers(c)[i].of \in Ids => i = j

QueueBound == \A c \in Peers : Len(sendCh[c]) <= QueueSize
WriterInv == \A c \in Peers : Len(writing[c]) <= 1

PlaceInv == OnePlace /\ OneGoroutine /\ OneAnswer /\ QueueBound /\ WriterInv
AnswerInv == MsgTypes /\ Owners /\ Chains /\ PlaceInv

\* The codec of a response made, or a frame written, after n requests have been
\* decoded.
CodecAt(c, n) == IF n = 0 THEN Configured ELSE used[c][n]
Sound(c, d) ==
  /\ d.turn \in Nat /\ d.turn <= Len(used[c]) /\ d.codec = CodecAt(c, d.turn)
  /\ IsReply(d) => d.turn > 0
Framed(c, w) ==
  /\ w.turn \in Nat /\ w.data.turn <= w.turn /\ w.turn <= Len(used[c])
  /\ w.frame = MessageType(CodecAt(c, w.turn))

CodecInv ==
  /\ \A c \in Peers : /\ respCodec[c] = CodecAt(c, Len(used[c]))
                      /\ cur[c].at = "routing" => Len(used[c]) > 0
  /\ \A c \in Peers : \A i \in DOMAIN Answers(c) : Sound(c, Answers(c)[i])
  /\ \A c \in Peers : \A i \in DOMAIN wire[c] : Framed(c, wire[c][i])
  /\ \A g \in gor : Len(used[g.conn]) > 0 /\ \A d \in g.out : Sound(g.conn, d)
  /\ \A o \in notice.out : Sound(o.conn, o.data)

LEMMA RequestsAreTyped == Requests \subseteq Request
<1>. SUFFICES ASSUME NEW r \in Requests PROVE r \in Request
  OBVIOUS
<1>1. r \in [id : {r.id}, conn : Peers, frame : {"text", "binary"}, codec : Codecs,
             action : Actions, size : Nat]
  BY RequestsAssumption
<1>2. r.id \in Ids
  BY DEF Ids
<1>. QED
  BY <1>1, <1>2 DEF Request

LEMMA SameId ==
  ASSUME NEW r \in Requests, NEW s \in Requests, r.id = s.id
  PROVE  r = s
BY RequestsAssumption

LEMMA MarshalType ==
  ASSUME MsgTypes, NEW c \in Peers, NEW of \in Ids \cup {None},
         NEW id \in Ids \cup Notices \cup {None}, NEW code \in Codes
  PROVE  MarshalResponse(c, of, id, code) \in Data
<1>1. respCodec[c] \in Codecs /\ Len(used[c]) \in Nat
  BY DEF MsgTypes
<1>. QED
  BY <1>1 DEF MarshalResponse, Data

LEMMA EnqueueType ==
  ASSUME MsgTypes, NEW c \in Peers, NEW d \in Data, Enqueue(c, d)
  PROVE  sendCh' \in [Peers -> Seq(Data)]
<1>1. CASE UNCHANGED sendCh
  BY <1>1 DEF MsgTypes
<1>2. CASE sendCh' = [sendCh EXCEPT ![c] = Append(@, d)]
  <2>1. sendCh[c] \in Seq(Data)
    BY DEF MsgTypes
  <2>2. Append(sendCh[c], d) \in Seq(Data)
    BY <2>1
  <2>. QED
    BY <1>2, <2>2 DEF MsgTypes
<1>. QED
  BY <1>1, <1>2 DEF Enqueue

\* What readLoop sends by itself.
LEMMA SendRespIs ==
  ASSUME MsgTypes, NEW c \in Peers, NEW of \in Ids, NEW code \in Codes, SendResp(c, of, code)
  PROVE  \E d \in Data : /\ d.of = of /\ d.id = None /\ d.code = code
                         /\ d.codec = respCodec[c] /\ d.turn = Len(used[c])
                         /\ Enqueue(c, d)
<1>1. PICK d : d = MarshalResponse(c, of, None, code)
  OBVIOUS
<1>2. d \in Data
  BY <1>1, MarshalType
<1>3. /\ d.of = of /\ d.id = None /\ d.code = code
      /\ d.codec = respCodec[c] /\ d.turn = Len(used[c])
  BY <1>1 DEF MarshalResponse
<1>4. Enqueue(c, d)
  BY <1>1 DEF SendResp
<1>. QED
  BY <1>2, <1>3, <1>4

LEMMA MsgInitType == Init => MsgTypes
BY ServerAssumption DEF Init, MsgTypes, Chain, Casting

LEMMA ReaderType ==
  ASSUME MsgTypes, Owners, NEW c \in Peers, Read(c) \/ TooLarge(c) \/ Decode(c) \/ Route(c)
  PROVE  MsgTypes'
<1>. USE DEF reading, sending, routing, running, casting
<1>0. None \in Request \cup {None}
  OBVIOUS
<1>1. CASE Read(c)
  <2>1. PICK r \in unsent, at \in {"decoding", "closed"} :
             /\ cur' = [cur EXCEPT ![c] = [at |-> at, req |-> r]]
             /\ unsent' = unsent \ {r}
    BY <1>1 DEF Read
  <2>2. r \in Request
    BY RequestsAreTyped DEF MsgTypes
  <2>. QED
    BY <1>1, <2>1, <2>2 DEF Read, MsgTypes
<1>. DEFINE q == cur[c].req
<1>2. CASE TooLarge(c)
  <2>1. q.id \in Ids
    BY <1>2 DEF TooLarge, Owners, Request
  <2>2. sendCh' \in [Peers -> Seq(Data)]
    BY <1>2, <2>1, SendRespIs, EnqueueType DEF TooLarge, Codes
  <2>. QED
    BY <1>0, <1>2, <2>2 DEF TooLarge, MsgTypes
<1>3. CASE Decode(c)
  <2>1. q \in Request /\ q.id \in Ids
    BY <1>3 DEF Decode, Owners, Request
  <2>2. RequestCodec(q) \in Codecs
    BY ServerAssumption DEF RequestCodec, Codecs
  <2>3. PICK got \in UnmarshalRequest(RequestCodec(q), q) :
          IF got.ok
          THEN /\ respCodec' = [respCodec EXCEPT ![c] = RequestCodec(q)]
               /\ used' = [used EXCEPT ![c] = Append(@, RequestCodec(q))]
               /\ cur' = [cur EXCEPT ![c] = [at |-> "routing", req |-> [q EXCEPT !.action = got.action]]]
               /\ UNCHANGED <<sendCh, lost>>
          ELSE /\ SendResp(c, q.id, 400)
               /\ cur' = [cur EXCEPT ![c] = [at |-> "reading", req |-> None]]
               /\ UNCHANGED <<respCodec, used>>
    BY <1>3 DEF Decode
  <2>4. CASE got.ok
    <3>1. got.action \in Actions \cup {None}
      BY <2>1 DEF UnmarshalRequest, Request
    <3>2. PICK p \in Request : p = [q EXCEPT !.action = got.action]
      BY <2>1, <3>1 DEF Request
    <3>3. /\ respCodec' = [respCodec EXCEPT ![c] = RequestCodec(q)]
          /\ used' = [used EXCEPT ![c] = Append(@, RequestCodec(q))]
          /\ cur' = [cur EXCEPT ![c] = [at |-> "routing", req |-> p]]
          /\ UNCHANGED sendCh
      BY <2>3, <2>4, <3>2
    <3>4. UNCHANGED <<unsent, writing, wire, routing, running, casting>>
      BY <1>3 DEF Decode
    <3>. HIDE DEF q
    <3>5. used[c] \in Seq(Codecs)
      BY DEF MsgTypes
    <3>6. Append(used[c], RequestCodec(q)) \in Seq(Codecs)
      BY <2>2, <3>5
    <3>7. used' \in [Peers -> Seq(Codecs)]
      BY <3>3, <3>6 DEF MsgTypes
    <3>. QED
      BY <2>2, <3>3, <3>4, <3>7 DEF MsgTypes
  <2>5. CASE ~got.ok
    <3>1. sendCh' \in [Peers -> Seq(Data)]
      BY <2>1, <2>3, <2>5, SendRespIs, EnqueueType DEF Codes
    <3>2. /\ cur' = [cur EXCEPT ![c] = [at |-> "reading", req |-> None]]
          /\ UNCHANGED <<respCodec, used>>
      BY <2>3, <2>5
    <3>3. UNCHANGED <<unsent, writing, wire, routing, running, casting>>
      BY <1>3 DEF Decode
    <3>. HIDE DEF q
    <3>. QED
      BY <1>0, <3>1, <3>2, <3>3 DEF MsgTypes
  <2>. QED
    BY <2>4, <2>5
<1>4. CASE Route(c)
  <2>1. q \in Request /\ q.id \in Ids
    BY <1>4 DEF Route, Owners, Request
  <2>2. CASE Handler(q.action) = <<>>
    <3>1. SendResp(c, q.id, 404) /\ UNCHANGED gor
      BY <1>4, <2>2 DEF Route
    <3>2. sendCh' \in [Peers -> Seq(Data)]
      BY <2>1, <3>1, SendRespIs, EnqueueType DEF Codes
    <3>. QED
      BY <1>0, <1>4, <3>1, <3>2 DEF Route, MsgTypes
  <2>3. CASE Handler(q.action) # <<>>
    <3>1. PICK n : /\ n = [conn |-> c, id |-> q.id, action |-> q.action, chain |-> Handler(q.action),
                           left |-> HandlerAnswers, out |-> {}]
                   /\ gor' = gor \cup {n}
                   /\ UNCHANGED <<sendCh, lost>>
      BY <1>4, <2>3 DEF Route
    <3>2. q.action \in Actions /\ Handler(q.action) \in Chain
      BY <2>3 DEF Handler, MsgTypes
    <3>3. n \in Goroutine
      BY <2>1, <3>1, <3>2, ServerAssumption DEF Goroutine
    <3>. HIDE DEF q
    <3>. QED
      BY <1>0, <1>4, <3>1, <3>3 DEF Route, MsgTypes
  <2>. QED
    BY <2>2, <2>3
<1>. QED
  BY <1>1, <1>2, <1>3, <1>4

LEMMA WriterType ==
  ASSUME MsgTypes, NEW c \in Peers, WriterTakes(c) \/ WriterWrites(c)
  PROVE  MsgTypes'
<1>. USE DEF reading, sending, routing, running, casting
<1>1. CASE WriterTakes(c)
  <2>1. sendCh[c] \in Seq(Data) /\ sendCh[c] # <<>>
    BY <1>1 DEF WriterTakes, MsgTypes
  <2>2. Head(sendCh[c]) \in Data /\ Tail(sendCh[c]) \in Seq(Data)
    BY <2>1
  <2>3. <<Head(sendCh[c])>> \in Seq(Data)
    BY <2>2
  <2>. QED
    BY <1>1, <2>2, <2>3 DEF WriterTakes, MsgTypes
<1>2. CASE WriterWrites(c)
  <2>1. writing[c] \in Seq(Data) /\ writing[c] # <<>>
    BY <1>2 DEF WriterWrites, MsgTypes
  <2>2. writing[c][1] \in Data
    BY <2>1
  <2>3. MessageType(respCodec[c]) \in {"text", "binary"}
    BY DEF MessageType
  <2>4. Len(used[c]) \in Nat
    BY DEF MsgTypes
  <2>5. PICK f \in Frame : wire' = [wire EXCEPT ![c] = Append(@, f)]
    <3>1. [data |-> writing[c][1], turn |-> Len(used[c]), frame |-> MessageType(respCodec[c])] \in Frame
      BY <2>2, <2>3, <2>4 DEF Frame
    <3>. QED
      BY <1>2, <3>1 DEF WriterWrites
  <2>6. wire' \in [Peers -> Seq(Frame)]
    BY <2>5 DEF MsgTypes
  <2>7. writing' \in [Peers -> Seq(Data)]
    BY <1>2 DEF WriterWrites, MsgTypes
  <2>. QED
    BY <1>2, <2>6, <2>7 DEF WriterWrites, MsgTypes
<1>. QED
  BY <1>1, <1>2

\* What goroutines leave alone.
LEMMA MakesKeep ==
  ASSUME NEW g, HandlerMakes(g) \/ HandlerPanics(g)
  PROVE  UNCHANGED <<unsent, cur, respCodec, sendCh, lost, writing, wire, middleware, handlers,
                     returned, notice, unnoticed, used>>
<1>. USE DEF reading, sending, routing, casting
<1>1. CASE HandlerMakes(g)
  BY <1>1, Zenon DEF HandlerMakes
<1>2. CASE HandlerPanics(g)
  BY <1>2, Zenon DEF HandlerPanics
<1>. QED
  BY <1>1, <1>2

Runs(g) == HandlerMakes(g) \/ HandlerPanics(g) \/ HandlerQueues(g) \/ HandlerReturns(g)

LEMMA RunsKeep ==
  ASSUME NEW g, Runs(g)
  PROVE  UNCHANGED <<unsent, cur, respCodec, writing, wire, middleware, handlers, notice, unnoticed, used>>
<1>. USE DEF reading, sending, routing, casting
<1>1. CASE HandlerQueues(g)
  BY <1>1, Zenon DEF HandlerQueues
<1>2. CASE HandlerReturns(g)
  BY <1>2, Zenon DEF HandlerReturns
<1>. QED
  BY <1>1, <1>2, MakesKeep DEF Runs

\* A goroutine goes on with something made and not queued, queues it, or ends.
LEMMA MakesIs ==
  ASSUME MsgTypes, NEW g \in gor, HandlerMakes(g) \/ HandlerPanics(g)
  PROVE  \E h \in Goroutine :
           /\ Becomes(g, h) /\ h.conn = g.conn /\ h.id = g.id /\ h.action = g.action /\ h.chain = g.chain
           /\ \A d \in h.out : /\ d.of = None \/ d.of = g.id
                               /\ d.codec = respCodec[g.conn] /\ d.turn = Len(used[g.conn])
<1>1. g \in Goroutine /\ g.conn \in Peers /\ g.id \in Ids
  BY DEF MsgTypes, Goroutine
<1>2. CASE HandlerMakes(g)
  <2>1. PICK d : d = MarshalResponse(g.conn, None, g.id, 200)
    OBVIOUS
  <2>2. d \in Data
    <3>1. 200 \in Codes
      BY DEF Codes
    <3>. QED
      BY <1>1, <2>1, <3>1, MarshalType, Zenon
  <2>3. d.of = None /\ d.codec = respCodec[g.conn] /\ d.turn = Len(used[g.conn])
    BY <2>1 DEF MarshalResponse
  <2>4. PICK out \in {{}, {d}} : Becomes(g, [g EXCEPT !.left = @ - 1, !.out = out])
    BY <1>2, <2>1, Zenon DEF HandlerMakes
  <2>5. g.left - 1 \in Nat
    <3>1. g.left > 0
      BY <1>2, Zenon DEF HandlerMakes
    <3>. QED
      BY <1>1, <3>1 DEF Goroutine
  <2>6. PICK h : h = [g EXCEPT !.left = @ - 1, !.out = out]
    OBVIOUS
  <2>7. /\ h \in Goroutine /\ h.conn = g.conn /\ h.id = g.id /\ h.action = g.action
        /\ h.chain = g.chain /\ h.out = out
    BY <1>1, <2>2, <2>5, <2>6 DEF Goroutine
  <2>. QED
    BY <2>3, <2>4, <2>6, <2>7
<1>3. CASE HandlerPanics(g)
  <2>1. PICK d : d = MarshalResponse(g.conn, g.id, None, 500)
    OBVIOUS
  <2>2. d \in Data
    BY <1>1, <2>1, MarshalType DEF Codes
  <2>3. d.of = g.id /\ d.codec = respCodec[g.conn] /\ d.turn = Len(used[g.conn])
    BY <2>1 DEF MarshalResponse
  <2>4. PICK h : h = [g EXCEPT !.left = 0, !.out = {d}]
    OBVIOUS
  <2>5. Becomes(g, h)
    BY <1>3, <2>1, <2>4 DEF HandlerPanics
  <2>6. /\ h \in Goroutine /\ h.conn = g.conn /\ h.id = g.id /\ h.action = g.action
        /\ h.chain = g.chain /\ h.out = {d}
    BY <1>1, <2>2, <2>4 DEF Goroutine
  <2>. QED
    BY <2>3, <2>5, <2>6
<1>. QED
  BY <1>2, <1>3

LEMMA QueuesIs ==
  ASSUME MsgTypes, NEW g \in gor, HandlerQueues(g)
  PROVE  \E d \in g.out :
           /\ d \in Data /\ Enqueue(g.conn, d)
           /\ \/ /\ d.of = None
                 /\ \E h \in Goroutine : /\ Becomes(g, h) /\ h.conn = g.conn /\ h.id = g.id
                                         /\ h.action = g.action /\ h.chain = g.chain /\ h.out = {}
              \/ d.of # None /\ gor' = gor \ {g}
<1>1. g \in Goroutine
  BY DEF MsgTypes
<1>2. PICK h : h = [g EXCEPT !.out = {}]
  OBVIOUS
<1>3. /\ h \in Goroutine /\ h.conn = g.conn /\ h.id = g.id /\ h.action = g.action
      /\ h.chain = g.chain /\ h.out = {}
  BY <1>1, <1>2 DEF Goroutine
<1>4. g.out \subseteq Data
  BY <1>1 DEF Goroutine
<1>5. PICK d \in g.out : /\ Enqueue(g.conn, d)
                         /\ IF d.of = None THEN Becomes(g, h) ELSE gor' = gor \ {g}
  BY <1>2, Zenon DEF HandlerQueues
<1>. QED
  BY <1>3, <1>4, <1>5

LEMMA RunsType ==
  ASSUME MsgTypes, NEW g \in gor, Runs(g)
  PROVE  MsgTypes'
<1>. USE DEF reading, sending, routing, casting
<1>1. CASE HandlerMakes(g) \/ HandlerPanics(g)
  <2>1. gor' \subseteq Goroutine
    BY <1>1, MakesIs DEF Becomes, MsgTypes
  <2>. QED
    BY <1>1, <2>1, MakesKeep DEF MsgTypes
<1>2. CASE HandlerQueues(g)
  <2>1. g.conn \in Peers
    BY DEF MsgTypes, Goroutine
  <2>2. gor' \subseteq Goroutine /\ sendCh' \in [Peers -> Seq(Data)]
    BY <1>2, <2>1, QueuesIs, EnqueueType DEF Becomes, MsgTypes
  <2>. QED
    BY <1>2, <2>2 DEF HandlerQueues, MsgTypes
<1>3. CASE HandlerReturns(g)
  <2>1. g.id \in Ids
    BY DEF MsgTypes, Goroutine
  <2>. QED
    BY <1>3, <2>1 DEF HandlerReturns, MsgTypes
<1>. QED
  BY <1>1, <1>2, <1>3 DEF Runs

LEMMA SetupType ==
  ASSUME MsgTypes,
         \/ \E w \in Middlewares : Use(w)
         \/ \E a \in Actions : Handle(a)
  PROVE  MsgTypes'
<1>. USE DEF reading, sending, routing, running, casting
<1>1. ASSUME NEW w \in Middlewares, Use(w) PROVE MsgTypes'
  BY <1>1 DEF Use, MsgTypes
<1>2. ASSUME NEW a \in Actions, Handle(a) PROVE MsgTypes'
  <2>1. middleware \in Chain /\ <<a>> \in Chain
    BY DEF MsgTypes, Chain
  <2>2. Wrapped(a) \in Chain
    BY <2>1 DEF Wrapped, Chain
  <2>. QED
    BY <1>2, <2>2 DEF Handle, MsgTypes
<1>. QED
  BY <1>1, <1>2

\* A broadcast makes a response, passes a connection over, or queues what it made.
LEMMA CastMakesIs ==
  ASSUME MsgTypes, Owners, NEW c \in Peers, CastMakes(c)
  PROVE  \/ notice' = [notice EXCEPT !.to = @ \ {c}]
         \/ \E d \in Data : /\ d.of = None /\ ~IsReply(d)
                            /\ d.codec = respCodec[c] /\ d.turn = Len(used[c])
                            /\ notice' = [notice EXCEPT !.out = {[conn |-> c, data |-> d]}]
<1>1. notice.resp \in Notices
  BY DEF CastMakes, Owners
<1>2. PICK d : d = MarshalResponse(c, None, notice.resp, 200)
  OBVIOUS
<1>3. d \in Data
  BY <1>1, <1>2, MarshalType DEF Codes
<1>4. /\ d.of = None /\ d.codec = respCodec[c] /\ d.turn = Len(used[c])
      /\ d.code = 200 /\ d.id \in Notices
  BY <1>1, <1>2 DEF MarshalResponse
<1>5. ~IsReply(d)
  BY <1>4, RequestsAssumption DEF IsReply, Ids
<1>. QED
  BY <1>2, <1>3, <1>4, <1>5 DEF CastMakes

LEMMA CastType ==
  ASSUME MsgTypes, Owners,
         \/ \E n \in Notices : Broadcast(n) \/ BroadcastFilter(n) \/ Publish(n) \/ PublishFilter(n)
         \/ \E c \in Peers : CastMakes(c) \/ CastQueues(c)
  PROVE  MsgTypes'
<1>. USE DEF reading, sending, routing, running, casting
<1>1. ASSUME NEW n \in Notices, NEW to \in SUBSET Peers, CastBegins(n, to) PROVE MsgTypes'
  <2>1. PICK unfit \in Unfit : notice' = [resp |-> n, unfit |-> unfit, to |-> to, out |-> {}]
    BY <1>1 DEF CastBegins
  <2>2. unfit \in SUBSET Codecs
    BY DEF Unfit, Codecs
  <2>3. notice' \in Casting
    BY <2>1, <2>2 DEF Casting
  <2>. QED
    BY <1>1, <2>3 DEF CastBegins, MsgTypes
<1>2. ASSUME NEW c \in Peers, CastMakes(c) PROVE MsgTypes'
  <2>1. notice \in Casting
    BY DEF MsgTypes
  <2>2. notice' \in Casting
    BY <1>2, <2>1, CastMakesIs DEF Casting
  <2>. QED
    BY <1>2, <2>2 DEF CastMakes, MsgTypes
<1>3. ASSUME NEW c \in Peers, CastQueues(c) PROVE MsgTypes'
  <2>1. notice \in Casting
    BY DEF MsgTypes
  <2>2. PICK o \in notice.out : o.conn = c /\ Enqueue(c, o.data)
    BY <1>3, Zenon DEF CastQueues
  <2>3. o.data \in Data
    BY <2>1 DEF Casting
  <2>4. sendCh' \in [Peers -> Seq(Data)]
    BY <2>2, <2>3, EnqueueType
  <2>5. notice' = [notice EXCEPT !.to = @ \ {c}, !.out = {}]
    BY <1>3, Zenon DEF CastQueues
  <2>6. notice' \in Casting
    BY <2>1, <2>5 DEF Casting
  <2>7. UNCHANGED <<unsent, cur, respCodec, writing, wire, middleware, handlers, gor, returned,
                    unnoticed, used>>
    BY <1>3, Zenon DEF CastQueues
  <2>. QED
    BY <2>4, <2>6, <2>7 DEF MsgTypes
<1>. QED
  BY <1>1, <1>2, <1>3, ServerAssumption DEF Broadcast, BroadcastFilter, Publish, PublishFilter, Open

LEMMA MsgNextType == MsgTypes /\ Owners /\ [MsgNext]_msgVars => MsgTypes'
<1>. SUFFICES ASSUME MsgTypes, Owners, [MsgNext]_msgVars PROVE MsgTypes'
  OBVIOUS
<1>1. ASSUME UNCHANGED msgVars PROVE MsgTypes'
  BY <1>1 DEF msgVars, MsgTypes, reading, sending, routing, running, casting
<1>. QED
  BY <1>1, ReaderType, WriterType, RunsType, SetupType, CastType DEF MsgNext, Runs

\* readLoop goes back to Read, or keeps the id of the request it has decoded.
LEMMA OwnersKept == MsgTypes /\ Owners /\ [MsgNext]_msgVars => Owners'
<1>. SUFFICES ASSUME MsgTypes, Owners, [MsgNext]_msgVars PROVE Owners'
  OBVIOUS
<1>. USE DEF reading, sending, routing, running, casting
<1>. DEFINE Mine(c) == cur[c].at # "reading" =>
              /\ cur[c].req \in Request
              /\ \E r \in Requests : r.id = cur[c].req.id /\ r.conn = c
            Goes == \A g \in gor : /\ \E r \in Requests : r.id = g.id /\ r.conn = g.conn
                                   /\ \A d \in g.out : d.of = None \/ d.of = g.id
            Casts == /\ notice.to # {} => notice.resp \in Notices
                     /\ \A o \in notice.out : o.data.of = None
<1>0. (\A c \in Peers : Mine(c)) /\ Goes /\ Casts
  BY DEF Owners
<1>1. ASSUME NEW c \in Peers, NEW at, NEW q, cur' = [cur EXCEPT ![c] = [at |-> at, req |-> q]],
             at = "reading" \/ (q \in Request /\ \E r \in Requests : r.id = q.id /\ r.conn = c)
      PROVE  \A d \in Peers : Mine(d)'
  <2>. SUFFICES ASSUME NEW d \in Peers PROVE Mine(d)'
    OBVIOUS
  <2>1. CASE d # c
    BY <1>0, <1>1, <2>1 DEF MsgTypes
  <2>2. CASE d = c
    <3>1. cur'[d].at = at /\ cur'[d].req = q
      BY <1>1, <2>2 DEF MsgTypes
    <3>. QED
      BY <1>1, <2>2, <3>1
  <2>. QED
    BY <2>1, <2>2
<1>2. ASSUME NEW c \in Peers, Read(c) PROVE Owners'
  <2>1. PICK r \in unsent, at \in {"decoding", "closed"} : r.conn = c /\ cur' = [cur EXCEPT ![c] = [at |-> at, req |-> r]]
    BY <1>2 DEF Read
  <2>2. r \in Requests /\ r \in Request
    BY RequestsAreTyped DEF MsgTypes
  <2>3. \A d \in Peers : Mine(d)'
    BY <1>1, <2>1, <2>2
  <2>. QED
    BY <1>0, <1>2, <2>3 DEF Read, Owners
<1>3. ASSUME NEW c \in Peers, TooLarge(c) PROVE Owners'
  <2>1. \A d \in Peers : Mine(d)'
    BY <1>1, <1>3 DEF TooLarge
  <2>. QED
    BY <1>0, <1>3, <2>1 DEF TooLarge, Owners
<1>4. ASSUME NEW c \in Peers, Decode(c) PROVE Owners'
  <2>1. PICK q : q = cur[c].req
    OBVIOUS
  <2>2. q \in Request /\ \E r \in Requests : r.id = q.id /\ r.conn = c
    BY <1>4, <2>1 DEF Decode, Owners
  <2>3. PICK got : \/ cur' = [cur EXCEPT ![c] = [at |-> "routing", req |-> [q EXCEPT !.action = got.action]]]
                     /\ got.action \in Actions \cup {None}
                   \/ cur' = [cur EXCEPT ![c] = [at |-> "reading", req |-> None]]
    BY <1>4, <2>1, <2>2 DEF Decode, UnmarshalRequest, Request
  <2>4. CASE cur' = [cur EXCEPT ![c] = [at |-> "reading", req |-> None]]
    <3>1. \A d \in Peers : Mine(d)'
      BY <1>1, <2>4
    <3>. QED
      BY <1>0, <1>4, <3>1 DEF Decode, Owners
  <2>5. CASE cur' # [cur EXCEPT ![c] = [at |-> "reading", req |-> None]]
    <3>1. PICK p : p = [q EXCEPT !.action = got.action]
      OBVIOUS
    <3>2. p \in Request /\ p.id = q.id
      BY <2>2, <2>3, <2>5, <3>1 DEF Request
    <3>3. cur' = [cur EXCEPT ![c] = [at |-> "routing", req |-> p]]
      BY <2>3, <2>5, <3>1
    <3>4. \E r \in Requests : r.id = p.id /\ r.conn = c
      BY <2>2, <3>2
    <3>5. \A d \in Peers : Mine(d)'
      <4>. HIDE DEF Mine
      <4>. QED
        BY <1>1, <3>2, <3>3, <3>4
    <3>. QED
      BY <1>0, <1>4, <3>5 DEF Decode, Owners
  <2>. QED
    BY <2>4, <2>5
<1>5. ASSUME NEW c \in Peers, Route(c) PROVE Owners'
  <2>1. \A d \in Peers : Mine(d)'
    BY <1>1, <1>5 DEF Route
  <2>2. PICK q : q = cur[c].req
    OBVIOUS
  <2>3. \E r \in Requests : r.id = q.id /\ r.conn = c
    BY <1>5, <2>2 DEF Route, Owners
  <2>4. PICK n : /\ gor' \subseteq gor \cup {n}
                 /\ n = [conn |-> c, id |-> q.id, action |-> q.action, chain |-> Handler(q.action),
                         left |-> HandlerAnswers, out |-> {}]
    BY <1>5, <2>2, Zenon DEF Route
  <2>5. n.conn = c /\ n.id = q.id /\ n.out = {}
    BY <2>4
  <2>6. Goes'
    BY <1>0, <2>3, <2>4, <2>5
  <2>. QED
    BY <1>0, <1>5, <2>1, <2>6 DEF Route, Owners
<1>6. ASSUME NEW c \in Peers, WriterTakes(c) \/ WriterWrites(c) PROVE Owners'
  BY <1>6 DEF WriterTakes, WriterWrites, Owners
<1>7. ASSUME NEW g \in gor, Runs(g) PROVE Owners'
  <2>1. Goes'
    <3>1. CASE HandlerMakes(g) \/ HandlerPanics(g)
      <4>1. PICK h : /\ Becomes(g, h) /\ h.conn = g.conn /\ h.id = g.id
                     /\ \A d \in h.out : d.of = None \/ d.of = g.id
        BY <3>1, MakesIs
      <4>. QED
        BY <1>0, <4>1 DEF Becomes
    <3>2. CASE HandlerQueues(g)
      <4>1. \/ \E h : Becomes(g, h) /\ h.conn = g.conn /\ h.id = g.id /\ h.out = {}
            \/ gor' = gor \ {g}
        BY <3>2, QueuesIs
      <4>. QED
        BY <1>0, <4>1 DEF Becomes
    <3>3. CASE HandlerReturns(g)
      BY <1>0, <3>3 DEF HandlerReturns
    <3>. QED
      BY <1>7, <3>1, <3>2, <3>3 DEF Runs
  <2>2. UNCHANGED <<cur, notice>>
    BY <1>7, RunsKeep
  <2>. QED
    BY <1>0, <2>1, <2>2 DEF Owners
<1>8. ASSUME NEW w \in Middlewares, Use(w) PROVE Owners'
  BY <1>8 DEF Use, Owners
<1>9. ASSUME NEW a \in Actions, Handle(a) PROVE Owners'
  BY <1>9 DEF Handle, Owners
<1>10. ASSUME NEW n \in Notices, NEW to, CastBegins(n, to) PROVE Owners'
  BY <1>10 DEF CastBegins, Owners
<1>11. ASSUME NEW c \in Peers, CastMakes(c) \/ CastQueues(c) PROVE Owners'
  <2>0. notice \in Casting
    BY DEF MsgTypes
  <2>1. CASE CastMakes(c)
    <3>1. CASE notice' = [notice EXCEPT !.to = @ \ {c}]
      BY <1>0, <2>0, <2>1, <3>1 DEF CastMakes, Owners, Casting
    <3>2. CASE notice' # [notice EXCEPT !.to = @ \ {c}]
      <4>1. PICK d \in Data : d.of = None /\ notice' = [notice EXCEPT !.out = {[conn |-> c, data |-> d]}]
        BY <2>1, <3>2, CastMakesIs
      <4>2. Casts'
        BY <1>0, <2>0, <4>1 DEF Casting
      <4>. QED
        BY <1>0, <2>1, <4>2 DEF CastMakes, Owners
    <3>. QED
      BY <3>1, <3>2
  <2>2. CASE CastQueues(c)
    <3>1. Casts'
      BY <1>0, <2>0, <2>2 DEF CastQueues, Casting
    <3>. QED
      BY <1>0, <2>2, <3>1 DEF CastQueues, Owners
  <2>. QED
    BY <1>11, <2>1, <2>2
<1>12. ASSUME UNCHANGED msgVars PROVE Owners'
  BY <1>12 DEF msgVars, Owners
<1>. QED
  BY <1>2, <1>3, <1>4, <1>5, <1>6, <1>7, <1>8, <1>9, <1>10, <1>11, <1>12
     DEF MsgNext, Runs, Broadcast, BroadcastFilter, Publish, PublishFilter

\* Use appends: what was a prefix of the middlewares stays one.
LEMMA PrefixKept ==
  ASSUME NEW S, NEW s \in Seq(S), NEW w \in S, NEW n \in 0..Len(s)
  PROVE  SubSeq(Append(s, w), 1, n) = SubSeq(s, 1, n)
OBVIOUS

LEMMA InPrefixKept ==
  ASSUME MsgTypes, NEW chain, NEW a, InPrefix(chain, a),
         UNCHANGED middleware \/ \E w \in Middlewares : middleware' = Append(middleware, w)
  PROVE  InPrefix(chain, a)'
<1>1. CASE UNCHANGED middleware
  BY <1>1 DEF InPrefix
<1>2. ASSUME NEW w \in Middlewares, middleware' = Append(middleware, w) PROVE InPrefix(chain, a)'
  <2>0. middleware \in Seq(Middlewares)
    BY DEF MsgTypes
  <2>1. PICK n \in 0..Len(middleware) : chain = SubSeq(middleware, 1, n) \o <<a>>
    BY DEF InPrefix
  <2>2. SubSeq(Append(middleware, w), 1, n) = SubSeq(middleware, 1, n)
    BY <2>0, PrefixKept
  <2>3. n \in 0..Len(Append(middleware, w))
    BY <2>0
  <2>. QED
    BY <1>2, <2>1, <2>2, <2>3 DEF InPrefix
<1>. QED
  BY <1>1, <1>2

LEMMA WrappedInPrefix ==
  ASSUME MsgTypes, NEW a \in Actions
  PROVE  InPrefix(Wrapped(a), a)
<1>1. middleware \in Seq(Middlewares)
  BY DEF MsgTypes
<1>2. SubSeq(middleware, 1, Len(middleware)) = middleware /\ Len(middleware) \in 0..Len(middleware)
  BY <1>1
<1>. QED
  BY <1>2 DEF InPrefix, Wrapped

LEMMA ChainsKept == MsgTypes /\ Owners /\ Chains /\ [MsgNext]_msgVars => Chains'
<1>. SUFFICES ASSUME MsgTypes, Owners, Chains, [MsgNext]_msgVars PROVE Chains'
  OBVIOUS
<1>. USE DEF reading, sending, routing, running, casting
<1>1. ASSUME UNCHANGED <<middleware, handlers, gor>> PROVE Chains'
  BY <1>1 DEF Chains, InPrefix
<1>2. ASSUME NEW c \in Peers, Route(c) PROVE Chains'
  <2>1. PICK q : q = cur[c].req
    OBVIOUS
  <2>2. CASE Handler(q.action) = <<>>
    BY <1>1, <1>2, <2>1, <2>2 DEF Route
  <2>3. CASE Handler(q.action) # <<>>
    <3>1. PICK g : /\ g = [conn |-> c, id |-> q.id, action |-> q.action, chain |-> Handler(q.action),
                           left |-> HandlerAnswers, out |-> {}]
                   /\ gor' = gor \cup {g}
      BY <1>2, <2>1, <2>3 DEF Route
    <3>2. g.action = q.action /\ g.chain = Handler(q.action)
      BY <3>1
    <3>3. q.action \in Actions /\ InPrefix(Handler(q.action), q.action)
      BY <2>3 DEF Handler, Chains
    <3>4. UNCHANGED <<middleware, handlers>>
      BY <1>2 DEF Route
    <3>. QED
      BY <3>1, <3>2, <3>3, <3>4 DEF Chains, InPrefix
  <2>. QED
    BY <2>2, <2>3
<1>3. ASSUME NEW g \in gor, Runs(g) PROVE Chains'
  <2>1. UNCHANGED <<middleware, handlers>>
    BY <1>3, RunsKeep
  <2>2. gor' \subseteq gor \/ \E h : Becomes(g, h) /\ h.action = g.action /\ h.chain = g.chain
    <3>1. CASE HandlerMakes(g) \/ HandlerPanics(g)
      BY <3>1, MakesIs
    <3>2. CASE HandlerQueues(g)
      BY <3>2, QueuesIs
    <3>3. CASE HandlerReturns(g)
      BY <3>3 DEF HandlerReturns
    <3>. QED
      BY <1>3, <3>1, <3>2, <3>3 DEF Runs
  <2>. QED
    BY <2>1, <2>2 DEF Becomes, Chains, InPrefix
<1>4. ASSUME NEW w \in Middlewares, Use(w) PROVE Chains'
  <2>1. middleware' = Append(middleware, w) /\ UNCHANGED <<handlers, gor>>
    BY <1>4 DEF Use
  <2>2. \A a \in Actions : InPrefix(handlers[a], a) => InPrefix(handlers[a], a)'
    BY <2>1, InPrefixKept
  <2>3. \A a \in Actions : handlers'[a] = <<>> \/ InPrefix(handlers[a], a)'
    BY <2>1, <2>2 DEF Chains
  <2>4. \A g \in gor : InPrefix(g.chain, g.action)'
    BY <2>1, InPrefixKept DEF Chains
  <2>. QED
    BY <2>1, <2>3, <2>4 DEF Chains
<1>5. ASSUME NEW a \in Actions, Handle(a) PROVE Chains'
  <2>1. handlers' = [handlers EXCEPT ![a] = Wrapped(a)] /\ UNCHANGED <<middleware, gor>>
    BY <1>5 DEF Handle
  <2>2. InPrefix(Wrapped(a), a)
    BY WrappedInPrefix
  <2>3. ASSUME NEW b \in Actions PROVE handlers'[b] = <<>> \/ InPrefix(handlers'[b], b)
    BY <2>1, <2>2 DEF Chains, MsgTypes
  <2>. QED
    BY <2>1, <2>3 DEF Chains, InPrefix
<1>6. ASSUME NEW c \in Peers,
             Read(c) \/ TooLarge(c) \/ Decode(c) \/ WriterTakes(c) \/ WriterWrites(c)
      PROVE  UNCHANGED <<middleware, handlers, gor>>
  BY <1>6, Zenon DEF Read, TooLarge, Decode, WriterTakes, WriterWrites
<1>7. ASSUME NEW c \in Peers, CastMakes(c) \/ CastQueues(c)
      PROVE  UNCHANGED <<middleware, handlers, gor>>
  BY <1>7, Zenon DEF CastMakes, CastQueues
<1>8. ASSUME NEW n \in Notices, Broadcast(n) \/ BroadcastFilter(n) \/ Publish(n) \/ PublishFilter(n)
      PROVE  UNCHANGED <<middleware, handlers, gor>>
  <2>1. PICK to : CastBegins(n, to)
    BY <1>8, Zenon DEF Broadcast, BroadcastFilter, Publish, PublishFilter
  <2>. QED
    BY <2>1, Zenon DEF CastBegins
<1>9. ASSUME UNCHANGED msgVars PROVE Chains'
  BY <1>1, <1>9 DEF msgVars
<1>. QED
  BY <1>1, <1>2, <1>3, <1>4, <1>5, <1>6, <1>7, <1>8, <1>9 DEF MsgNext, Runs

-----------------------------------------------------------------------------
(* WsMessages: responses on their way.                                     *)

\* The responses of connection c, as Answers has them, before the queue.
Written(c) == [i \in DOMAIN wire[c] |-> wire[c][i].data]

LEMMA WrittenType ==
  ASSUME MsgTypes, NEW c \in Peers
  PROVE  Written(c) \in Seq(Data) /\ Len(Written(c)) = Len(wire[c])
<1>1. wire[c] \in Seq(Frame)
  BY DEF MsgTypes
<1>2. DOMAIN wire[c] = 1..Len(wire[c]) /\ \A i \in 1..Len(wire[c]) : wire[c][i] \in Frame
  BY <1>1
<1>3. \A i \in 1..Len(wire[c]) : wire[c][i].data \in Data
  BY <1>2 DEF Frame
<1>. QED
  BY <1>1, <1>2, <1>3 DEF Written

LEMMA AnswersType ==
  ASSUME MsgTypes, NEW c \in Peers
  PROVE  /\ Answers(c) = Written(c) \o writing[c] \o sendCh[c]
         /\ Answers(c) \in Seq(Data)
<1>1. Answers(c) = Written(c) \o writing[c] \o sendCh[c]
  BY DEF Answers, Written
<1>2. writing[c] \in Seq(Data) /\ sendCh[c] \in Seq(Data)
  BY DEF MsgTypes
<1>. QED
  BY <1>1, <1>2, WrittenType

\* The three parts, as constants for the lemmas about sequences.
LEMMA Parts ==
  ASSUME MsgTypes, NEW c \in Peers
  PROVE  \E s, t, u \in Seq(Data) : /\ s = Written(c) /\ t = writing[c] /\ u = sendCh[c]
                                   /\ Answers(c) = s \o t \o u
<1>1. Written(c) \in Seq(Data) /\ Answers(c) = Written(c) \o writing[c] \o sendCh[c]
  BY WrittenType, AnswersType
<1>2. writing[c] \in Seq(Data) /\ sendCh[c] \in Seq(Data)
  BY DEF MsgTypes
<1>. QED
  BY <1>1, <1>2, Zenon

LEMMA FirstOfThree ==
  ASSUME NEW S, NEW s \in Seq(S), NEW t \in Seq(S), NEW u \in Seq(S), NEW i \in 1..Len(s)
  PROVE  i \in DOMAIN (s \o t \o u) /\ (s \o t \o u)[i] = s[i]
OBVIOUS

\* What is written is what Answers begins with.
LEMMA WrittenFirst ==
  ASSUME MsgTypes, NEW c \in Peers, NEW i \in DOMAIN wire[c]
  PROVE  i \in DOMAIN Answers(c) /\ Answers(c)[i] = wire[c][i].data
<1>1. PICK s \in Seq(Data), t \in Seq(Data), u \in Seq(Data) : s = Written(c) /\ Answers(c) = s \o t \o u
  BY Parts
<1>2. wire[c] \in Seq(Frame)
  BY DEF MsgTypes
<1>3. i \in 1..Len(s) /\ s[i] = wire[c][i].data
  BY <1>1, <1>2, WrittenType DEF Written
<1>4. i \in DOMAIN (s \o t \o u) /\ (s \o t \o u)[i] = s[i]
  BY <1>3, FirstOfThree
<1>. QED
  BY <1>1, <1>3, <1>4

\* The same, after a step.
LEMMA WrittenFirstThen ==
  ASSUME MsgTypes', NEW c \in Peers, NEW i \in DOMAIN (wire'[c])
  PROVE  i \in DOMAIN (Answers(c)') /\ (Answers(c)')[i] = wire'[c][i].data
<1>1. PICK s, t, u : /\ s = [k \in DOMAIN (wire'[c]) |-> wire'[c][k].data]
                     /\ t = writing'[c] /\ u = sendCh'[c] /\ Answers(c)' = s \o t \o u
  BY DEF Answers
<1>2. wire'[c] \in Seq(Frame) /\ t \in Seq(Data) /\ u \in Seq(Data)
  BY <1>1 DEF MsgTypes
<1>3. \A k \in 1..Len(wire'[c]) : wire'[c][k].data \in Data
  <2>1. \A k \in 1..Len(wire'[c]) : wire'[c][k] \in Frame
    BY <1>2
  <2>. QED
    BY <2>1 DEF Frame
<1>4. s \in Seq(Data) /\ i \in 1..Len(s) /\ s[i] = wire'[c][i].data
  <2>1. DOMAIN (wire'[c]) = 1..Len(wire'[c]) /\ Len(wire'[c]) \in Nat
    BY <1>2
  <2>2. PICK n \in Nat : n = Len(wire'[c])
    BY <2>1
  <2>3. s = [k \in 1..n |-> wire'[c][k].data] /\ \A k \in 1..n : s[k] = wire'[c][k].data
    BY <1>1, <2>1, <2>2, Zenon
  <2>4. \A k \in 1..n : s[k] \in Data
    BY <1>3, <2>2, <2>3, Zenon
  <2>5. DOMAIN s = 1..n
    BY <2>3, Zenon
  <2>6. s = [k \in 1..n |-> s[k]]
    BY <2>3, <2>5
  <2>7. s \in Seq(Data) /\ Len(s) = n
    BY <2>4, <2>6
  <2>. QED
    BY <2>1, <2>2, <2>3, <2>7
<1>5. i \in DOMAIN (s \o t \o u) /\ (s \o t \o u)[i] = s[i]
  BY <1>2, <1>4, FirstOfThree
<1>. QED
  BY <1>1, <1>4, <1>5

LEMMA SameAnswers ==
  ASSUME UNCHANGED <<sendCh, writing, wire>>, NEW c
  PROVE  Answers(c)' = Answers(c)
BY DEF Answers

\* A response that is queued comes last, and disturbs no other connection.
LEMMA QueuedLast ==
  ASSUME MsgTypes, NEW c \in Peers, NEW d \in Data,
         sendCh' = [sendCh EXCEPT ![c] = Append(@, d)], UNCHANGED <<writing, wire>>
  PROVE  /\ Answers(c)' = Append(Answers(c), d)
         /\ \A e \in Peers : e # c => Answers(e)' = Answers(e)
<1>1. sendCh'[c] = Append(sendCh[c], d)
  BY DEF MsgTypes
<1>2. Written(c)' = Written(c)
  BY DEF Written
<1>3. Answers(c)' = Written(c) \o writing[c] \o Append(sendCh[c], d)
  BY <1>1, <1>2 DEF Answers, Written
<1>4. PICK s \in Seq(Data), t \in Seq(Data), u \in Seq(Data) :
        s = Written(c) /\ t = writing[c] /\ u = sendCh[c] /\ Answers(c) = s \o t \o u
  BY Parts
<1>5. Answers(c)' = Append(Answers(c), d)
  <2>1. s \o t \o Append(u, d) = Append(s \o t \o u, d)
    OBVIOUS
  <2>. QED
    BY <1>3, <1>4, <2>1, Zenon
<1>6. ASSUME NEW e \in Peers, e # c PROVE Answers(e)' = Answers(e)
  <2>1. sendCh'[e] = sendCh[e]
    BY <1>6 DEF MsgTypes
  <2>. QED
    BY <2>1 DEF Answers
<1>. QED
  BY <1>5, <1>6

LEMMA MoveFirst ==
  ASSUME NEW S, NEW s \in Seq(S), NEW u \in Seq(S), u # <<>>
  PROVE  s \o <<Head(u)>> \o Tail(u) = s \o <<>> \o u
OBVIOUS

LEMMA MoveOn ==
  ASSUME NEW S, NEW s \in Seq(S), NEW t \in Seq(S), NEW u \in Seq(S), Len(t) = 1
  PROVE  Append(s, t[1]) \o <<>> \o u = s \o t \o u
<1>1. t = <<t[1]>> /\ t[1] \in S
  OBVIOUS
<1>2. Append(s, t[1]) \o <<>> = Append(s, t[1]) /\ s \o <<t[1]>> = Append(s, t[1])
  BY <1>1
<1>. QED
  BY <1>1, <1>2

\* writeLoop neither loses, repeats nor reorders responses.
LEMMA WriterKeepsAnswers ==
  ASSUME MsgTypes, WriterInv, NEW c \in Peers, WriterTakes(c) \/ WriterWrites(c)
  PROVE  \A e \in Peers : Answers(e)' = Answers(e)
<1>. SUFFICES ASSUME NEW e \in Peers PROVE Answers(e)' = Answers(e)
  OBVIOUS
<1>0. MsgTypes'
  BY WriterType
<1>1. CASE e # c
  <2>1. sendCh'[e] = sendCh[e] /\ writing'[e] = writing[e] /\ wire'[e] = wire[e]
    BY <1>1 DEF WriterTakes, WriterWrites, MsgTypes, sending
  <2>. QED
    BY <2>1 DEF Answers
<1>2. CASE e = c /\ WriterTakes(c)
  <2>1. sendCh[c] \in Seq(Data) /\ sendCh[c] # <<>>
    BY <1>2 DEF WriterTakes, MsgTypes
  <2>2. sendCh'[c] = Tail(sendCh[c]) /\ writing'[c] = <<Head(sendCh[c])>> /\ writing[c] = <<>>
    BY <1>2 DEF WriterTakes, MsgTypes
  <2>3. Written(c)' = Written(c)
    BY <1>2 DEF WriterTakes, Written
  <2>4. Answers(c)' = Written(c) \o <<Head(sendCh[c])>> \o Tail(sendCh[c])
    BY <2>2, <2>3 DEF Answers, Written
  <2>5. Answers(c) = Written(c) \o <<>> \o sendCh[c]
    BY <2>2, AnswersType
  <2>. QED
    BY <1>2, <2>1, <2>4, <2>5, WrittenType, MoveFirst
<1>3. CASE e = c /\ WriterWrites(c)
  <2>1. writing[c] \in Seq(Data) /\ sendCh[c] \in Seq(Data) /\ wire[c] \in Seq(Frame)
    BY DEF MsgTypes
  <2>2. Len(writing[c]) = 1
    <3>1. writing[c] # <<>> /\ Len(writing[c]) <= 1
      BY <1>3 DEF WriterWrites, WriterInv
    <3>2. \A t \in Seq(Data) : t # <<>> => Len(t) \in Nat /\ Len(t) >= 1
      OBVIOUS
    <3>3. Len(writing[c]) \in Nat /\ Len(writing[c]) >= 1
      BY <2>1, <3>1, <3>2, Zenon
    <3>4. \A n \in Nat : n >= 1 /\ n <= 1 => n = 1
      OBVIOUS
    <3>. QED
      BY <3>1, <3>3, <3>4, Zenon
  <2>3. PICK f : /\ f = [data |-> writing[c][1], turn |-> Len(used[c]), frame |-> MessageType(respCodec[c])]
                 /\ wire'[c] = Append(wire[c], f)
    BY <1>3 DEF WriterWrites, MsgTypes
  <2>4. writing'[c] = <<>> /\ sendCh'[c] = sendCh[c] /\ f.data = writing[c][1]
    BY <1>3, <2>3 DEF WriterWrites, MsgTypes, sending
  <2>5. Written(c)' = Append(Written(c), writing[c][1])
    <3>1. Len(wire'[c]) = Len(wire[c]) + 1
      BY <2>1, <2>3
    <3>2. Written(c)' \in Seq(Data) /\ Len(Written(c)') = Len(wire[c]) + 1
      <4>1. wire'[c] \in Seq(Frame)
        BY <1>0 DEF MsgTypes
      <4>2. \A i \in 1..Len(wire'[c]) : wire'[c][i] \in Frame
        BY <4>1
      <4>3. \A i \in 1..Len(wire'[c]) : wire'[c][i].data \in Data
        BY <4>2 DEF Frame
      <4>. QED
        BY <3>1, <4>1, <4>3 DEF Written
    <3>3. writing[c][1] \in Data
      BY <2>1, <2>2
    <3>4. Append(Written(c), writing[c][1]) \in Seq(Data)
          /\ Len(Append(Written(c), writing[c][1])) = Len(wire[c]) + 1
      BY <3>3, WrittenType
    <3>5. ASSUME NEW i \in 1 .. Len(wire[c]) + 1
          PROVE  (Written(c)')[i] = Append(Written(c), writing[c][1])[i]
      <4>1. (Written(c)')[i] = wire'[c][i].data
        BY <2>1, <2>3, <3>1 DEF Written
      <4>2. CASE i = Len(wire[c]) + 1
        <5>1. wire'[c][i] = f
          BY <2>1, <2>3, <4>2
        <5>. QED
          BY <2>4, <3>3, <4>1, <4>2, <5>1, WrittenType
      <4>3. CASE i # Len(wire[c]) + 1
        <5>1. i \in 1..Len(wire[c])
          BY <2>1, <4>3
        <5>2. wire'[c][i] = wire[c][i] /\ Written(c)[i] = wire[c][i].data
          BY <2>1, <2>3, <5>1 DEF Written
        <5>. QED
          BY <3>3, <4>1, <5>1, <5>2, WrittenType
      <4>. QED
        BY <4>2, <4>3
    <3>. QED
      BY <3>2, <3>4, <3>5
  <2>6. Answers(c)' = Append(Written(c), writing[c][1]) \o <<>> \o sendCh[c]
    BY <2>4, <2>5 DEF Answers, Written
  <2>7. PICK s \in Seq(Data), t \in Seq(Data), u \in Seq(Data) :
          s = Written(c) /\ t = writing[c] /\ u = sendCh[c] /\ Answers(c) = s \o t \o u
    BY Parts
  <2>8. Append(s, t[1]) \o <<>> \o u = s \o t \o u
    <3>1. Len(t) = 1
      BY <2>2, <2>7, Zenon
    <3>. QED
      BY <3>1, MoveOn
  <2>. QED
    BY <1>3, <2>6, <2>7, <2>8, Zenon
<1>. QED
  BY <1>1, <1>2, <1>3

\* What Enqueue does: queue the response, or note that it was refused.
LEMMA EnqueueCases ==
  ASSUME MsgTypes, NEW c \in Peers, NEW d \in Data, Enqueue(c, d), UNCHANGED <<writing, wire>>
  PROVE  \/ /\ Answers(c)' = Append(Answers(c), d)
            /\ \A e \in Peers : e # c => Answers(e)' = Answers(e)
            /\ UNCHANGED lost
         \/ /\ \A e \in Peers : Answers(e)' = Answers(e)
            /\ lost' = lost \cup {<<c, d.of>>}
<1>1. CASE sendCh' = [sendCh EXCEPT ![c] = Append(@, d)] /\ UNCHANGED lost
  BY <1>1, QueuedLast
<1>2. CASE lost' = lost \cup {<<c, d.of>>} /\ UNCHANGED sendCh
  BY <1>2, SameAnswers
<1>. QED
  BY <1>1, <1>2 DEF Enqueue

\* Enqueue moves one request to one place, or none, and leaves the others alone.
LEMMA EnqueuePlaces ==
  ASSUME MsgTypes, OneAnswer, NEW c \in Peers, NEW d \in Data, Enqueue(c, d), UNCHANGED <<writing, wire>>,
         \A r \in Requests : r.id = d.of => r.conn = c /\ ~Answered(r) /\ ~Refused(r)
  PROVE  /\ OneAnswer'
         /\ \A r \in Requests : r.id # d.of => /\ Answered(r)' <=> Answered(r)
                                               /\ Refused(r)' <=> Refused(r)
         /\ \A r \in Requests : r.id = d.of => /\ Answered(r)' \/ Refused(r)'
                                               /\ ~(Answered(r)' /\ Refused(r)')
<1>0. \A r \in Requests : r.conn \in Peers
  BY RequestsAreTyped DEF Request
<1>1. ASSUME Answers(c)' = Append(Answers(c), d), UNCHANGED lost,
             \A e \in Peers : e # c => Answers(e)' = Answers(e)
      PROVE  /\ OneAnswer'
             /\ \A r \in Requests : /\ Answered(r)' <=> Answered(r) \/ r.id = d.of
                                    /\ Refused(r)' <=> Refused(r)
  <2>1. PICK a \in Seq(Data) : a = Answers(c)
    BY AnswersType
  <2>2. /\ DOMAIN Append(a, d) = 1 .. Len(a) + 1 /\ DOMAIN a = 1..Len(a) /\ Len(a) \in Nat
        /\ Append(a, d)[Len(a) + 1] = d
        /\ \A i \in 1..Len(a) : Append(a, d)[i] = a[i]
    OBVIOUS
  <2>3. ASSUME NEW r \in Requests PROVE Answered(r)' <=> Answered(r) \/ r.id = d.of
    <3>1. CASE r.conn # c
      BY <1>0, <1>1, <3>1 DEF Answered
    <3>2. CASE r.conn = c
      <4>1. Answered(r) <=> \E i \in 1..Len(a) : a[i].of = r.id
        BY <2>1, <2>2, <3>2 DEF Answered
      <4>2. Answered(r)' <=> \E i \in 1 .. Len(a) + 1 : Append(a, d)[i].of = r.id
        BY <1>1, <2>1, <2>2, <3>2 DEF Answered
      <4>3. \A i \in 1 .. Len(a) + 1 : i \in 1..Len(a) \/ i = Len(a) + 1
        BY <2>2
      <4>4. Len(a) + 1 \in 1 .. Len(a) + 1 /\ \A i \in 1..Len(a) : i \in 1 .. Len(a) + 1
        BY <2>2
      <4>5. ASSUME Answered(r) PROVE Answered(r)'
        BY <2>2, <4>1, <4>2, <4>4, <4>5
      <4>6. ASSUME r.id = d.of PROVE Answered(r)'
        BY <1>1, <2>2, <4>2, <4>4, <4>6
      <4>7. ASSUME Answered(r)' PROVE Answered(r) \/ r.id = d.of
        <5>1. PICK i \in 1 .. Len(a) + 1 : Append(a, d)[i].of = r.id
          BY <4>2, <4>7
        <5>. QED
          BY <1>1, <2>2, <4>1, <4>3, <5>1
      <4>. QED
        BY <4>5, <4>6, <4>7
    <3>. QED
      BY <3>1, <3>2
  <2>4. ASSUME NEW r \in Requests PROVE Refused(r)' <=> Refused(r)
    BY <1>1 DEF Refused
  <2>5. ASSUME NEW e \in Peers, NEW i \in DOMAIN (Answers(e)'), NEW j \in DOMAIN (Answers(e)'),
               (Answers(e)')[i].of = (Answers(e)')[j].of, (Answers(e)')[i].of \in Ids
        PROVE  i = j
    <3>1. CASE e # c
      BY <1>1, <2>5, <3>1 DEF OneAnswer
    <3>2. CASE e = c
      <4>1. d.of \in Ids => \A k \in 1..Len(a) : a[k].of # d.of
        <5>. SUFFICES ASSUME d.of \in Ids, NEW k \in 1..Len(a) PROVE a[k].of # d.of
          OBVIOUS
        <5>1. PICK r \in Requests : r.id = d.of
          BY DEF Ids
        <5>2. r.conn = c /\ ~Answered(r)
          BY <5>1
        <5>3. \A l \in DOMAIN a : a[l].of # r.id
          BY <2>1, <5>2, Zenon DEF Answered
        <5>. QED
          BY <2>2, <5>1, <5>3
      <4>2. /\ i \in 1 .. Len(a) + 1 /\ j \in 1 .. Len(a) + 1
            /\ Append(a, d)[i].of = Append(a, d)[j].of /\ Append(a, d)[i].of \in Ids
        BY <1>1, <2>1, <2>2, <2>5, <3>2
      <4>3. CASE i = Len(a) + 1 \/ j = Len(a) + 1
        <5>1. d.of \in Ids
          BY <1>1, <2>2, <4>2, <4>3
        <5>2. \A k \in 1 .. Len(a) + 1 : k \in 1..Len(a) \/ k = Len(a) + 1
          BY <2>2
        <5>. QED
          BY <1>1, <2>2, <4>1, <4>2, <4>3, <5>1, <5>2
      <4>4. CASE i # Len(a) + 1 /\ j # Len(a) + 1
        <5>1. i \in 1..Len(a) /\ j \in 1..Len(a)
          BY <2>2, <4>2, <4>4
        <5>2. a[i].of = a[j].of /\ a[i].of \in Ids
          BY <2>2, <4>2, <5>1
        <5>. QED
          BY <2>1, <2>2, <5>1, <5>2 DEF OneAnswer
      <4>. QED
        BY <4>3, <4>4
    <3>. QED
      BY <3>1, <3>2
  <2>. QED
    BY <2>3, <2>4, <2>5 DEF OneAnswer
<1>2. ASSUME \A e \in Peers : Answers(e)' = Answers(e), lost' = lost \cup {<<c, d.of>>}
      PROVE  /\ OneAnswer'
             /\ \A r \in Requests : /\ Answered(r)' <=> Answered(r)
                                    /\ Refused(r)' <=> Refused(r) \/ r.id = d.of
  <2>1. OneAnswer'
    BY <1>2 DEF OneAnswer
  <2>2. ASSUME NEW r \in Requests PROVE Answered(r)' <=> Answered(r)
    BY <1>0, <1>2 DEF Answered
  <2>3. ASSUME NEW r \in Requests PROVE Refused(r)' <=> Refused(r) \/ r.id = d.of
    BY <1>2 DEF Refused
  <2>. QED
    BY <2>1, <2>2, <2>3
<1>. QED
  BY <1>1, <1>2, EnqueueCases

LEMMA EnqueueBound ==
  ASSUME MsgTypes, QueueBound, NEW c \in Peers, NEW e, Enqueue(c, e)
  PROVE  QueueBound'
<1>1. CASE UNCHANGED sendCh
  BY <1>1 DEF QueueBound
<1>2. CASE sendCh' # sendCh
  <2>1. PICK d : sendCh' = [sendCh EXCEPT ![c] = Append(@, d)] /\ Len(sendCh[c]) < QueueSize
    BY <1>2 DEF Enqueue
  <2>2. sendCh[c] \in Seq(Data)
    BY DEF MsgTypes
  <2>3. Len(Append(sendCh[c], d)) = Len(sendCh[c]) + 1 /\ Len(sendCh[c]) \in Nat
    BY <2>2
  <2>4. Len(Append(sendCh[c], d)) <= QueueSize
    BY <2>1, <2>3, ServerAssumption
  <2>. QED
    BY <2>1, <2>4 DEF MsgTypes, QueueBound
<1>. QED
  BY <1>1, <1>2

-----------------------------------------------------------------------------
(* WsMessages: a request moves from place to place.                        *)

\* Steps that move no request.
LEMMA NothingMoves ==
  ASSUME PlaceInv, UNCHANGED <<unsent, lost, returned>>, \A c \in Peers : Answers(c)' = Answers(c),
         \A r \in Requests : (InReader(r)' <=> InReader(r)) /\ (InHandler(r)' <=> InHandler(r)),
         OneGoroutine', QueueBound', WriterInv'
  PROVE  PlaceInv'
<1>0. \A r \in Requests : r.conn \in Peers
  BY RequestsAreTyped DEF Request
<1>1. OneAnswer'
  BY DEF PlaceInv, OneAnswer
<1>2. \A r \in Requests : /\ Answered(r)' <=> Answered(r)
                          /\ Refused(r)' <=> Refused(r)
                          /\ Returned(r)' <=> Returned(r)
  BY <1>0 DEF Answered, Refused, Returned
<1>3. OnePlace'
  BY <1>2 DEF PlaceInv, OnePlace, AtOne, ExactlyOne
<1>. QED
  BY <1>1, <1>3 DEF PlaceInv

LEMMA ReadPlaces ==
  ASSUME MsgTypes, PlaceInv, NEW c \in Peers, Read(c)
  PROVE  PlaceInv'
<1>. USE DEF sending, routing, running, casting
<1>0. \A r \in Requests : r.conn \in Peers
  BY RequestsAreTyped DEF Request
<1>1. PICK s \in unsent, at \in {"decoding", "closed"} :
           /\ s.conn = c
           /\ cur' = [cur EXCEPT ![c] = [at |-> at, req |-> s]]
           /\ unsent' = unsent \ {s}
  BY DEF Read
<1>2. /\ UNCHANGED <<respCodec, sendCh, lost, writing, wire, gor, returned>>
      /\ cur[c].at = "reading"
  BY DEF Read
<1>3. s \in Requests
  BY DEF MsgTypes
<1>4. \A d \in Peers : Answers(d)' = Answers(d)
  BY <1>2, SameAnswers
<1>5. OneGoroutine' /\ OneAnswer' /\ QueueBound' /\ WriterInv'
  BY <1>2, <1>4 DEF PlaceInv, OneGoroutine, OneAnswer, QueueBound, WriterInv
<1>6. ASSUME NEW r \in Requests
      PROVE  AtOne(r)'
  <2>1. /\ InHandler(r)' <=> InHandler(r)
        /\ Answered(r)' <=> Answered(r)
        /\ Refused(r)' <=> Refused(r)
        /\ Returned(r)' <=> Returned(r)
    BY <1>0, <1>2, <1>4 DEF InHandler, Answered, Refused, Returned
  <2>2. AtOne(r)
    BY DEF PlaceInv, OnePlace
  <2>3. CASE r.conn # c
    <3>1. r # s /\ cur'[r.conn] = cur[r.conn]
      BY <1>0, <1>1, <2>3 DEF MsgTypes
    <3>2. (r \in unsent' <=> r \in unsent) /\ (InReader(r)' <=> InReader(r))
      BY <1>1, <3>1 DEF InReader
    <3>. QED
      BY <2>1, <2>2, <3>2, Zenon DEF AtOne, ExactlyOne
  <2>4. CASE r.conn = c
    <3>1. cur'[c].at # "reading" /\ cur'[c].req = s
      BY <1>1 DEF MsgTypes
    <3>2. (InReader(r)' <=> r = s) /\ ~InReader(r)
      BY <1>2, <1>3, <2>4, <3>1, SameId DEF InReader
    <3>3. r \in unsent' <=> r \in unsent /\ r # s
      BY <1>1
    <3>. QED
      BY <1>1, <2>1, <2>2, <3>2, <3>3, Zenon DEF AtOne, ExactlyOne
  <2>. QED
    BY <2>3, <2>4
<1>7. OnePlace'
  BY <1>6 DEF OnePlace
<1>. QED
  BY <1>5, <1>7 DEF PlaceInv

\* TooLarge, and Decode and Route where they fail: readLoop answers.
LEMMA ReaderAnswersPlaces ==
  ASSUME MsgTypes, Owners, PlaceInv, NEW c \in Peers, cur[c].at # "reading",
         NEW code \in Codes, SendResp(c, cur[c].req.id, code),
         cur' = [cur EXCEPT ![c] = [at |-> "reading", req |-> None]],
         UNCHANGED <<unsent, writing, wire, gor, returned>>
  PROVE  PlaceInv'
<1>0. \A r \in Requests : r.conn \in Peers
  BY RequestsAreTyped DEF Request
<1>1. PICK s \in Requests : s.id = cur[c].req.id /\ s.conn = c
  BY DEF Owners
<1>2. PICK d \in Data : d.of = s.id /\ Enqueue(c, d)
  <2>1. s.id \in Ids /\ SendResp(c, s.id, code)
    BY <1>1 DEF Ids
  <2>. QED
    BY <2>1, SendRespIs
<1>3. InReader(s) /\ ~Answered(s) /\ ~Refused(s)
  <2>1. InReader(s)
    BY <1>1 DEF InReader
  <2>2. AtOne(s)
    BY DEF PlaceInv, OnePlace
  <2>. QED
    BY <2>1, <2>2 DEF AtOne, ExactlyOne
<1>4. \A r \in Requests : r.id = s.id => r.conn = c /\ ~Answered(r) /\ ~Refused(r)
  BY <1>1, <1>3, SameId
<1>5. /\ OneAnswer'
      /\ \A r \in Requests : r.id # s.id => /\ Answered(r)' <=> Answered(r)
                                            /\ Refused(r)' <=> Refused(r)
      /\ \A r \in Requests : r.id = s.id => /\ Answered(r)' \/ Refused(r)'
                                            /\ ~(Answered(r)' /\ Refused(r)')
  <2>1. OneAnswer
    BY DEF PlaceInv
  <2>. QED
    BY <1>2, <1>4, <2>1, EnqueuePlaces
<1>6. OneGoroutine' /\ QueueBound' /\ WriterInv'
  BY <1>2, EnqueueBound DEF PlaceInv, OneGoroutine, WriterInv
<1>7. ASSUME NEW r \in Requests
      PROVE  AtOne(r)'
  <2>1. (r \in unsent' <=> r \in unsent) /\ (InHandler(r)' <=> InHandler(r)) /\ (Returned(r)' <=> Returned(r))
    BY DEF InHandler, Returned
  <2>2. AtOne(r)
    BY DEF PlaceInv, OnePlace
  <2>3. InReader(r)' <=> InReader(r) /\ r # s
    <3>1. CASE r.conn # c
      <4>1. cur'[r.conn] = cur[r.conn]
        BY <1>0, <3>1 DEF MsgTypes
      <4>. QED
        BY <1>1, <3>1, <4>1 DEF InReader
    <3>2. CASE r.conn = c
      <4>1. cur'[c].at = "reading"
        BY DEF MsgTypes
      <4>. QED
        BY <1>1, <3>2, <4>1, SameId DEF InReader
    <3>. QED
      BY <3>1, <3>2
  <2>4. CASE r = s
    <3>1. (Answered(r)' \/ Refused(r)') /\ ~(Answered(r)' /\ Refused(r)')
      BY <1>5, <2>4
    <3>2. InReader(r)
      BY <1>3, <2>4
    <3>. QED
      BY <2>1, <2>2, <2>3, <2>4, <3>1, <3>2, Zenon DEF AtOne, ExactlyOne
  <2>5. CASE r # s
    <3>1. r.id # s.id
      BY <2>5, SameId
    <3>2. (Answered(r)' <=> Answered(r)) /\ (Refused(r)' <=> Refused(r))
      BY <1>5, <3>1
    <3>. QED
      BY <2>1, <2>2, <2>3, <2>5, <3>2, Zenon DEF AtOne, ExactlyOne
  <2>. QED
    BY <2>4, <2>5
<1>8. OnePlace'
  BY <1>7 DEF OnePlace
<1>. QED
  BY <1>5, <1>6, <1>8 DEF PlaceInv

\* Decode where it succeeds keeps the request in readLoop.
LEMMA DecodePlaces ==
  ASSUME MsgTypes, Owners, PlaceInv, NEW c \in Peers, Decode(c)
  PROVE  PlaceInv'
<1>. USE DEF routing, running, casting
<1>0. \A r \in Requests : r.conn \in Peers
  BY RequestsAreTyped DEF Request
<1>1. PICK q : q = cur[c].req
  OBVIOUS
<1>2. cur[c].at = "decoding" /\ q \in Request
  BY <1>1 DEF Decode, Owners
<1>3. UNCHANGED <<unsent, writing, wire, gor, returned>>
  BY DEF Decode
<1>4. PICK got : \/ /\ cur' = [cur EXCEPT ![c] = [at |-> "routing", req |-> [q EXCEPT !.action = got.action]]]
                    /\ UNCHANGED <<sendCh, lost>>
                 \/ /\ SendResp(c, q.id, 400)
                    /\ cur' = [cur EXCEPT ![c] = [at |-> "reading", req |-> None]]
  BY <1>1 DEF Decode
<1>5. ASSUME cur' = [cur EXCEPT ![c] = [at |-> "routing", req |-> [q EXCEPT !.action = got.action]]],
             UNCHANGED <<sendCh, lost>>
      PROVE  PlaceInv'
  <2>1. PICK p : p = [q EXCEPT !.action = got.action]
    OBVIOUS
  <2>2. p.id = q.id
    BY <1>2, <2>1 DEF Request
  <2>3. cur'[c].at = "routing" /\ cur'[c].req = p /\ \A d \in Peers : d # c => cur'[d] = cur[d]
    BY <1>5, <2>1 DEF MsgTypes
  <2>4. \A r \in Requests : InReader(r)' <=> InReader(r)
    BY <1>0, <1>1, <1>2, <2>2, <2>3 DEF InReader
  <2>5. QueueBound' /\ WriterInv' /\ \A d \in Peers : Answers(d)' = Answers(d)
    BY <1>3, <1>5, SameAnswers DEF PlaceInv, QueueBound, WriterInv
  <2>6. OneGoroutine' /\ \A r \in Requests : InHandler(r)' <=> InHandler(r)
    BY <1>3 DEF PlaceInv, OneGoroutine, InHandler
  <2>. QED
    BY <1>3, <1>5, <2>4, <2>5, <2>6, NothingMoves
<1>6. ASSUME SendResp(c, q.id, 400), cur' = [cur EXCEPT ![c] = [at |-> "reading", req |-> None]]
      PROVE  PlaceInv'
  <2>1. 400 \in Codes /\ cur[c].at # "reading"
    BY <1>2 DEF Codes
  <2>. QED
    BY ZenonT(60), <1>1, <1>3, <1>6, <2>1, ReaderAnswersPlaces
<1>. QED
  BY <1>4, <1>5, <1>6, Zenon

\* Route where there is a handler: a goroutine takes the request over.
LEMMA RoutePlaces ==
  ASSUME MsgTypes, Owners, PlaceInv, NEW c \in Peers, Route(c)
  PROVE  PlaceInv'
<1>. USE DEF routing, running, casting
<1>0. \A r \in Requests : r.conn \in Peers
  BY RequestsAreTyped DEF Request
<1>1. PICK q : q = cur[c].req
  OBVIOUS
<1>2. /\ cur[c].at = "routing"
      /\ cur' = [cur EXCEPT ![c] = [at |-> "reading", req |-> None]]
      /\ UNCHANGED <<unsent, writing, wire, returned>>
  BY DEF Route
<1>3. CASE Handler(q.action) = <<>>
  <2>1. 404 \in Codes /\ cur[c].at # "reading"
    BY <1>2 DEF Codes
  <2>2. SendResp(c, cur[c].req.id, 404) /\ UNCHANGED gor
    BY <1>1, <1>3 DEF Route
  <2>. QED
    BY ZenonT(60), <1>2, <2>1, <2>2, ReaderAnswersPlaces
<1>4. CASE Handler(q.action) # <<>>
  <2>1. PICK n : /\ n = [conn |-> c, id |-> q.id, action |-> q.action, chain |-> Handler(q.action),
                         left |-> HandlerAnswers, out |-> {}]
                 /\ gor' = gor \cup {n}
    BY <1>1, <1>4 DEF Route
  <2>2. n.id = q.id /\ UNCHANGED <<sendCh, lost>>
    BY <1>1, <1>4, <2>1 DEF Route
  <2>3. PICK s \in Requests : s.id = q.id /\ s.conn = c
    BY <1>1, <1>2 DEF Owners
  <2>4. InReader(s) /\ ~InHandler(s)
    <3>1. InReader(s)
      BY <1>1, <1>2, <2>3 DEF InReader
    <3>2. AtOne(s)
      BY DEF PlaceInv, OnePlace
    <3>. QED
      BY <3>1, <3>2 DEF AtOne, ExactlyOne
  <2>5. OneGoroutine'
    <3>1. \A g \in gor : g.id # n.id
      BY <2>2, <2>3, <2>4 DEF InHandler
    <3>. QED
      BY <2>1, <3>1 DEF PlaceInv, OneGoroutine
  <2>6. \A d \in Peers : Answers(d)' = Answers(d)
    BY <1>2, <2>2, SameAnswers
  <2>7. OneAnswer' /\ QueueBound' /\ WriterInv'
    BY <1>2, <2>2, <2>6 DEF PlaceInv, OneAnswer, QueueBound, WriterInv
  <2>8. ASSUME NEW r \in Requests
        PROVE  AtOne(r)'
    <3>1. AtOne(r)
      BY DEF PlaceInv, OnePlace
    <3>2. /\ r \in unsent' <=> r \in unsent
          /\ Answered(r)' <=> Answered(r)
          /\ Refused(r)' <=> Refused(r)
          /\ Returned(r)' <=> Returned(r)
      BY <1>0, <1>2, <2>2, <2>6 DEF Answered, Refused, Returned
    <3>3. InHandler(r)' <=> InHandler(r) \/ r = s
      BY <2>1, <2>2, <2>3, SameId DEF InHandler
    <3>4. InReader(r)' <=> InReader(r) /\ r # s
      <4>1. CASE r.conn # c
        <5>1. cur'[r.conn] = cur[r.conn]
          BY <1>0, <1>2, <4>1 DEF MsgTypes
        <5>. QED
          BY <2>3, <4>1, <5>1 DEF InReader
      <4>2. CASE r.conn = c
        <5>1. cur'[c].at = "reading"
          BY <1>2 DEF MsgTypes
        <5>. QED
          BY <1>1, <2>3, <4>2, <5>1, SameId DEF InReader
      <4>. QED
        BY <4>1, <4>2
    <3>5. CASE r = s
      <4>1. InReader(r)
        BY <2>4, <3>5
      <4>. QED
        BY <3>1, <3>2, <3>3, <3>4, <3>5, <4>1, Zenon DEF AtOne, ExactlyOne
    <3>6. CASE r # s
      BY <3>1, <3>2, <3>3, <3>4, <3>6, Zenon DEF AtOne, ExactlyOne
    <3>. QED
      BY <3>5, <3>6
  <2>9. OnePlace'
    BY <2>8 DEF OnePlace
  <2>. QED
    BY <2>5, <2>7, <2>9 DEF PlaceInv
<1>. QED
  BY <1>3, <1>4

\* A goroutine that goes on moves nothing.
LEMMA GoesOnPlaces ==
  ASSUME PlaceInv, NEW g \in gor, NEW h, Becomes(g, h), h.id = g.id
  PROVE  OneGoroutine' /\ \A r \in Requests : InHandler(r)' <=> InHandler(r)
<1>1. OneGoroutine'
  BY DEF PlaceInv, OneGoroutine, Becomes
<1>2. \A r \in Requests : InHandler(r)' <=> InHandler(r)
  BY DEF InHandler, Becomes
<1>. QED
  BY <1>1, <1>2

\* A response of the program's own answers no request: nothing moves.
LEMMA OwnPlaces ==
  ASSUME MsgTypes, PlaceInv, NEW c \in Peers, NEW d \in Data, d.of = None, Enqueue(c, d),
         UNCHANGED <<unsent, cur, writing, wire, returned>>, OneGoroutine',
         \A r \in Requests : InHandler(r)' <=> InHandler(r)
  PROVE  PlaceInv'
<1>1. \A r \in Requests : r.id # d.of
  BY RequestsAssumption
<1>2. /\ OneAnswer'
      /\ \A r \in Requests : r.id # d.of => /\ Answered(r)' <=> Answered(r)
                                            /\ Refused(r)' <=> Refused(r)
  BY <1>1, EnqueuePlaces DEF PlaceInv
<1>3. QueueBound' /\ WriterInv'
  BY EnqueueBound DEF PlaceInv, WriterInv
<1>4. ASSUME NEW r \in Requests PROVE AtOne(r)'
  <2>1. AtOne(r)
    BY DEF PlaceInv, OnePlace
  <2>2. (Answered(r)' <=> Answered(r)) /\ (Refused(r)' <=> Refused(r))
    BY <1>1, <1>2
  <2>3. (r \in unsent' <=> r \in unsent) /\ (InReader(r)' <=> InReader(r)) /\ (Returned(r)' <=> Returned(r))
    BY DEF InReader, Returned
  <2>. QED
    BY <2>1, <2>2, <2>3, Zenon DEF AtOne, ExactlyOne
<1>5. OnePlace'
  BY <1>4 DEF OnePlace
<1>. QED
  BY <1>2, <1>3, <1>5 DEF PlaceInv

\* The answer of recover takes the request from the goroutine, which ends.
LEMMA RecoverPlaces ==
  ASSUME MsgTypes, Owners, PlaceInv, NEW g \in gor, NEW d \in Data, d.of = g.id, Enqueue(g.conn, d),
         gor' = gor \ {g}, UNCHANGED <<unsent, cur, writing, wire, returned>>
  PROVE  PlaceInv'
<1>0. g.conn \in Peers
  BY DEF MsgTypes, Goroutine
<1>1. PICK s \in Requests : s.id = g.id /\ s.conn = g.conn
  BY DEF Owners
<1>4. InHandler(s) /\ ~Answered(s) /\ ~Refused(s)
  <2>1. InHandler(s)
    BY <1>1 DEF InHandler
  <2>2. AtOne(s)
    BY DEF PlaceInv, OnePlace
  <2>. QED
    BY <2>1, <2>2 DEF AtOne, ExactlyOne
<1>5. /\ OneAnswer'
      /\ \A r \in Requests : r.id # s.id => /\ Answered(r)' <=> Answered(r)
                                            /\ Refused(r)' <=> Refused(r)
      /\ \A r \in Requests : r.id = s.id => /\ Answered(r)' \/ Refused(r)'
                                            /\ ~(Answered(r)' /\ Refused(r)')
  <2>1. OneAnswer /\ d.of = s.id
    BY <1>1 DEF PlaceInv
  <2>2. \A r \in Requests : r.id = s.id => r.conn = g.conn /\ ~Answered(r) /\ ~Refused(r)
    BY <1>1, <1>4, SameId
  <2>. QED
    BY <1>0, <2>1, <2>2, EnqueuePlaces
<1>6. OneGoroutine' /\ QueueBound' /\ WriterInv'
  BY <1>0, EnqueueBound DEF PlaceInv, OneGoroutine, WriterInv
<1>7. ASSUME NEW r \in Requests
      PROVE  AtOne(r)'
  <2>1. AtOne(r)
    BY DEF PlaceInv, OnePlace
  <2>2. (r \in unsent' <=> r \in unsent) /\ (InReader(r)' <=> InReader(r)) /\ (Returned(r)' <=> Returned(r))
    BY DEF InReader, Returned
  <2>3. InHandler(r)' <=> InHandler(r) /\ r # s
    BY <1>1, SameId DEF InHandler, PlaceInv, OneGoroutine
  <2>4. CASE r = s
    <3>1. (Answered(r)' \/ Refused(r)') /\ ~(Answered(r)' /\ Refused(r)')
      BY <1>5, <2>4
    <3>2. InHandler(r)
      BY <1>4, <2>4
    <3>. QED
      BY <2>1, <2>2, <2>3, <2>4, <3>1, <3>2, Zenon DEF AtOne, ExactlyOne
  <2>5. CASE r # s
    <3>1. r.id # s.id
      BY <2>5, SameId
    <3>2. (Answered(r)' <=> Answered(r)) /\ (Refused(r)' <=> Refused(r))
      BY <1>5, <3>1
    <3>. QED
      BY <2>1, <2>2, <2>3, <2>5, <3>2, Zenon DEF AtOne, ExactlyOne
  <2>. QED
    BY <2>4, <2>5
<1>8. OnePlace'
  BY <1>7 DEF OnePlace
<1>. QED
  BY <1>5, <1>6, <1>8 DEF PlaceInv

LEMMA ReturnsPlaces ==
  ASSUME MsgTypes, Owners, PlaceInv, NEW g \in gor, HandlerReturns(g)
  PROVE  PlaceInv'
<1>. USE DEF reading, sending, routing, casting
<1>0. \A r \in Requests : r.conn \in Peers
  BY RequestsAreTyped DEF Request
<1>1. PICK s \in Requests : s.id = g.id /\ s.conn = g.conn
  BY DEF Owners
<1>2. /\ gor' = gor \ {g} /\ returned' = returned \cup {s.id}
      /\ UNCHANGED <<unsent, cur, sendCh, lost, writing, wire>>
  BY <1>1 DEF HandlerReturns
<1>3. \A e \in Peers : Answers(e)' = Answers(e)
  BY <1>2, SameAnswers
<1>4. OneGoroutine' /\ OneAnswer' /\ QueueBound' /\ WriterInv'
  BY <1>2, <1>3 DEF PlaceInv, OneGoroutine, OneAnswer, QueueBound, WriterInv
<1>5. ASSUME NEW r \in Requests PROVE AtOne(r)'
  <2>1. AtOne(r) /\ AtOne(s)
    BY DEF PlaceInv, OnePlace
  <2>2. /\ r \in unsent' <=> r \in unsent
        /\ InReader(r)' <=> InReader(r)
        /\ Answered(r)' <=> Answered(r)
        /\ Refused(r)' <=> Refused(r)
    BY <1>0, <1>2, <1>3 DEF InReader, Answered, Refused
  <2>3. InHandler(r)' <=> InHandler(r) /\ r # s
    BY <1>1, <1>2, SameId DEF InHandler, PlaceInv, OneGoroutine
  <2>4. Returned(r)' <=> Returned(r) \/ r = s
    BY <1>2, SameId DEF Returned
  <2>5. InHandler(s)
    BY <1>1 DEF InHandler
  <2>6. CASE r = s
    BY <2>1, <2>2, <2>3, <2>4, <2>5, <2>6, Zenon DEF AtOne, ExactlyOne
  <2>7. CASE r # s
    BY <2>1, <2>2, <2>3, <2>4, <2>7, Zenon DEF AtOne, ExactlyOne
  <2>. QED
    BY <2>6, <2>7
<1>6. OnePlace'
  BY <1>5 DEF OnePlace
<1>. QED
  BY <1>4, <1>6 DEF PlaceInv

LEMMA RunsPlaces ==
  ASSUME MsgTypes, Owners, PlaceInv, NEW g \in gor, Runs(g)
  PROVE  PlaceInv'
<1>. USE DEF reading, sending, routing, casting
<1>0. g.conn \in Peers
  BY DEF MsgTypes, Goroutine
<1>1. CASE HandlerMakes(g) \/ HandlerPanics(g)
  <2>1. UNCHANGED <<unsent, cur, sendCh, lost, writing, wire, returned>>
    BY <1>1, MakesKeep
  <2>2. PICK h : Becomes(g, h) /\ h.id = g.id
    BY <1>1, MakesIs
  <2>3. OneGoroutine' /\ \A r \in Requests : InHandler(r)' <=> InHandler(r)
    BY <2>2, GoesOnPlaces
  <2>4. \A e \in Peers : Answers(e)' = Answers(e)
    BY <2>1, SameAnswers
  <2>5. QueueBound' /\ WriterInv' /\ \A r \in Requests : InReader(r)' <=> InReader(r)
    BY <2>1 DEF PlaceInv, QueueBound, WriterInv, InReader
  <2>. QED
    BY <2>1, <2>3, <2>4, <2>5, NothingMoves
<1>2. CASE HandlerQueues(g)
  <2>1. UNCHANGED <<unsent, cur, writing, wire, returned>>
    BY <1>2 DEF HandlerQueues
  <2>2. PICK d \in g.out :
           /\ d \in Data /\ Enqueue(g.conn, d)
           /\ \/ d.of = None /\ \E h : Becomes(g, h) /\ h.id = g.id
              \/ d.of # None /\ gor' = gor \ {g}
    BY <1>2, QueuesIs
  <2>3. CASE d.of = None /\ \E h : Becomes(g, h) /\ h.id = g.id
    <3>1. OneGoroutine' /\ \A r \in Requests : InHandler(r)' <=> InHandler(r)
      BY <2>3, GoesOnPlaces
    <3>. QED
      BY <1>0, <2>1, <2>2, <2>3, <3>1, OwnPlaces
  <2>4. CASE d.of # None /\ gor' = gor \ {g}
    <3>1. d.of = g.id
      BY <2>2, <2>4 DEF Owners
    <3>. QED
      BY <2>1, <2>2, <2>4, <3>1, RecoverPlaces
  <2>. QED
    BY <2>2, <2>3, <2>4
<1>3. CASE HandlerReturns(g)
  BY <1>3, ReturnsPlaces
<1>. QED
  BY <1>1, <1>2, <1>3 DEF Runs

LEMMA WriterPlaces ==
  ASSUME MsgTypes, PlaceInv, NEW c \in Peers, WriterTakes(c) \/ WriterWrites(c)
  PROVE  PlaceInv'
<1>. USE DEF reading, sending, routing, running, casting
<1>1. \A e \in Peers : Answers(e)' = Answers(e)
  BY WriterKeepsAnswers DEF PlaceInv
<1>2. UNCHANGED <<unsent, cur, gor, lost, returned>>
  BY DEF WriterTakes, WriterWrites
<1>3. WriterInv'
  <2>1. writing'[c] = <<>> \/ \E x : writing'[c] = <<x>>
    BY DEF WriterTakes, WriterWrites, MsgTypes
  <2>2. Len(writing'[c]) <= 1
    <3>1. Len(<<>>) <= 1 /\ \A x : Len(<<x>>) <= 1
      OBVIOUS
    <3>. QED
      BY <2>1, <3>1, Zenon
  <2>3. \A e \in Peers : e # c => writing'[e] = writing[e]
    BY DEF WriterTakes, WriterWrites, MsgTypes
  <2>. QED
    BY <2>2, <2>3 DEF PlaceInv, WriterInv
<1>4. QueueBound'
  <2>1. CASE WriterTakes(c)
    <3>1. sendCh[c] \in Seq(Data) /\ sendCh[c] # <<>>
      BY <2>1 DEF WriterTakes, MsgTypes
    <3>2. \A s \in Seq(Data) : s # <<>> => Len(Tail(s)) = Len(s) - 1 /\ Len(s) \in Nat
      OBVIOUS
    <3>3. Len(Tail(sendCh[c])) = Len(sendCh[c]) - 1 /\ Len(sendCh[c]) \in Nat
      BY <3>1, <3>2, Zenon
    <3>4. Len(Tail(sendCh[c])) <= QueueSize
      BY <3>3, ServerAssumption DEF PlaceInv, QueueBound
    <3>5. sendCh'[c] = Tail(sendCh[c]) /\ \A e \in Peers : e # c => sendCh'[e] = sendCh[e]
      BY <2>1 DEF WriterTakes, MsgTypes
    <3>. QED
      BY <3>4, <3>5 DEF PlaceInv, QueueBound
  <2>2. CASE WriterWrites(c)
    BY <2>2 DEF WriterWrites, PlaceInv, QueueBound
  <2>. QED
    BY <2>1, <2>2
<1>5. /\ OneGoroutine'
      /\ \A r \in Requests : (InReader(r)' <=> InReader(r)) /\ (InHandler(r)' <=> InHandler(r))
  BY <1>2 DEF PlaceInv, OneGoroutine, InReader, InHandler
<1>. QED
  BY <1>1, <1>2, <1>3, <1>4, <1>5, NothingMoves

\* A broadcast is no answer to a request.
LEMMA CastPlaces ==
  ASSUME MsgTypes, Owners, PlaceInv, NEW c \in Peers, CastQueues(c)
  PROVE  PlaceInv'
<1>. USE DEF reading, routing, running, casting
<1>1. PICK o \in notice.out : o.conn = c /\ Enqueue(c, o.data)
  BY DEF CastQueues
<1>2. o.data \in Data /\ o.data.of = None
  BY DEF MsgTypes, Casting, Owners
<1>3. UNCHANGED <<unsent, cur, gor, writing, wire, returned>>
  BY DEF CastQueues
<1>4. OneGoroutine' /\ \A r \in Requests : InHandler(r)' <=> InHandler(r)
  BY <1>3 DEF PlaceInv, OneGoroutine, InHandler
<1>. QED
  BY <1>1, <1>2, <1>3, <1>4, OwnPlaces

LEMMA PlacesKept == MsgTypes /\ Owners /\ PlaceInv /\ [MsgNext]_msgVars => PlaceInv'
<1>. SUFFICES ASSUME MsgTypes, Owners, PlaceInv, [MsgNext]_msgVars PROVE PlaceInv'
  OBVIOUS
<1>. USE DEF reading, sending, routing, running, casting
<1>1. ASSUME UNCHANGED <<unsent, cur, gor, lost, returned, sendCh, writing, wire>> PROVE PlaceInv'
  <2>1. \A c \in Peers : Answers(c)' = Answers(c)
    BY <1>1, SameAnswers
  <2>2. \A r \in Requests : (InReader(r)' <=> InReader(r)) /\ (InHandler(r)' <=> InHandler(r))
    BY <1>1 DEF InReader, InHandler
  <2>3. OneGoroutine' /\ QueueBound' /\ WriterInv'
    BY <1>1 DEF PlaceInv, OneGoroutine, QueueBound, WriterInv
  <2>. QED
    BY <1>1, <2>1, <2>2, <2>3, NothingMoves
<1>2. ASSUME NEW c \in Peers, TooLarge(c) PROVE PlaceInv'
  <2>1. 413 \in Codes /\ cur[c].at # "reading"
    BY <1>2 DEF TooLarge, Codes
  <2>. QED
    BY ZenonT(60), <1>2, <2>1, ReaderAnswersPlaces DEF TooLarge
<1>3. ASSUME NEW w, NEW a, NEW n, NEW to, NEW c,
             Use(w) \/ Handle(a) \/ CastBegins(n, to) \/ CastMakes(c)
      PROVE  PlaceInv'
  BY <1>1, <1>3 DEF Use, Handle, CastBegins, CastMakes
<1>4. ASSUME UNCHANGED msgVars PROVE PlaceInv'
  BY <1>1, <1>4 DEF msgVars
<1>. QED
  BY <1>2, <1>3, <1>4, ReadPlaces, DecodePlaces, RoutePlaces, RunsPlaces, WriterPlaces, CastPlaces
     DEF MsgNext, Runs, Broadcast, BroadcastFilter, Publish, PublishFilter

LEMMA MsgInitEmpty ==
  ASSUME Init, NEW c \in Peers
  PROVE  Answers(c) = <<>>
<1>1. wire[c] = <<>> /\ writing[c] = <<>> /\ sendCh[c] = <<>>
  BY DEF Init
<1>2. Len(Written(c)) = Len(<<>>) /\ Written(c) \in Seq(Data)
  BY <1>1, MsgInitType, WrittenType
<1>3. Written(c) = <<>>
  BY <1>2
<1>4. Answers(c) = Written(c) \o writing[c] \o sendCh[c]
  BY MsgInitType, AnswersType
<1>. QED
  BY <1>1, <1>3, <1>4

LEMMA MsgInitAnswers == Init => AnswerInv
<1>. SUFFICES ASSUME Init PROVE AnswerInv
  OBVIOUS
<1>0. \A r \in Requests : r.conn \in Peers
  BY RequestsAreTyped DEF Request
<1>1. MsgTypes
  BY MsgInitType
<1>2. Owners /\ Chains
  BY DEF Init, Owners, Chains
<1>3. \A c \in Peers : Answers(c) = <<>>
  BY MsgInitEmpty
<1>4. OneGoroutine /\ OneAnswer
  BY <1>3 DEF Init, OneGoroutine, OneAnswer
<1>5. QueueBound /\ WriterInv
  BY ServerAssumption DEF Init, QueueBound, WriterInv
<1>6. \A r \in Requests : /\ r \in unsent /\ ~InReader(r) /\ ~InHandler(r)
                          /\ ~Answered(r) /\ ~Refused(r) /\ ~Returned(r)
  BY <1>0, <1>3 DEF Init, InReader, InHandler, Answered, Refused, Returned
<1>7. OnePlace
  BY <1>6 DEF OnePlace, AtOne, ExactlyOne
<1>. QED
  BY <1>1, <1>2, <1>4, <1>5, <1>7 DEF AnswerInv, PlaceInv

LEMMA AnswerInvKept == AnswerInv /\ [MsgNext]_msgVars => AnswerInv'
BY MsgNextType, OwnersKept, ChainsKept, PlacesKept DEF AnswerInv

\* Counting the places: a set with one member at most has as many as say.
LEMMA AtMostOne ==
  ASSUME NEW S, \A x, y \in S : x = y
  PROVE  Cardinality(S) = IF S # {} THEN 1 ELSE 0
<1>1. CASE S = {}
  BY <1>1, FS_EmptySet
<1>2. CASE S # {}
  <2>1. PICK x : S = {x}
    BY <1>2
  <2>. QED
    BY <2>1, FS_Singleton
<1>. QED
  BY <1>1, <1>2

LEMMA AnswersFollow == AnswerInv => AnsweredOnce
<1>. SUFFICES ASSUME AnswerInv PROVE AnsweredOnce
  OBVIOUS
<1>1. \A g \in gor : \E n \in 0..Len(middleware) : g.chain = SubSeq(middleware, 1, n) \o <<g.action>>
  BY DEF AnswerInv, Chains, InPrefix
<1>2. \A c \in Peers : Len(sendCh[c]) <= QueueSize
  BY DEF AnswerInv, PlaceInv, QueueBound
<1>3. ASSUME NEW r \in Requests PROVE Places(r) = 1
  <2>. DEFINE G == {g \in gor : g.id = r.id}
              A == {i \in DOMAIN Answers(r.conn) : Answers(r.conn)[i].of = r.id}
  <2>1. Cardinality(G) = IF InHandler(r) THEN 1 ELSE 0
    <3>1. \A g, h \in G : g = h
      BY DEF AnswerInv, PlaceInv, OneGoroutine
    <3>2. InHandler(r) <=> G # {}
      BY DEF InHandler
    <3>. HIDE DEF G
    <3>. QED
      BY <3>1, <3>2, AtMostOne
  <2>2. Cardinality(A) = IF Answered(r) THEN 1 ELSE 0
    <3>1. r.conn \in Peers /\ r.id \in Ids
      BY RequestsAreTyped DEF Request
    <3>2. \A i, j \in A : i = j
      BY <3>1 DEF AnswerInv, PlaceInv, OneAnswer
    <3>3. Answered(r) <=> A # {}
      BY DEF Answered
    <3>. HIDE DEF A
    <3>. QED
      BY <3>2, <3>3, AtMostOne
  <2>3. Places(r) = (IF r \in unsent THEN 1 ELSE 0) + (IF InReader(r) THEN 1 ELSE 0)
                    + Cardinality(G) + Cardinality(A) + (IF Refused(r) THEN 1 ELSE 0)
                    + (IF Returned(r) THEN 1 ELSE 0)
    BY Zenon DEF Places, InReader, Refused, Returned
  <2>4. AtOne(r)
    BY DEF AnswerInv, PlaceInv, OnePlace
  <2>. HIDE DEF G, A
  <2>. QED
    BY <2>1, <2>2, <2>3, <2>4 DEF AtOne, ExactlyOne
<1>. QED
  BY <1>1, <1>2, <1>3 DEF AnsweredOnce

\* Conn.readLoop, SendResp and writeLoop, for any connections, requests,
\* handlers, broadcasts and sizes of the queue: every request is accounted for
\* once, with a handler, or by the one answer of the server itself, or by having
\* closed its connection; a handler runs inside the middlewares registered
\* before it; and the queue keeps to its size.
THEOREM RequestsAnsweredOnce == MsgSpec => []AnsweredOnce
<1>1. Init => AnswerInv
  BY MsgInitAnswers
<1>2. AnswerInv /\ [MsgNext]_msgVars => AnswerInv'
  BY AnswerInvKept
<1>3. AnswerInv => AnsweredOnce
  BY AnswersFollow
<1>. QED
  BY <1>1, <1>2, <1>3, PTL DEF MsgSpec

-----------------------------------------------------------------------------
(* WsMessages: codecs.                                                     *)

FrameInv == AnswerInv /\ CodecInv

\* A step that leaves the codecs alone keeps what is said of them.
LEMMA SameSound ==
  ASSUME UNCHANGED used
  PROVE  /\ \A c, n : CodecAt(c, n)' = CodecAt(c, n)
         /\ \A c, d : Sound(c, d) <=> Sound(c, d)'
         /\ \A c, w : Framed(c, w) <=> Framed(c, w)'
BY DEF CodecAt, Sound, Framed

\* What is made now is sound, as a reply when a request has been decoded.
LEMMA MadeIsSound ==
  ASSUME MsgTypes, CodecInv, NEW c \in Peers, NEW d, d.codec = respCodec[c], d.turn = Len(used[c]),
         ~IsReply(d) \/ Len(used[c]) > 0
  PROVE  Sound(c, d)
<1>1. Len(used[c]) \in Nat
  BY DEF MsgTypes
<1>. QED
  BY <1>1 DEF Sound, CodecInv

\* The conjuncts of CodecInv, to keep one by one.
Current == \A c \in Peers : /\ respCodec[c] = CodecAt(c, Len(used[c]))
                            /\ cur[c].at = "routing" => Len(used[c]) > 0
AnswersSound == \A c \in Peers : \A i \in DOMAIN Answers(c) : Sound(c, Answers(c)[i])
WireFramed == \A c \in Peers : \A i \in DOMAIN wire[c] : Framed(c, wire[c][i])
GoingSound == \A g \in gor : Len(used[g.conn]) > 0 /\ \A d \in g.out : Sound(g.conn, d)
CastingSound == \A o \in notice.out : Sound(o.conn, o.data)

LEMMA CodecParts ==
  /\ CodecInv <=> Current /\ AnswersSound /\ WireFramed /\ GoingSound /\ CastingSound
  /\ CodecInv' <=> Current' /\ AnswersSound' /\ WireFramed' /\ GoingSound' /\ CastingSound'
BY DEF CodecInv, Current, AnswersSound, WireFramed, GoingSound, CastingSound

LEMMA CurrentKept ==
  ASSUME Current, UNCHANGED <<respCodec, used>>,
         \A c \in Peers : cur'[c].at = "routing" => cur[c].at = "routing"
  PROVE  Current'
BY SameSound DEF Current

LEMMA AnswersSoundKept ==
  ASSUME AnswersSound, UNCHANGED used, \A c \in Peers : Answers(c)' = Answers(c)
  PROVE  AnswersSound'
BY SameSound DEF AnswersSound

LEMMA WireFramedKept ==
  ASSUME WireFramed, UNCHANGED <<used, wire>>
  PROVE  WireFramed'
BY SameSound DEF WireFramed

LEMMA GoingSoundKept ==
  ASSUME GoingSound, UNCHANGED used, gor' \subseteq gor
  PROVE  GoingSound'
BY SameSound DEF GoingSound

LEMMA CastingSoundKept ==
  ASSUME CastingSound, UNCHANGED used, notice'.out \subseteq notice.out
  PROVE  CastingSound'
BY SameSound DEF CastingSound

LEMMA EnqueueSound ==
  ASSUME MsgTypes, AnswersSound, NEW c \in Peers, NEW d \in Data, Enqueue(c, d), Sound(c, d),
         UNCHANGED <<used, writing, wire>>
  PROVE  AnswersSound'
<1>1. CASE \A e \in Peers : Answers(e)' = Answers(e)
  BY <1>1, AnswersSoundKept
<1>2. CASE /\ Answers(c)' = Append(Answers(c), d)
           /\ \A e \in Peers : e # c => Answers(e)' = Answers(e)
  <2>1. PICK a \in Seq(Data) : a = Answers(c)
    BY AnswersType
  <2>2. \A i \in DOMAIN Append(a, d) : Append(a, d)[i] = d \/ (i \in DOMAIN a /\ Append(a, d)[i] = a[i])
    OBVIOUS
  <2>3. \A i \in DOMAIN Answers(c)' : Sound(c, (Answers(c)')[i])
    BY <1>2, <2>1, <2>2 DEF AnswersSound
  <2>4. \A e \in Peers : \A i \in DOMAIN Answers(e)' : Sound(e, (Answers(e)')[i])
    BY <1>2, <2>3 DEF AnswersSound
  <2>. QED
    BY <2>4, SameSound DEF AnswersSound
<1>. QED
  BY <1>1, <1>2, EnqueueCases

\* readLoop answers by itself.
LEMMA ReplySound ==
  ASSUME AnswerInv, CodecInv, NEW c \in Peers, cur[c].at # "reading", NEW code \in {400, 404, 413},
         SendResp(c, cur[c].req.id, code), code = 404 => cur[c].at = "routing"
  PROVE  \E d \in Data : Enqueue(c, d) /\ Sound(c, d)
<1>1. MsgTypes /\ cur[c].req.id \in Ids
  BY DEF AnswerInv, Owners, Request
<1>2. PICK d \in Data : /\ d.id = None /\ d.code = code
                        /\ d.codec = respCodec[c] /\ d.turn = Len(used[c])
                        /\ Enqueue(c, d)
  BY <1>1, SendRespIs DEF Codes
<1>3. ~IsReply(d) \/ Len(used[c]) > 0
  <2>1. None \notin Ids
    BY RequestsAssumption DEF Ids
  <2>. QED
    BY <1>2, <2>1 DEF IsReply, CodecInv
<1>. QED
  BY <1>1, <1>2, <1>3, MadeIsSound

LEMMA ReaderQueuesCodecs ==
  ASSUME AnswerInv, CodecInv, NEW c \in Peers, NEW d \in Data, Enqueue(c, d), Sound(c, d),
         NEW q, cur' = [cur EXCEPT ![c] = [at |-> "reading", req |-> q]],
         UNCHANGED respCodec, UNCHANGED used, UNCHANGED writing, UNCHANGED wire,
         UNCHANGED gor, UNCHANGED notice
  PROVE  CodecInv'
<1>1. MsgTypes
  BY DEF AnswerInv
<1>2. AnswersSound'
  BY <1>1, EnqueueSound, CodecParts
<1>3. Current'
  <2>1. \A e \in Peers : cur'[e].at = "routing" => cur[e].at = "routing"
    BY <1>1 DEF MsgTypes
  <2>. QED
    BY <2>1, CurrentKept, CodecParts
<1>4. WireFramed' /\ GoingSound' /\ CastingSound'
  BY CodecParts, WireFramedKept, GoingSoundKept, CastingSoundKept
<1>. QED
  BY <1>2, <1>3, <1>4, CodecParts

\* One more decoded request: what was said of earlier ones stays true.
LEMMA UsedGrows ==
  ASSUME MsgTypes, NEW c \in Peers, NEW k \in Codecs, used' = [used EXCEPT ![c] = Append(@, k)]
  PROVE  /\ Len(used'[c]) = Len(used[c]) + 1 /\ CodecAt(c, Len(used[c]))' = k
         /\ \A e \in Peers : e # c => used'[e] = used[e]
         /\ \A e \in Peers : Len(used[e]) > 0 => Len(used'[e]) > 0
         /\ \A e \in Peers : \A d : Sound(e, d) => Sound(e, d)'
         /\ \A e \in Peers : \A w : Framed(e, w) => Framed(e, w)'
<1>1. used[c] \in Seq(Codecs) /\ Len(used[c]) \in Nat
  BY DEF MsgTypes
<1>2. used'[c] = Append(used[c], k) /\ \A e \in Peers : e # c => used'[e] = used[e]
  BY DEF MsgTypes
<1>3. /\ Len(used'[c]) = Len(used[c]) + 1 /\ used'[c][Len(used[c]) + 1] = k
      /\ \A n \in 1..Len(used[c]) : used'[c][n] = used[c][n]
  BY <1>1, <1>2
<1>4. CodecAt(c, Len(used[c]))' = k
  BY <1>1, <1>3 DEF CodecAt
<1>5. \A e \in Peers : \A n \in Nat : n <= Len(used[e]) => CodecAt(e, n)' = CodecAt(e, n)
  BY <1>1, <1>2, <1>3 DEF CodecAt
<1>6. \A e \in Peers : \A n \in Nat : n <= Len(used[e]) => n <= Len(used'[e])
  BY <1>1, <1>2, <1>3
<1>7. \A e \in Peers : Len(used[e]) > 0 => Len(used'[e]) > 0
  BY <1>1, <1>2, <1>3
<1>8. \A e \in Peers : \A d : Sound(e, d) => Sound(e, d)'
  BY <1>5, <1>6 DEF Sound
<1>9. \A e \in Peers : \A w : Framed(e, w) => Framed(e, w)'
  BY <1>5, <1>6 DEF Framed
<1>. QED
  BY <1>2, <1>3, <1>4, <1>7, <1>8, <1>9

LEMMA DecodeCodecs ==
  ASSUME AnswerInv, CodecInv, NEW c \in Peers, Decode(c)
  PROVE  CodecInv'
<1>. USE DEF routing, running, casting
<1>1. PICK q, k : q = cur[c].req /\ k = RequestCodec(q)
  OBVIOUS
<1>2. MsgTypes /\ k \in Codecs /\ cur[c].at = "decoding"
  BY <1>1, ServerAssumption DEF Decode, AnswerInv, RequestCodec, Codecs
<1>3. UNCHANGED <<writing, wire, gor, notice>>
  BY DEF Decode
<1>4. \/ /\ respCodec' = [respCodec EXCEPT ![c] = k]
         /\ used' = [used EXCEPT ![c] = Append(@, k)]
         /\ \E p : cur' = [cur EXCEPT ![c] = p]
         /\ UNCHANGED sendCh
      \/ /\ SendResp(c, q.id, 400) /\ UNCHANGED <<respCodec, used>>
         /\ cur' = [cur EXCEPT ![c] = [at |-> "reading", req |-> None]]
  BY <1>1 DEF Decode
<1>5. ASSUME respCodec' = [respCodec EXCEPT ![c] = k], used' = [used EXCEPT ![c] = Append(@, k)],
             NEW p, cur' = [cur EXCEPT ![c] = p], UNCHANGED sendCh
      PROVE  CodecInv'
  <2>1. /\ Len(used'[c]) = Len(used[c]) + 1 /\ CodecAt(c, Len(used[c]))' = k
        /\ \A e \in Peers : e # c => used'[e] = used[e]
        /\ \A e \in Peers : Len(used[e]) > 0 => Len(used'[e]) > 0
        /\ \A e \in Peers : \A d : Sound(e, d) => Sound(e, d)'
        /\ \A e \in Peers : \A w : Framed(e, w) => Framed(e, w)'
    BY <1>2, <1>5, UsedGrows
  <2>2. Current'
    <3>1. Len(used'[c]) > 0
      BY <1>2, <2>1 DEF MsgTypes
    <3>2. respCodec'[c] = k /\ \A e \in Peers : e # c => respCodec'[e] = respCodec[e] /\ cur'[e] = cur[e]
      BY <1>2, <1>5 DEF MsgTypes
    <3>3. \A e \in Peers : e # c => CodecAt(e, Len(used[e]))' = CodecAt(e, Len(used[e]))
      BY <2>1 DEF CodecAt
    <3>. QED
      BY <2>1, <3>1, <3>2, <3>3 DEF CodecInv, Current
  <2>3. AnswersSound'
    <3>1. \A e \in Peers : Answers(e)' = Answers(e)
      BY <1>3, <1>5, SameAnswers
    <3>. QED
      BY <2>1, <3>1, CodecParts DEF AnswersSound
  <2>4. WireFramed'
    BY <1>3, <2>1, CodecParts DEF WireFramed
  <2>5. GoingSound'
    <3>1. \A g \in gor : g.conn \in Peers
      BY <1>2 DEF MsgTypes, Goroutine
    <3>. QED
      BY <1>3, <2>1, <3>1, CodecParts DEF GoingSound
  <2>6. CastingSound'
    <3>1. \A o \in notice.out : o.conn \in Peers
      BY <1>2 DEF MsgTypes, Casting
    <3>. QED
      BY <1>3, <2>1, <3>1, CodecParts DEF CastingSound
  <2>. QED
    BY <2>2, <2>3, <2>4, <2>5, <2>6, CodecParts
<1>6. ASSUME SendResp(c, q.id, 400), UNCHANGED <<respCodec, used>>,
             cur' = [cur EXCEPT ![c] = [at |-> "reading", req |-> None]]
      PROVE  CodecInv'
  <2>1. PICK d \in Data : Enqueue(c, d) /\ Sound(c, d)
    BY <1>1, <1>2, <1>6, ReplySound
  <2>. QED
    BY <1>3, <1>6, <2>1, ReaderQueuesCodecs
<1>. QED
  BY <1>4, <1>5, <1>6

LEMMA RouteCodecs ==
  ASSUME AnswerInv, CodecInv, NEW c \in Peers, Route(c)
  PROVE  CodecInv'
<1>. USE DEF routing, running, casting
<1>1. PICK q : q = cur[c].req
  OBVIOUS
<1>2. /\ MsgTypes /\ cur[c].at = "routing"
      /\ cur' = [cur EXCEPT ![c] = [at |-> "reading", req |-> None]]
      /\ UNCHANGED <<respCodec, used, writing, wire, notice>>
  BY DEF Route, AnswerInv
<1>3. CASE Handler(q.action) = <<>>
  <2>1. SendResp(c, cur[c].req.id, 404) /\ UNCHANGED gor
    BY <1>1, <1>3 DEF Route
  <2>2. PICK d \in Data : Enqueue(c, d) /\ Sound(c, d)
    BY <1>2, <2>1, ReplySound
  <2>. QED
    BY <1>2, <2>1, <2>2, ReaderQueuesCodecs
<1>4. CASE Handler(q.action) # <<>>
  <2>1. PICK n : /\ n = [conn |-> c, id |-> q.id, action |-> q.action, chain |-> Handler(q.action),
                         left |-> HandlerAnswers, out |-> {}]
                 /\ gor' = gor \cup {n} /\ UNCHANGED sendCh
    BY <1>1, <1>4 DEF Route
  <2>2. n.conn = c /\ n.out = {}
    BY <2>1
  <2>3. Len(used[c]) > 0
    BY <1>2 DEF CodecInv
  <2>4. GoingSound'
    BY <1>2, <2>1, <2>2, <2>3, SameSound, CodecParts DEF GoingSound
  <2>5. Current'
    <3>1. \A e \in Peers : cur'[e].at = "routing" => cur[e].at = "routing"
      BY <1>2 DEF MsgTypes
    <3>. QED
      BY <1>2, <3>1, CurrentKept, CodecParts
  <2>6. AnswersSound' /\ WireFramed' /\ CastingSound'
    BY <1>2, <2>1, SameAnswers, AnswersSoundKept, WireFramedKept, CastingSoundKept, CodecParts
  <2>. QED
    BY <2>4, <2>5, <2>6, CodecParts
<1>. QED
  BY <1>3, <1>4

LEMMA RunsCodecs ==
  ASSUME AnswerInv, CodecInv, NEW g \in gor, Runs(g)
  PROVE  CodecInv'
<1>. USE DEF reading, sending, routing, casting
<1>0. MsgTypes /\ g.conn \in Peers /\ Len(used[g.conn]) > 0
  BY DEF AnswerInv, MsgTypes, Goroutine, CodecInv
<1>1. UNCHANGED <<cur, respCodec, used, writing, wire, notice>>
  BY RunsKeep
<1>2. Current' /\ WireFramed' /\ CastingSound'
  BY <1>1, CurrentKept, WireFramedKept, CastingSoundKept, CodecParts
<1>3. CASE HandlerMakes(g) \/ HandlerPanics(g)
  <2>1. PICK h : /\ Becomes(g, h) /\ h.conn = g.conn
                 /\ \A d \in h.out : d.codec = respCodec[g.conn] /\ d.turn = Len(used[g.conn])
    BY <1>0, <1>3, MakesIs
  <2>2. \A d \in h.out : Sound(g.conn, d)
    BY <1>0, <2>1, MadeIsSound
  <2>3. GoingSound'
    BY <1>0, <1>1, <2>1, <2>2, SameSound, CodecParts DEF GoingSound, Becomes
  <2>4. UNCHANGED sendCh
    BY <1>3, MakesKeep
  <2>5. AnswersSound'
    BY <1>1, <2>4, SameAnswers, AnswersSoundKept, CodecParts
  <2>. QED
    BY <1>2, <2>3, <2>5, CodecParts
<1>4. CASE HandlerQueues(g)
  <2>1. PICK d \in g.out : /\ d \in Data /\ Enqueue(g.conn, d)
                           /\ \/ \E h : Becomes(g, h) /\ h.conn = g.conn /\ h.out = {}
                              \/ gor' = gor \ {g}
    BY <1>0, <1>4, QueuesIs
  <2>2. Sound(g.conn, d)
    BY DEF CodecInv
  <2>3. AnswersSound'
    BY <1>0, <1>1, <2>1, <2>2, EnqueueSound, CodecParts
  <2>4. GoingSound'
    BY <1>0, <1>1, <2>1, SameSound, CodecParts DEF GoingSound, Becomes
  <2>. QED
    BY <1>2, <2>3, <2>4, CodecParts
<1>5. CASE HandlerReturns(g)
  <2>1. gor' \subseteq gor /\ UNCHANGED sendCh
    BY <1>5 DEF HandlerReturns
  <2>2. AnswersSound' /\ GoingSound'
    BY <1>1, <2>1, SameAnswers, AnswersSoundKept, GoingSoundKept, CodecParts
  <2>. QED
    BY <1>2, <2>2, CodecParts
<1>. QED
  BY <1>3, <1>4, <1>5 DEF Runs

LEMMA WriterCodecs ==
  ASSUME AnswerInv, CodecInv, NEW c \in Peers, WriterTakes(c) \/ WriterWrites(c)
  PROVE  CodecInv'
<1>. USE DEF reading, sending, routing, running, casting
<1>0. MsgTypes
  BY DEF AnswerInv
<1>1. \A e \in Peers : Answers(e)' = Answers(e)
  BY WriterKeepsAnswers DEF AnswerInv, PlaceInv
<1>2. UNCHANGED <<respCodec, used, cur, gor, notice>>
  BY DEF WriterTakes, WriterWrites
<1>3. Current' /\ AnswersSound' /\ GoingSound' /\ CastingSound'
  BY <1>1, <1>2, CurrentKept, AnswersSoundKept, GoingSoundKept, CastingSoundKept, CodecParts
<1>4. CASE WriterTakes(c)
  <2>1. WireFramed'
    BY <1>2, <1>4, WireFramedKept, CodecParts DEF WriterTakes
  <2>. QED
    BY <1>3, <2>1, CodecParts
<1>5. CASE WriterWrites(c)
  <2>1. PICK f : /\ f = [data |-> writing[c][1], turn |-> Len(used[c]), frame |-> MessageType(respCodec[c])]
                 /\ wire' = [wire EXCEPT ![c] = Append(@, f)]
    BY <1>5 DEF WriterWrites
  <2>2. f.data = writing[c][1] /\ f.turn = Len(used[c]) /\ f.frame = MessageType(respCodec[c])
    BY <2>1
  <2>3. PICK w \in Seq(Frame) : w = wire[c]
    BY <1>0 DEF MsgTypes
  <2>4. wire'[c] = Append(w, f) /\ \A e \in Peers : e # c => wire'[e] = wire[e]
    BY <1>0, <2>1, <2>3 DEF MsgTypes
  <2>5. \A i \in DOMAIN Append(w, f) : Append(w, f)[i] = f \/ (i \in DOMAIN w /\ Append(w, f)[i] = w[i])
    OBVIOUS
  <2>6. Len(w) + 1 \in DOMAIN wire'[c] /\ wire'[c][Len(w) + 1] = f
    BY <2>4
  <2>7. Sound(c, f.data)
    <3>1. MsgTypes'
      BY <1>0, WriterType
    <3>2. /\ Len(w) + 1 \in DOMAIN (Answers(c)')
          /\ (Answers(c)')[Len(w) + 1] = wire'[c][Len(w) + 1].data
      BY <2>6, <3>1, WrittenFirstThen
    <3>. QED
      BY <1>1, <2>6, <3>2 DEF CodecInv
  <2>8. Framed(c, f)
    BY <1>0, <2>2, <2>7 DEF Framed, Sound, CodecInv, MsgTypes
  <2>9. \A e \in Peers : \A i \in DOMAIN wire'[e] : Framed(e, wire'[e][i])
    BY <2>3, <2>4, <2>5, <2>8 DEF CodecInv
  <2>10. WireFramed'
    BY <1>2, <2>9, SameSound DEF WireFramed
  <2>. QED
    BY <1>3, <2>10, CodecParts
<1>. QED
  BY <1>4, <1>5

LEMMA CastCodecs ==
  ASSUME AnswerInv, CodecInv, NEW c \in Peers, CastMakes(c) \/ CastQueues(c)
  PROVE  CodecInv'
<1>. USE DEF reading, sending, routing, running
<1>0. MsgTypes /\ Owners /\ notice \in Casting
  BY DEF AnswerInv, MsgTypes
<1>1. UNCHANGED <<cur, respCodec, used, writing, wire, gor>>
  BY DEF CastMakes, CastQueues
<1>2. Current' /\ WireFramed' /\ GoingSound'
  BY <1>1, CurrentKept, WireFramedKept, GoingSoundKept, CodecParts
<1>3. CASE CastMakes(c)
  <2>1. AnswersSound'
    BY <1>1, <1>3, SameAnswers, AnswersSoundKept, CodecParts DEF CastMakes
  <2>2. CastingSound'
    <3>1. CASE notice' = [notice EXCEPT !.to = @ \ {c}]
      <4>1. notice'.out = notice.out
        BY <1>0, <3>1 DEF Casting
      <4>. QED
        BY <1>1, <4>1, CastingSoundKept, CodecParts
    <3>2. CASE notice' # [notice EXCEPT !.to = @ \ {c}]
      <4>1. PICK d : /\ ~IsReply(d) /\ d.codec = respCodec[c] /\ d.turn = Len(used[c])
                     /\ notice' = [notice EXCEPT !.out = {[conn |-> c, data |-> d]}]
        BY <1>0, <1>3, <3>2, CastMakesIs
      <4>2. Sound(c, d)
        BY <1>0, <4>1, MadeIsSound
      <4>3. \A o \in notice'.out : o.conn = c /\ o.data = d
        BY <1>0, <4>1 DEF Casting
      <4>. QED
        BY <1>1, <4>2, <4>3, SameSound DEF CastingSound
    <3>. QED
      BY <3>1, <3>2
  <2>. QED
    BY <1>2, <2>1, <2>2, CodecParts
<1>4. CASE CastQueues(c)
  <2>1. PICK o \in notice.out : o.conn = c /\ Enqueue(c, o.data)
    BY <1>4 DEF CastQueues
  <2>2. o.data \in Data /\ Sound(c, o.data)
    BY <1>0, <2>1 DEF Casting, CodecInv
  <2>3. AnswersSound'
    BY <1>0, <1>1, <2>1, <2>2, EnqueueSound, CodecParts
  <2>4. notice'.out = {}
    BY <1>0, <1>4 DEF CastQueues, Casting
  <2>5. CastingSound'
    BY <2>4 DEF CastingSound
  <2>. QED
    BY <1>2, <2>3, <2>5, CodecParts
<1>. QED
  BY <1>3, <1>4

LEMMA CodecsKept == FrameInv /\ [MsgNext]_msgVars => CodecInv'
<1>. SUFFICES ASSUME AnswerInv, CodecInv, [MsgNext]_msgVars PROVE CodecInv'
  BY DEF FrameInv
<1>. USE DEF reading, sending, routing, running, casting
<1>0. MsgTypes
  BY DEF AnswerInv
<1>1. ASSUME UNCHANGED <<respCodec, used, sendCh, writing, wire, gor>>, notice'.out \subseteq notice.out,
             \A c \in Peers : cur'[c].at = "routing" => cur[c].at = "routing"
      PROVE  CodecInv'
  <2>1. \A c \in Peers : Answers(c)' = Answers(c)
    BY <1>1, SameAnswers
  <2>. QED
    BY <1>1, <2>1, CurrentKept, AnswersSoundKept, WireFramedKept, GoingSoundKept, CastingSoundKept, CodecParts
<1>2. ASSUME NEW c \in Peers, TooLarge(c) PROVE CodecInv'
  <2>1. /\ SendResp(c, cur[c].req.id, 413) /\ cur[c].at # "reading"
        /\ cur' = [cur EXCEPT ![c] = [at |-> "reading", req |-> None]]
        /\ UNCHANGED <<respCodec, used, writing, wire, gor, notice>>
    BY <1>2 DEF TooLarge
  <2>2. PICK d \in Data : Enqueue(c, d) /\ Sound(c, d)
    BY <2>1, ReplySound
  <2>. QED
    BY <2>1, <2>2, ReaderQueuesCodecs
<1>3. ASSUME NEW c \in Peers, Read(c) PROVE CodecInv'
  <2>1. PICK q \in unsent, at \in {"decoding", "closed"} : cur' = [cur EXCEPT ![c] = [at |-> at, req |-> q]]
    BY <1>3 DEF Read
  <2>2. \A e \in Peers : cur'[e].at = "routing" => cur[e].at = "routing"
    BY <1>0, <2>1 DEF MsgTypes
  <2>. QED
    BY <1>1, <1>3, <2>2 DEF Read
<1>4. ASSUME NEW w, NEW a, Use(w) \/ Handle(a) PROVE CodecInv'
  BY <1>1, <1>4 DEF Use, Handle
<1>5. ASSUME NEW n, NEW to, CastBegins(n, to) PROVE CodecInv'
  <2>1. PICK unfit : notice' = [resp |-> n, unfit |-> unfit, to |-> to, out |-> {}]
    BY <1>5 DEF CastBegins
  <2>2. notice'.out = {}
    BY <2>1
  <2>. QED
    BY <1>1, <1>5, <2>2 DEF CastBegins
<1>6. ASSUME UNCHANGED msgVars PROVE CodecInv'
  BY <1>1, <1>6 DEF msgVars
<1>. QED
  BY <1>2, <1>3, <1>4, <1>5, <1>6, DecodeCodecs, RouteCodecs, RunsCodecs, WriterCodecs, CastCodecs
     DEF MsgNext, Runs, Broadcast, BroadcastFilter, Publish, PublishFilter

LEMMA FramesFollow == FrameInv => FramesMatch
<1>. SUFFICES ASSUME FrameInv, NEW c \in Peers, NEW i \in DOMAIN wire[c], NEW w, w = wire[c][i],
                     NEW d, d = w.data
              PROVE  /\ w.frame # MessageType(d.codec) =>
                          \E n \in d.turn + 1 .. w.turn : used[c][n] # d.codec
                     /\ \A k \in Codecs : ToSet(used[c]) = {k} /\ IsReply(d) =>
                          d.codec = k /\ w.frame = MessageType(k)
  BY DEF FramesMatch
<1>1. MsgTypes /\ CodecInv
  BY DEF FrameInv, AnswerInv
<1>2. Sound(c, d) /\ Framed(c, w)
  BY <1>1, WrittenFirst DEF CodecInv
<1>3. /\ d.turn \in Nat /\ w.turn \in Nat /\ d.turn <= w.turn /\ w.turn <= Len(used[c])
      /\ Len(used[c]) \in Nat /\ d.codec = CodecAt(c, d.turn) /\ w.frame = MessageType(CodecAt(c, w.turn))
      /\ IsReply(d) => d.turn > 0
  BY <1>1, <1>2 DEF Sound, Framed, MsgTypes
<1>4. ASSUME w.frame # MessageType(d.codec) PROVE \E n \in d.turn + 1 .. w.turn : used[c][n] # d.codec
  <2>1. CodecAt(c, w.turn) # CodecAt(c, d.turn)
    BY <1>3, <1>4
  <2>2. d.turn < w.turn
    BY <1>3, <2>1
  <2>3. CodecAt(c, w.turn) = used[c][w.turn] /\ w.turn \in d.turn + 1 .. w.turn
    BY <1>3, <2>2 DEF CodecAt
  <2>. QED
    BY <1>3, <2>1, <2>3
<1>5. ASSUME NEW k \in Codecs, ToSet(used[c]) = {k}, IsReply(d)
      PROVE  d.codec = k /\ w.frame = MessageType(k)
  <2>1. \A n \in 1..Len(used[c]) : used[c][n] = k
    <3>1. used[c] \in Seq(Codecs)
      BY <1>1 DEF MsgTypes
    <3>2. DOMAIN used[c] = 1..Len(used[c])
      BY <3>1
    <3>3. {used[c][n] : n \in DOMAIN used[c]} = {k}
      BY <1>5, Zenon DEF ToSet
    <3>. QED
      BY <3>2, <3>3
  <2>2. d.turn \in 1..Len(used[c]) /\ w.turn \in 1..Len(used[c])
    BY <1>3, <1>5
  <2>. QED
    BY <1>3, <2>1, <2>2 DEF CodecAt
<1>. QED
  BY <1>4, <1>5

\* respCodec, for any connections and requests: a frame's kind, chosen when it
\* is written and not when it was encoded, differs from that of its bytes only
\* when a request in another codec was decoded in between; so a peer that uses
\* one codec gets every reply in it, in frames of its kind, whatever the server
\* is configured for and whatever is broadcast.
THEOREM FramesMatchCodecs == MsgSpec => []FramesMatch
<1>1. Init => FrameInv
  <2>. SUFFICES ASSUME Init PROVE FrameInv
    OBVIOUS
  <2>1. AnswerInv
    BY MsgInitAnswers
  <2>2. ASSUME NEW c \in Peers PROVE Answers(c) = <<>> /\ wire[c] = <<>>
    BY MsgInitEmpty DEF Init
  <2>3. CodecInv
    BY <2>2 DEF Init, CodecInv, CodecAt
  <2>. QED
    BY <2>1, <2>3 DEF FrameInv
<1>2. FrameInv /\ [MsgNext]_msgVars => FrameInv'
  BY AnswerInvKept, CodecsKept DEF FrameInv
<1>3. FrameInv => FramesMatch
  BY FramesFollow
<1>. QED
  BY <1>1, <1>2, <1>3, PTL DEF MsgSpec
=============================================================================
