------------------------------ MODULE TcpProofs ------------------------------
(***************************************************************************)
(* Proofs about TcpServer, alone and with the client of TcpClient, for any *)
(* clients, calls of Close and limit, any number of pieces sent and any    *)
(* capacity of the client's output.                                        *)
(***************************************************************************)
EXTENDS TcpClient, FiniteSetTheorems, SequenceTheorems, TLAPS

-----------------------------------------------------------------------------
(* The server.  The parts of the invariant.                                *)

\* The accept loop has a connection in hand only between Accept and the slot.
RawInv == listen = "admitting" => raw \in Peers /\ peer[raw] = "accepted"

\* listenWG counts Listen from Add on; a failed bind never gives it back.
WaitGroupInv ==
  listenWG = IF listen \in {"idle", "refused", "adding", "returned"} THEN 0 ELSE 1

\* The registry holds the connections whose handler runs; only those, or ones
\* that ended since, have been closed by a sweep.
RegistryInv ==
  /\ conns = {p \in Peers : peer[p] = "handling"}
  /\ shut \subseteq {p \in Peers : peer[p] \in {"handling", "ended", "done"}}

\* The socket is reached through s.listener, except between bind and set-up.
SocketInv ==
  /\ bound => listener \/ listen = "bound"
  /\ listen \in {"waiting", "ending", "returned"} => ~bound /\ ~listener

\* state is "serving" only while Listen is on its way.
StateInv ==
  /\ state = "serving" => listen \in {"adding", "binding", "bound", "accepting", "admitting",
                                      "leaving", "waiting"}
  /\ listen \in {"ending", "returned"} => state = "closed" /\ Handlers = {}

\* The slots taken bound the handlers.
SlotsInv == MaxConns > 0 => Cardinality(Handlers) <= sem

\* A Close that was not early meets a Listen that has set up, and returns
\* after it.
CloserInv ==
  ~early => \A c \in Closers :
    /\ closer[c] \in {"stopping", "cancelling", "sweeping", "waiting", "returned"} =>
         listen \in {"accepting", "admitting", "leaving", "waiting", "ending", "returned"}
    /\ closer[c] = "returned" => listen = "returned"

ServerInv == /\ TypeOK /\ RawInv /\ WaitGroupInv /\ RegistryInv /\ SocketInv /\ StateInv
             /\ SlotsInv /\ CloserInv

-----------------------------------------------------------------------------
(* Types.                                                                  *)

LEMMA InitType == Init => TypeOK
<1>. SUFFICES ASSUME Init PROVE TypeOK
  OBVIOUS
<1>1. bound \in BOOLEAN /\ listener \in BOOLEAN /\ early \in BOOLEAN
  BY DEF Init
<1>2. sem \in 0 .. MaxConns
  BY LimitAssumption DEF Init
<1>. QED
  BY <1>1, <1>2 DEF Init, TypeOK

LEMMA ListenType ==
  ASSUME ServerInv, Listen
  PROVE  TypeOK'
<1>. USE DEF TypeOK, socket, clients
<1>0. TypeOK /\ RawInv /\ WaitGroupInv
  BY DEF ServerInv
<1>1. CASE ListenCAS
  <2>1. PICK s \in {"init", "serving", "closed"} : state' = s
    BY <1>0, <1>1, Zenon DEF ListenCAS
  <2>2. PICK l \in {"adding", "refused"} : listen' = l
    BY <1>1, Zenon DEF ListenCAS
  <2>. QED
    BY <1>0, <1>1, <2>1, <2>2 DEF ListenCAS
<1>2. CASE ListenAdd
  BY <1>0, <1>2 DEF ListenAdd, WaitGroupInv
<1>3. CASE ListenBind
  <2>1. bound' \in BOOLEAN
    BY <1>3 DEF ListenBind
  <2>. QED
    BY <1>0, <1>3, <2>1 DEF ListenBind
<1>4. CASE ListenBindFails
  BY <1>0, <1>4 DEF ListenBindFails
<1>5. CASE ListenSetUp
  <2>1. listener' \in BOOLEAN
    BY <1>5 DEF ListenSetUp
  <2>. QED
    BY <1>0, <1>5, <2>1 DEF ListenSetUp
<1>6. ASSUME NEW p \in Peers, Accept(p) PROVE TypeOK'
  BY <1>0, <1>6 DEF Accept
<1>7. CASE Admit
  <2>1. sem' \in 0 .. MaxConns
    BY <1>0, <1>7, LimitAssumption DEF Admit
  <2>2. peer' \in [Peers -> {"away", "waiting", "accepted", "rejected", "spawned",
                             "handling", "ended", "done"}]
    BY <1>0, <1>7 DEF Admit
  <2>. QED
    BY <1>0, <1>7, <2>1, <2>2 DEF Admit
<1>8. CASE RejectConn
  BY <1>0, <1>8 DEF RejectConn
<1>9. CASE AcceptClosed
  BY <1>0, <1>9 DEF AcceptClosed
<1>10. CASE ListenLeave
  <2>1. bound' \in BOOLEAN /\ listener' \in BOOLEAN
    BY <1>0, <1>10, Zenon DEF ListenLeave
  <2>. QED
    BY <1>0, <1>10, <2>1 DEF ListenLeave
<1>11. CASE ListenWait
  BY <1>0, <1>11 DEF ListenWait
<1>12. CASE ListenReturns
  BY <1>0, <1>12 DEF ListenReturns, WaitGroupInv
<1>. QED
  BY <1>1, <1>2, <1>3, <1>4, <1>5, <1>6, <1>7, <1>8, <1>9, <1>10, <1>11, <1>12 DEF Listen

LEMMA OthersType ==
  ASSUME TypeOK,
         \/ AcceptErrs \/ ParentCancelled \/ WatchContext
         \/ \E p \in Peers : Connects(p) \/ HandleConn(p)
         \/ \E c \in Closers : Close(c)
  PROVE  TypeOK'
<1>. USE DEF TypeOK, socket, clients
<1>1. CASE AcceptErrs
  BY <1>1 DEF AcceptErrs
<1>2. CASE ParentCancelled
  BY <1>2 DEF ParentCancelled
<1>3. CASE WatchContext
  <2>1. bound' \in BOOLEAN /\ listener' \in BOOLEAN
    BY <1>3 DEF WatchContext
  <2>. QED
    BY <1>3, <2>1 DEF WatchContext
<1>4. ASSUME NEW p \in Peers, Connects(p) \/ HandleConn(p) PROVE TypeOK'
  BY <1>4 DEF Connects, HandleConn, Register, HandlerReturns, HandlerDone
<1>5. ASSUME NEW c \in Closers, CloseCAS(c) PROVE TypeOK'
  <2>1. PICK v \in {"stopping", "nothing"} : closer' = [closer EXCEPT ![c] = v]
    BY <1>5, Zenon DEF CloseCAS
  <2>2. early' \in BOOLEAN
    BY <1>5, Zenon DEF CloseCAS
  <2>. QED
    BY <1>5, <2>1, <2>2 DEF CloseCAS
<1>6. ASSUME NEW c \in Closers, CloseListener(c) PROVE TypeOK'
  <2>1. bound' \in BOOLEAN /\ listener' \in BOOLEAN
    BY <1>6, Zenon DEF CloseListener
  <2>. QED
    BY <1>6, <2>1 DEF CloseListener
<1>7. ASSUME NEW c \in Closers, CloseCancel(c) \/ CloseAllConns(c) \/ CloseReturns(c) PROVE TypeOK'
  BY <1>7 DEF CloseCancel, CloseAllConns, CloseReturns
<1>. QED
  BY <1>1, <1>2, <1>3, <1>4, <1>5, <1>6, <1>7 DEF Close

-----------------------------------------------------------------------------
(* The slots and the handlers.                                             *)

LEMMA PeerSets ==
  ASSUME NEW S \in SUBSET Peers
  PROVE  IsFiniteSet(S) /\ Cardinality(S) \in Nat
BY PeersAssumption, FS_Subset, FS_CardinalityType

\* A step that starts no handler keeps the bound.
LEMMA FewerHandlers ==
  ASSUME ServerInv, Handlers' \subseteq Handlers, sem' = sem
  PROVE  SlotsInv'
<1>1. Handlers \in SUBSET Peers /\ Handlers' \in SUBSET Handlers /\ Handlers' \in SUBSET Peers
  BY DEF Handlers
<1>2. Cardinality(Handlers') <= Cardinality(Handlers)
  BY <1>1, PeerSets, FS_Subset
<1>3. Cardinality(Handlers) \in Nat /\ Cardinality(Handlers') \in Nat
  BY <1>1, PeerSets
<1>4. sem \in Nat
  BY LimitAssumption DEF ServerInv, TypeOK
<1>. QED
  BY <1>2, <1>3, <1>4 DEF ServerInv, SlotsInv

LEMMA AdmitSlots ==
  ASSUME ServerInv, Admit
  PROVE  SlotsInv'
<1>. SUFFICES ASSUME MaxConns > 0 PROVE Cardinality(Handlers') <= sem'
  BY DEF SlotsInv
<1>1. raw \in Peers /\ peer[raw] = "accepted" /\ peer' = [peer EXCEPT ![raw] = "spawned"]
  BY DEF ServerInv, RawInv, Admit
<1>2. Handlers' = Handlers \cup {raw} /\ raw \notin Handlers /\ Handlers \in SUBSET Peers
  BY <1>1 DEF Handlers, ServerInv, TypeOK
<1>3. Cardinality(Handlers \cup {raw}) = Cardinality(Handlers) + 1
  BY <1>2, PeerSets, FS_AddElement
<1>4. Cardinality(Handlers) \in Nat /\ sem \in Nat /\ sem' = sem + 1
  BY <1>2, PeerSets, LimitAssumption DEF Admit, ServerInv, TypeOK
<1>. QED
  BY <1>2, <1>3, <1>4 DEF ServerInv, SlotsInv

-----------------------------------------------------------------------------
(* The steps.                                                              *)

Parts == RawInv /\ WaitGroupInv /\ RegistryInv /\ SocketInv /\ StateInv /\ CloserInv

\* Steps of Listen that take no connection.
LEMMA ListenParts ==
  ASSUME ServerInv,
         \/ ListenCAS \/ ListenAdd \/ ListenBind \/ ListenBindFails \/ ListenSetUp
         \/ AcceptClosed \/ AcceptErrs \/ ListenLeave \/ ListenWait \/ ListenReturns
  PROVE  Parts' /\ SlotsInv'
<1>. USE DEF socket, clients
<1>1. UNCHANGED <<raw, sem, conns, peer, shut, closer, early>>
  BY DEF ListenCAS, ListenAdd, ListenBind, ListenBindFails, ListenSetUp, AcceptClosed,
         AcceptErrs, ListenLeave, ListenWait, ListenReturns
<1>2. Handlers' = Handlers
  BY <1>1 DEF Handlers
<1>3. SlotsInv'
  BY <1>1, <1>2, FewerHandlers
<1>4. RawInv' /\ RegistryInv'
  BY <1>1 DEF ServerInv, RawInv, RegistryInv, ListenCAS, ListenAdd, ListenBind, ListenBindFails,
         ListenSetUp, AcceptClosed, AcceptErrs, ListenLeave, ListenWait, ListenReturns
<1>5. WaitGroupInv'
  <2>1. CASE ListenCAS
    <3>1. listen = "idle" /\ listen' \in {"adding", "refused"} /\ listenWG' = listenWG
      BY <2>1, Zenon DEF ListenCAS
    <3>. QED
      BY <3>1 DEF ServerInv, WaitGroupInv
  <2>2. CASE ListenAdd \/ ListenReturns
    BY <2>2 DEF ServerInv, WaitGroupInv, ListenAdd, ListenReturns
  <2>3. CASE \/ ListenBind \/ ListenBindFails \/ ListenSetUp \/ AcceptClosed \/ AcceptErrs
             \/ ListenLeave \/ ListenWait
    BY <2>3 DEF ServerInv, WaitGroupInv, ListenBind, ListenBindFails,
         ListenSetUp, AcceptClosed, AcceptErrs, ListenLeave, ListenWait
  <2>. QED
    BY <2>1, <2>2, <2>3
<1>6. SocketInv'
  <2>1. SocketInv /\ TypeOK
    BY DEF ServerInv
  <2>2. CASE ListenCAS
    <3>1. listen = "idle" /\ listen' \in {"adding", "refused"} /\ UNCHANGED <<bound, listener>>
      BY <2>2, Zenon DEF ListenCAS
    <3>. QED
      BY <2>1, <3>1 DEF SocketInv
  <2>3. CASE ListenLeave
    <3>1. listen = "leaving" /\ ~bound' /\ ~listener'
      BY <2>1, <2>3, Zenon DEF ListenLeave, SocketInv
    <3>. QED
      BY <3>1 DEF SocketInv
  <2>4. CASE \/ ListenAdd \/ ListenBind \/ ListenBindFails \/ ListenSetUp
             \/ AcceptClosed \/ AcceptErrs \/ ListenWait \/ ListenReturns
    BY <2>1, <2>4 DEF SocketInv, ListenAdd, ListenBind, ListenBindFails,
         ListenSetUp, AcceptClosed, AcceptErrs, ListenWait, ListenReturns
  <2>. QED
    BY <2>2, <2>3, <2>4
<1>7. StateInv'
  BY <1>2 DEF ServerInv, StateInv, TypeOK, ListenCAS, ListenAdd, ListenBind, ListenBindFails,
         ListenSetUp, AcceptClosed, AcceptErrs, ListenLeave, ListenWait, ListenReturns
<1>8. CloserInv'
  BY <1>1 DEF ServerInv, CloserInv, ListenCAS, ListenAdd, ListenBind, ListenBindFails,
         ListenSetUp, AcceptClosed, AcceptErrs, ListenLeave, ListenWait, ListenReturns
<1>. QED
  BY <1>3, <1>4, <1>5, <1>6, <1>7, <1>8 DEF Parts

\* Steps of Listen that take a connection, hand it on or reject it.
LEMMA AcceptParts ==
  ASSUME ServerInv, (\E p \in Peers : Accept(p)) \/ Admit \/ RejectConn
  PROVE  Parts' /\ SlotsInv'
<1>. USE DEF socket, clients
<1>1. UNCHANGED <<state, bound, listener, listenWG, conns, shut, closer, early>>
  BY DEF Accept, Admit, RejectConn
<1>2. listen \in {"accepting", "admitting"} /\ listen' \in {"accepting", "admitting"}
  BY DEF Accept, Admit, RejectConn
<1>3. /\ peer \in [Peers -> {"away", "waiting", "accepted", "rejected", "spawned",
                             "handling", "ended", "done"}]
      /\ RawInv /\ RegistryInv
  BY DEF ServerInv, TypeOK
<1>4. RawInv'
  BY <1>3 DEF RawInv, Accept, Admit, RejectConn
<1>5. PICK q \in Peers, v \in {"accepted", "spawned", "rejected"} :
        peer[q] \in {"waiting", "accepted"} /\ peer' = [peer EXCEPT ![q] = v]
  BY <1>3, Zenon DEF RawInv, Accept, Admit, RejectConn
<1>6. RegistryInv'
  BY <1>1, <1>3, <1>5 DEF RegistryInv
<1>7. WaitGroupInv' /\ SocketInv' /\ CloserInv'
  BY <1>1, <1>2 DEF ServerInv, WaitGroupInv, SocketInv, CloserInv
<1>8. StateInv'
  BY <1>1, <1>2 DEF ServerInv, StateInv
<1>9. SlotsInv'
  <2>1. CASE Admit
    BY <2>1, AdmitSlots
  <2>2. CASE (\E p \in Peers : Accept(p)) \/ RejectConn
    <3>1. Handlers' \subseteq Handlers /\ sem' = sem
      BY <1>3, <2>2 DEF Handlers, Accept, RejectConn, RawInv
    <3>. QED
      BY <3>1, FewerHandlers
  <2>. QED
    BY <2>1, <2>2
<1>. QED
  BY <1>4, <1>6, <1>7, <1>8, <1>9 DEF Parts

\* Clients that connect, and handlers.
LEMMA PeerParts ==
  ASSUME ServerInv, NEW p \in Peers, Connects(p) \/ HandleConn(p)
  PROVE  Parts' /\ SlotsInv'
<1>. USE DEF socket, clients
<1>1. UNCHANGED <<state, listen, raw, bound, listener, sem, listenWG, closer, early>>
  BY DEF Connects, HandleConn, Register, HandlerReturns, HandlerDone
<1>2. /\ peer \in [Peers -> {"away", "waiting", "accepted", "rejected", "spawned",
                             "handling", "ended", "done"}]
      /\ RawInv /\ RegistryInv
  BY DEF ServerInv, TypeOK
<1>3. RawInv'
  BY <1>1, <1>2 DEF RawInv, Connects, HandleConn, Register, HandlerReturns, HandlerDone
<1>4. RegistryInv'
  BY <1>2 DEF RegistryInv, Connects, HandleConn, Register, HandlerReturns, HandlerDone
<1>5. Handlers' \subseteq Handlers
  BY <1>2 DEF Handlers, Connects, HandleConn, Register, HandlerReturns, HandlerDone
<1>6. SlotsInv'
  BY <1>1, <1>5, FewerHandlers
<1>7. WaitGroupInv' /\ SocketInv' /\ CloserInv'
  BY <1>1 DEF ServerInv, WaitGroupInv, SocketInv, CloserInv
<1>8. StateInv'
  BY <1>1, <1>5 DEF ServerInv, StateInv
<1>. QED
  BY <1>3, <1>4, <1>6, <1>7, <1>8 DEF Parts

\* Close and the context.
LEMMA CloseParts ==
  ASSUME ServerInv, ParentCancelled \/ WatchContext \/ \E c \in Closers : Close(c)
  PROVE  Parts' /\ SlotsInv'
<1>. USE DEF socket, clients
<1>1. UNCHANGED <<listen, raw, sem, listenWG, conns, peer>>
  BY DEF ParentCancelled, WatchContext, Close, CloseCAS, CloseListener, CloseCancel,
         CloseAllConns, CloseReturns
<1>2. Handlers' = Handlers
  BY <1>1 DEF Handlers
<1>3. SlotsInv'
  BY <1>1, <1>2, FewerHandlers
<1>4. RawInv' /\ WaitGroupInv'
  BY <1>1 DEF ServerInv, RawInv, WaitGroupInv
<1>5. shut' \subseteq shut \cup conns
  BY DEF ParentCancelled, WatchContext, Close, CloseCAS, CloseListener, CloseCancel,
         CloseAllConns, CloseReturns
<1>6. RegistryInv'
  BY <1>1, <1>5 DEF ServerInv, RegistryInv
<1>7. SocketInv'
  <2>1. \/ UNCHANGED <<bound, listener>>
        \/ listener /\ ~bound' /\ ~listener'
        \/ ~listener /\ bound' = bound /\ ~listener'
    BY Zenon DEF ParentCancelled, WatchContext, Close, CloseCAS, CloseListener, CloseCancel,
         CloseAllConns, CloseReturns
  <2>. QED
    BY <1>1, <2>1 DEF ServerInv, SocketInv
<1>8. state' = state \/ state' = "closed"
  BY DEF ParentCancelled, WatchContext, Close, CloseCAS, CloseListener, CloseCancel,
         CloseAllConns, CloseReturns
<1>9. StateInv'
  BY <1>1, <1>2, <1>8 DEF ServerInv, StateInv
<1>10. CloserInv'
  <2>1. CASE ParentCancelled \/ WatchContext
    BY <2>1 DEF ServerInv, CloserInv, ParentCancelled, WatchContext
  <2>2. ASSUME NEW c \in Closers, CloseCAS(c) PROVE CloserInv'
    BY <2>2 DEF ServerInv, CloserInv, StateInv, TypeOK, CloseCAS, SettingUp
  <2>3. ASSUME NEW c \in Closers, CloseListener(c) \/ CloseCancel(c) \/ CloseAllConns(c)
        PROVE  CloserInv'
    BY <2>3 DEF ServerInv, CloserInv, TypeOK, CloseListener, CloseCancel, CloseAllConns
  <2>4. ASSUME NEW c \in Closers, CloseReturns(c) PROVE CloserInv'
    BY <2>4 DEF ServerInv, CloserInv, WaitGroupInv, TypeOK, CloseReturns
  <2>. QED
    BY <2>1, <2>2, <2>3, <2>4 DEF Close
<1>. QED
  BY <1>3, <1>4, <1>6, <1>7, <1>9, <1>10 DEF Parts

LEMMA NextServer == ServerInv /\ [Next]_vars => ServerInv'
<1>. SUFFICES ASSUME ServerInv, [Next]_vars PROVE ServerInv'
  OBVIOUS
<1>1. CASE Next
  <2>1. TypeOK'
    BY <1>1, ListenType, OthersType DEF Next, ServerInv
  <2>2. Parts' /\ SlotsInv'
    BY <1>1, ListenParts, AcceptParts, PeerParts, CloseParts DEF Next, Listen
  <2>. QED
    BY <2>1, <2>2 DEF ServerInv, Parts
<1>2. CASE UNCHANGED vars
  <2>. USE <1>2 DEF vars, socket, clients, ServerInv
  <2>1. TypeOK'
    BY DEF TypeOK
  <2>2. Handlers' = Handlers
    BY DEF Handlers
  <2>3. RawInv' /\ WaitGroupInv' /\ RegistryInv' /\ SocketInv' /\ CloserInv'
    BY DEF RawInv, WaitGroupInv, RegistryInv, SocketInv, CloserInv
  <2>4. StateInv' /\ SlotsInv'
    BY <2>2 DEF StateInv, SlotsInv
  <2>. QED
    BY <2>1, <2>3, <2>4
<1>. QED
  BY <1>1, <1>2

LEMMA InitServer == Init => ServerInv
<1>. SUFFICES ASSUME Init PROVE ServerInv
  OBVIOUS
<1>1. Handlers = {}
  BY DEF Init, Handlers
<1>2. SlotsInv
  BY <1>1, FS_EmptySet DEF Init, SlotsInv
<1>3. RawInv /\ WaitGroupInv /\ RegistryInv /\ SocketInv /\ StateInv /\ CloserInv
  BY DEF Init, RawInv, WaitGroupInv, RegistryInv, SocketInv, StateInv, CloserInv
<1>. QED
  BY <1>2, <1>3, InitType DEF ServerInv

LEMMA ServerFollows == ServerInv => NothingLeft
<1>. SUFFICES ASSUME ServerInv PROVE NothingLeft
  OBVIOUS
<1>1. WithinLimit
  <2>1. Handlers \in SUBSET Peers
    BY DEF Handlers
  <2>2. Cardinality(Handlers) \in Nat /\ sem \in 0 .. MaxConns
    BY <2>1, PeerSets DEF ServerInv, TypeOK
  <2>. QED
    BY <2>2, LimitAssumption DEF ServerInv, SlotsInv, WithinLimit
<1>2. Handlers = {} => conns = {}
  BY DEF ServerInv, RegistryInv, Handlers
<1>3. ListenLeavesNothing
  BY <1>2 DEF ServerInv, StateInv, SocketInv, ListenLeavesNothing
<1>4. CloseIsComplete
  BY <1>3 DEF ServerInv, CloserInv, ListenLeavesNothing, CloseIsComplete
<1>. QED
  BY <1>1, <1>3, <1>4 DEF NothingLeft, ServerInv

\* The TCP server, for any clients, any calls of Close and any limit: handlers
\* never exceed MaxConns, a Listen that has returned leaves no handler, no
\* registered connection and no socket, and so does a Close that did not come
\* before Listen had set up.
THEOREM ServerLeavesNothing == Spec => []NothingLeft
<1>1. ServerInv /\ [Next]_vars => ServerInv'
  BY NextServer
<1>. QED
  BY <1>1, InitServer, ServerFollows, PTL DEF Spec

-----------------------------------------------------------------------------
(* The client.  The parts of the invariant.                                *)

Past(where) == cl.reader \in where

Leaving  == {"leaving", "done"}
Reported == {"leaving", "stuck", "done"}
Ending   == {"failing", "quitting", "cleaning", "cleaningQuietly", "callback"} \cup Reported

ClientType ==
  /\ cl \in [state : {"init", "connected", "closed"}, socket : BOOLEAN, output : Seq(Nat),
             outClosed : BOOLEAN, closed : BOOLEAN,
             reader : {"none", "arming", "reading", "sending"} \cup Ending,
             read : Nat, error : {"none", "closed", "reset", "eof", "timeout"},
             close : {"idle", "cleaning", "waiting", "returned"},
             ctx : {"live", "cancelled"}, fired : BOOLEAN, deadline : BOOLEAN]
  /\ got \in Seq(Nat) /\ user \in {"idle", "reading", "ended"}
  /\ errs \in {0, 1} /\ down \in Nat

\* What has left the socket has been returned, waits in output, or is the one
\* piece the reader has in hand.
PiecesInv ==
  /\ \A k \in 1 .. Len(got) : got[k] = k
  /\ \A k \in 1 .. Len(cl.output) : cl.output[k] = Len(got) + k
  /\ cl.reader \in {"none", "arming", "reading"} => cl.read = Len(got) + Len(cl.output)
  /\ cl.reader = "sending" => cl.read = Len(got) + Len(cl.output) + 1

\* Nothing is closed before Connect; whoever closes the channel closed closes
\* the socket with it, output is closed last, and Read ends after one of them.
ChannelsInv ==
  /\ cl.state = "init" => cl.reader = "none" /\ ~cl.closed
  /\ cl.close = "cleaning" => cl.state = "closed"
  /\ cl.closed => ~cl.socket
  /\ cl.outClosed => cl.reader = "done"
  /\ user = "ended" => cl.outClosed \/ cl.closed

\* The server will send no more.
Finished == peer[Me] \in {"rejected", "ended", "done"} \/ Me \in shut

\* After an end of file the stream is complete, and so is what Read returns
\* before it ends.
EofInv ==
  cl.error = "eof" =>
    /\ Finished /\ Past(Ending)
    /\ Len(got) + Len(cl.output) = Sent
    /\ user = "ended" => cl.output = <<>>

\* Without Close and with a live context only the reader ends the connection,
\* and it has called OnError when it leaves.
ReportInv ==
  /\ errs = 1 => Past(Reported)
  /\ cl.close = "idle" /\ cl.closed => Past({"callback"} \cup Reported)
  /\ cl.close = "idle" /\ cl.state = "closed" =>
       Past({"cleaning", "cleaningQuietly", "callback"} \cup Reported)
  /\ Past({"quitting", "cleaningQuietly"}) => cl.ctx = "cancelled"
  /\ Past(Leaving) /\ cl.close = "idle" /\ cl.ctx = "live" => errs = 1

ClientInv == ClientType /\ PiecesInv /\ ChannelsInv /\ EofInv /\ ReportInv

-----------------------------------------------------------------------------
(* What the server's steps mean for the client.                            *)

LEMMA ClientStepsServer == ClientNext => [Next]_vars
<1>. SUFFICES ASSUME ClientNext PROVE [Next]_vars
  OBVIOUS
<1>1. CASE Server
  BY <1>1 DEF Server, OfServer, Next
<1>2. CASE Connect
  BY <1>2, ClientAssumption DEF Connect, Next
<1>3. CASE \/ HandlerWrites \/ HandlerWritesOn \/ HandlerReads
           \/ Write \/ ReadBegins \/ ReadTakes \/ ReadEnds
  BY <1>3 DEF HandlerWrites, HandlerWritesOn, HandlerReads, Write, ReadBegins, ReadTakes, ReadEnds
<1>4. CASE ContextCancelled \/ ContextFires \/ ReadLoop \/ ClientClose
  BY <1>4 DEF ContextCancelled, ContextFires, ReadLoop, ReaderArms, ReaderReads, ReaderSends,
         ReaderQuits, ReaderFails, ReaderTimesOut, ReaderCAS, ReaderCleansUp, ReaderDispatches,
         ReaderLeaves, ClientClose, ClientCloseCAS, ClientCloseCleansUp, ClientCloseReturns
<1>. QED
  BY <1>1, <1>2, <1>3, <1>4 DEF ClientNext

\* A server that has finished with the client stays so.
LEMMA FinishedStays ==
  ASSUME ServerInv, [Next]_vars, Finished
  PROVE  Finished' /\ (peer'[Me] = "rejected" <=> peer[Me] = "rejected")
<1>. USE ClientAssumption DEF Finished, socket, clients
<1>1. /\ peer \in [Peers -> {"away", "waiting", "accepted", "rejected", "spawned",
                             "handling", "ended", "done"}]
      /\ RawInv /\ RegistryInv
  BY DEF ServerInv, TypeOK
<1>2. CASE UNCHANGED <<peer, shut>>
  BY <1>2
<1>3. CASE (\E p \in Peers : Accept(p)) \/ Admit \/ RejectConn
  BY <1>1, <1>3 DEF Accept, Admit, RejectConn, RawInv, RegistryInv
<1>4. ASSUME NEW p \in Peers, Connects(p) \/ HandleConn(p)
      PROVE  Finished' /\ (peer'[Me] = "rejected" <=> peer[Me] = "rejected")
  BY <1>1, <1>4 DEF Connects, HandleConn, Register, HandlerReturns, HandlerDone, RegistryInv
<1>5. ASSUME NEW c \in Closers, CloseAllConns(c)
      PROVE  Finished' /\ (peer'[Me] = "rejected" <=> peer[Me] = "rejected")
  BY <1>5 DEF CloseAllConns
<1>. QED
  BY <1>2, <1>3, <1>4, <1>5 DEF Next, vars, Listen, ListenCAS, ListenAdd, ListenBind,
     ListenBindFails, ListenSetUp, AcceptClosed, AcceptErrs, ListenLeave, ListenWait,
     ListenReturns, ParentCancelled, WatchContext, Close, CloseCAS, CloseListener, CloseCancel,
     CloseReturns

\* A step that leaves the client alone.
LEMMA ServerKeepsClient ==
  ASSUME ServerInv, ClientInv, [Next]_vars, UNCHANGED <<cl, down, user, got, errs>>
  PROVE  ClientInv'
<1>. USE DEF ClientInv
<1>1. ClientType' /\ PiecesInv' /\ ChannelsInv' /\ ReportInv'
  BY DEF ClientType, PiecesInv, ChannelsInv, ReportInv, Past
<1>2. EofInv'
  <2>. SUFFICES ASSUME cl.error = "eof"
                PROVE  /\ Finished' /\ Past(Ending)
                       /\ Len(got) + Len(cl.output) = Sent'
                       /\ user = "ended" => cl.output = <<>>
    BY DEF EofInv, Past
  <2>1. Finished
    BY DEF EofInv
  <2>2. Sent' = Sent
    BY <2>1, FinishedStays DEF Sent
  <2>. QED
    BY <2>1, <2>2, FinishedStays DEF EofInv
<1>. QED
  BY <1>1, <1>2

-----------------------------------------------------------------------------
(* The client's steps: control.                                            *)

Data == <<vars, link, reading>>

LEMMA StableData ==
  ASSUME UNCHANGED Data
  PROVE  /\ Finished' = Finished /\ Sent' = Sent /\ UNCHANGED <<down, user, got>>
BY DEF Data, vars, clients, link, reading, Finished, Sent

LEMMA ContextSteps ==
  ASSUME ServerInv, ClientInv, ContextCancelled \/ ContextFires \/ ReaderArms
  PROVE  ClientInv'
<1>. USE DEF ClientInv
<1>0. UNCHANGED Data /\ errs' = errs
  BY DEF Data, ContextCancelled, ContextFires, ReaderArms
<1>1. ClientType'
  <2>1. CASE ContextCancelled
    BY <1>0, <2>1, StableData DEF ClientType, ContextCancelled
  <2>2. CASE ContextFires
    BY <1>0, <2>2, StableData DEF ClientType, ContextFires
  <2>3. CASE ReaderArms
    <3>1. PICK b \in BOOLEAN : cl' = [cl EXCEPT !.reader = "reading", !.deadline = b]
      BY <2>3, Zenon DEF ReaderArms, ClientType
    <3>. QED
      BY <1>0, <3>1, StableData DEF ClientType
  <2>. QED
    BY <2>1, <2>2, <2>3
<1>2. /\ \A f \in {"state", "socket", "output", "outClosed", "closed", "read", "error", "close"} :
           cl'[f] = cl[f]
      /\ cl'.reader = cl.reader \/ (cl.reader = "arming" /\ cl'.reader = "reading")
      /\ cl'.ctx = cl.ctx \/ cl'.ctx = "cancelled"
  BY DEF ClientType, ContextCancelled, ContextFires, ReaderArms
<1>. QED
  BY ZenonT(60), <1>0, <1>1, <1>2, StableData DEF PiecesInv, ChannelsInv, EofInv, ReportInv, Past, Ending,
     Reported, Leaving

\* A failed Read; an end of file means that everything sent has been read.
LEMMA ErrorSteps ==
  ASSUME ServerInv, ClientInv, ReaderFails \/ ReaderTimesOut
  PROVE  ClientInv'
<1>. USE DEF ClientInv
<1>0. UNCHANGED Data /\ errs' = errs /\ cl.reader = "reading"
  BY DEF Data, ReaderFails, ReaderTimesOut
<1>1. PICK what \in {"closed", "reset", "eof", "timeout"} :
        /\ ReadError(what)
        /\ what = "eof" => cl.socket /\ Gone /\ ~Reset /\ cl.read = Sent
  BY Zenon DEF ReaderFails, ReaderTimesOut
<1>2. PICK next \in {"leaving", "quitting", "failing"} :
        /\ cl' = [cl EXCEPT !.error = what, !.reader = next]
        /\ next = "leaving" => cl.state = "closed"
        /\ next = "quitting" => cl.ctx = "cancelled"
  <2>1. CASE cl.state = "closed"
    BY <1>1, <2>1 DEF ReadError
  <2>2. CASE cl.state # "closed" /\ cl.ctx = "cancelled"
    BY <1>1, <2>2 DEF ReadError
  <2>3. CASE cl.state # "closed" /\ cl.ctx # "cancelled"
    BY <1>1, <2>3 DEF ReadError
  <2>. QED
    BY <2>1, <2>2, <2>3
<1>3. ClientType'
  BY <1>0, <1>2, StableData DEF ClientType, Ending, Reported
<1>4. PiecesInv' /\ ChannelsInv' /\ ReportInv'
  BY <1>0, <1>2, StableData DEF ClientType, PiecesInv, ChannelsInv, ReportInv, Past, Ending,
     Reported, Leaving
<1>5. EofInv'
  <2>1. CASE what = "eof"
    <3>1. Finished
      BY <1>1, <2>1 DEF Gone, Reset, Finished
    <3>2. user # "ended"
      BY <1>0, <1>1, <2>1 DEF ChannelsInv
    <3>3. Len(got) + Len(cl.output) = Sent
      BY <1>0, <1>1, <2>1 DEF PiecesInv
    <3>. QED
      BY <1>0, <1>2, <3>1, <3>2, <3>3, StableData DEF ClientType, EofInv, Past, Ending, Reported
  <2>2. CASE what # "eof"
    BY <1>2, <2>2 DEF ClientType, EofInv
  <2>. QED
    BY <2>1, <2>2
<1>. QED
  BY <1>3, <1>4, <1>5

\* shutdown, the callback and the deferred calls.
LEMMA EndingSteps ==
  ASSUME ServerInv, ClientInv,
         ReaderQuits \/ ReaderCAS \/ ReaderCleansUp \/ ReaderDispatches \/ ReaderLeaves
  PROVE  ClientInv'
<1>. USE DEF ClientInv
<1>0. UNCHANGED Data
  BY DEF Data, ReaderQuits, ReaderCAS, ReaderCleansUp, ReaderDispatches, ReaderLeaves
<1>1. CASE ReaderQuits
  <2>1. ClientType'
    BY <1>0, <1>1, StableData DEF ClientType, Ending, Reported, ReaderQuits
  <2>. QED
    BY <1>0, <1>1, <2>1, StableData DEF ReaderQuits, ClientType, PiecesInv, ChannelsInv, EofInv,
       ReportInv, Past, Ending, Reported, Leaving
<1>2. CASE ReaderCAS
  <2>1. PICK next \in {"leaving", "cleaning", "cleaningQuietly"} :
          /\ cl' = [cl EXCEPT !.state = "closed", !.reader = next]
          /\ next = "leaving" => cl.state = "closed"
          /\ next = "cleaningQuietly" => cl.reader = "quitting"
    <3>1. CASE cl.state = "closed"
      BY <1>2, <3>1 DEF ReaderCAS
    <3>2. CASE cl.state # "closed" /\ cl.reader = "failing"
      BY <1>2, <3>2 DEF ReaderCAS, ClientType
    <3>3. CASE cl.state # "closed" /\ cl.reader = "quitting"
      BY <1>2, <3>3 DEF ReaderCAS, ClientType
    <3>. QED
      BY <1>2, <3>1, <3>2, <3>3 DEF ReaderCAS
  <2>2. cl.reader \in {"failing", "quitting"} /\ errs' = errs
    BY <1>2 DEF ReaderCAS
  <2>3. ClientType'
    BY <1>0, <2>1, <2>2, StableData DEF ClientType, Ending, Reported
  <2>. QED
    BY <1>0, <2>1, <2>2, <2>3, StableData DEF ClientType, PiecesInv, ChannelsInv, EofInv,
       ReportInv, Past, Ending, Reported, Leaving
<1>3. CASE ReaderCleansUp
  <2>1. PICK next \in {"callback", "leaving"} :
          /\ cl' = [cl EXCEPT !.socket = FALSE, !.closed = TRUE, !.reader = next]
          /\ next = "leaving" => cl.reader = "cleaningQuietly"
    <3>1. CASE cl.reader = "cleaning"
      BY <1>3, <3>1 DEF ReaderCleansUp, ClientType
    <3>2. CASE cl.reader = "cleaningQuietly"
      BY <1>3, <3>2 DEF ReaderCleansUp, ClientType
    <3>. QED
      BY <1>3, <3>1, <3>2 DEF ReaderCleansUp
  <2>2. cl.reader \in {"cleaning", "cleaningQuietly"} /\ errs' = errs
    BY <1>3 DEF ReaderCleansUp
  <2>3. ClientType'
    BY <1>0, <2>1, <2>2, StableData DEF ClientType, Ending, Reported
  <2>. QED
    BY <1>0, <2>1, <2>2, <2>3, StableData DEF ClientType, PiecesInv, ChannelsInv, EofInv,
       ReportInv, Past, Ending, Reported, Leaving
<1>4. CASE ReaderDispatches
  <2>1. errs = 0
    BY <1>4 DEF ReaderDispatches, ClientType, ReportInv, Past, Reported
  <2>2. errs' = 1 /\ cl.reader = "callback"
    BY <1>4, <2>1 DEF ReaderDispatches
  <2>3. PICK next \in {"leaving", "stuck"} : cl' = [cl EXCEPT !.reader = next]
    BY <1>4 DEF ReaderDispatches
  <2>4. ClientType'
    BY <1>0, <2>2, <2>3, StableData DEF ClientType, Ending, Reported
  <2>. QED
    BY <1>0, <2>2, <2>3, <2>4, StableData DEF ClientType, PiecesInv, ChannelsInv, EofInv,
       ReportInv, Past, Ending, Reported, Leaving
<1>5. CASE ReaderLeaves
  <2>1. ClientType'
    BY <1>0, <1>5, StableData DEF ClientType, Ending, Reported, ReaderLeaves
  <2>. QED
    BY <1>0, <1>5, <2>1, StableData DEF ReaderLeaves, ClientType, PiecesInv, ChannelsInv, EofInv,
       ReportInv, Past, Ending, Reported, Leaving
<1>. QED
  BY <1>1, <1>2, <1>3, <1>4, <1>5

LEMMA CloseSteps ==
  ASSUME ServerInv, ClientInv, ClientClose
  PROVE  ClientInv'
<1>. USE DEF ClientInv
<1>0. UNCHANGED Data /\ errs' = errs
  BY DEF Data, ClientClose, ClientCloseCAS, ClientCloseCleansUp, ClientCloseReturns
<1>1. CASE ClientCloseCAS
  <2>1. PICK s \in {"init", "connected", "closed"}, c \in {"cleaning", "waiting"} :
          /\ cl' = [cl EXCEPT !.state = s, !.close = c]
          /\ c = "cleaning" => s = "closed"
          /\ s = "init" => cl.state = "init"
    <3>1. CASE cl.state = "connected"
      BY <1>1, <3>1 DEF ClientCloseCAS
    <3>2. CASE cl.state # "connected"
      BY <1>1, <3>2 DEF ClientCloseCAS, ClientType
    <3>. QED
      BY <3>1, <3>2
  <2>2. ClientType'
    BY <1>0, <2>1, StableData DEF ClientType
  <2>. QED
    BY <1>0, <2>1, <2>2, StableData DEF ClientType, PiecesInv, ChannelsInv, EofInv,
       ReportInv, Past, Ending, Reported, Leaving
<1>2. CASE ClientCloseCleansUp
  <2>1. ClientType'
    BY <1>0, <1>2, StableData DEF ClientType, ClientCloseCleansUp
  <2>. QED
    BY <1>0, <1>2, <2>1, StableData DEF ClientCloseCleansUp, ClientType, PiecesInv, ChannelsInv,
       EofInv, ReportInv, Past, Ending, Reported, Leaving
<1>3. CASE ClientCloseReturns
  <2>1. ClientType'
    BY <1>0, <1>3, StableData DEF ClientType, ClientCloseReturns
  <2>. QED
    BY <1>0, <1>3, <2>1, StableData DEF ClientCloseReturns, ClientType, PiecesInv, ChannelsInv,
       EofInv, ReportInv, Past, Ending, Reported, Leaving
<1>. QED
  BY <1>1, <1>2, <1>3 DEF ClientClose

-----------------------------------------------------------------------------
(* The client's steps: data.                                               *)

LEMMA ConnectStep ==
  ASSUME ServerInv, ClientInv, Connect
  PROVE  ClientInv'
<1>. USE DEF ClientInv
<1>1. /\ cl.state = "init" /\ UNCHANGED <<down, user, got, errs>>
      /\ cl' = [cl EXCEPT !.state = "connected", !.socket = TRUE, !.reader = "arming"]
  BY DEF Connect, link, reading
<1>2. cl.reader = "none" /\ ~cl.closed /\ ~cl.outClosed
  BY <1>1 DEF ChannelsInv
<1>3. ClientType'
  BY <1>1 DEF ClientType
<1>. QED
  BY <1>1, <1>2, <1>3 DEF ClientType, PiecesInv, ChannelsInv, EofInv, ReportInv, Past, Ending,
     Reported, Leaving

\* Read begins, ends, or a piece moves between handler, reader and Read.
LEMMA UserSteps ==
  ASSUME ServerInv, ClientInv, ReadBegins \/ ReadEnds
  PROVE  ClientInv'
<1>. USE DEF ClientInv
<1>1. UNCHANGED <<vars, cl, down, got, errs>> /\ user' \in {"reading", "ended"}
  BY DEF ReadBegins, ReadEnds, link
<1>2. user' = "ended" => cl.output = <<>> /\ (cl.outClosed \/ cl.closed)
  BY DEF ReadBegins, ReadEnds
<1>3. Finished' = Finished /\ Sent' = Sent
  BY <1>1 DEF vars, clients, Finished, Sent
<1>4. ClientType'
  BY <1>1 DEF ClientType
<1>. QED
  BY <1>1, <1>2, <1>3, <1>4 DEF PiecesInv, ChannelsInv, EofInv, ReportInv, Past

LEMMA ReadStep ==
  ASSUME ServerInv, ClientInv, ReaderReads
  PROVE  ClientInv'
<1>. USE DEF ClientInv
<1>1. /\ UNCHANGED Data /\ errs' = errs /\ cl.reader = "reading"
      /\ cl' = [cl EXCEPT !.reader = "sending", !.read = cl.read + 1]
  BY DEF ReaderReads, Data
<1>2. ClientType'
  <2>1. PICK n \in Nat : n = cl.read + 1
    BY DEF ClientType
  <2>. QED
    BY <1>1, <2>1, StableData DEF ClientType
<1>. QED
  BY <1>1, <1>2, StableData DEF ClientType, PiecesInv, ChannelsInv, EofInv, ReportInv, Past,
     Ending, Reported, Leaving

LEMMA SendStep ==
  ASSUME ServerInv, ClientInv, ReaderSends
  PROVE  ClientInv'
<1>. USE DEF ClientInv
<1>1. /\ UNCHANGED Data /\ errs' = errs /\ cl.reader = "sending"
      /\ cl' = [cl EXCEPT !.reader = "arming", !.output = Append(cl.output, cl.read)]
  BY DEF ReaderSends, Data
<1>2. cl.output \in Seq(Nat) /\ cl.read \in Nat /\ got \in Seq(Nat)
  BY DEF ClientType
<1>3. /\ Append(cl.output, cl.read) \in Seq(Nat)
      /\ Len(Append(cl.output, cl.read)) = Len(cl.output) + 1
      /\ \A k \in 1 .. Len(cl.output) : Append(cl.output, cl.read)[k] = cl.output[k]
      /\ Append(cl.output, cl.read)[Len(cl.output) + 1] = cl.read
  BY <1>2
<1>4. ClientType'
  BY <1>1, <1>3, StableData DEF ClientType
<1>5. cl'.output = Append(cl.output, cl.read) /\ cl'.read = cl.read /\ cl'.reader = "arming"
  BY <1>1 DEF ClientType
<1>6. got' = got
  BY <1>1, StableData
<1>7. Len(cl.output) \in Nat /\ Len(got) \in Nat /\ cl.read = Len(got) + Len(cl.output) + 1
  BY <1>1, <1>2 DEF PiecesInv
<1>8. PiecesInv'
  <2>1. ASSUME NEW k \in 1 .. Len(cl'.output) PROVE cl'.output[k] = Len(got) + k
    <3>1. k \in 1 .. Len(cl.output) \/ k = Len(cl.output) + 1
      BY <1>3, <1>5, <1>7
    <3>2. CASE k \in 1 .. Len(cl.output)
      BY <1>3, <1>5, <3>2 DEF PiecesInv
    <3>3. CASE k = Len(cl.output) + 1
      BY <1>3, <1>5, <1>7, <3>3
    <3>. QED
      BY <3>1, <3>2, <3>3
  <2>. QED
    BY <1>3, <1>5, <1>6, <1>7, <2>1 DEF PiecesInv
<1>9. ChannelsInv' /\ EofInv' /\ ReportInv'
  BY <1>1, StableData DEF ClientType, ChannelsInv, EofInv, ReportInv, Past,
     Ending, Reported, Leaving
<1>. QED
  BY <1>4, <1>8, <1>9

LEMMA TakeStep ==
  ASSUME ServerInv, ClientInv, ReadTakes
  PROVE  ClientInv'
<1>. USE DEF ClientInv
<1>1. /\ UNCHANGED <<vars, down, errs>> /\ user = "reading" /\ user' = "idle"
      /\ cl.output # <<>> /\ cl' = [cl EXCEPT !.output = Tail(cl.output)]
      /\ got' = Append(got, Head(cl.output))
  BY DEF ReadTakes, link
<1>2. cl.output \in Seq(Nat) /\ got \in Seq(Nat)
  BY DEF ClientType
<1>3. /\ Head(cl.output) = cl.output[1] /\ Head(cl.output) \in Nat /\ Tail(cl.output) \in Seq(Nat)
      /\ Len(cl.output) \in Nat \ {0} /\ Len(Tail(cl.output)) = Len(cl.output) - 1
      /\ \A k \in 1 .. Len(cl.output) - 1 : Tail(cl.output)[k] = cl.output[k + 1]
  BY <1>1, <1>2
<1>4. /\ got' \in Seq(Nat) /\ Len(got') = Len(got) + 1 /\ Len(got) \in Nat
      /\ \A k \in 1 .. Len(got) : got'[k] = got[k]
      /\ got'[Len(got) + 1] = Head(cl.output)
  BY <1>1, <1>2, <1>3
<1>5. ClientType'
  BY <1>1, <1>3, <1>4 DEF ClientType
<1>6. /\ cl'.output = Tail(cl.output) /\ cl'.read = cl.read /\ cl'.reader = cl.reader
      /\ Len(got') + Len(cl'.output) = Len(got) + Len(cl.output)
  BY <1>1, <1>3, <1>4 DEF ClientType
<1>7. PiecesInv'
  <2>1. Head(cl.output) = Len(got) + 1
    BY <1>3 DEF PiecesInv
  <2>2. \A k \in 1 .. Len(got') : got'[k] = k
    BY <1>4, <2>1 DEF PiecesInv
  <2>3. ASSUME NEW k \in 1 .. Len(cl'.output) PROVE cl'.output[k] = Len(got') + k
    <3>1. k \in 1 .. Len(cl.output) - 1 /\ k + 1 \in 1 .. Len(cl.output)
      BY <1>3, <1>6
    <3>2. cl'.output[k] = cl.output[k + 1] /\ cl.output[k + 1] = Len(got) + (k + 1)
      BY <1>3, <1>6, <3>1 DEF PiecesInv
    <3>. QED
      BY <1>4, <3>1, <3>2
  <2>. QED
    BY <1>6, <2>2, <2>3 DEF PiecesInv
<1>8. Finished' = Finished /\ Sent' = Sent
  BY <1>1 DEF vars, clients, Finished, Sent
<1>9. EofInv'
  BY <1>1, <1>6, <1>8 DEF ClientType, EofInv, Past
<1>10. ChannelsInv' /\ ReportInv'
  BY <1>1 DEF ClientType, ChannelsInv, ReportInv, Past, Ending, Reported, Leaving
<1>. QED
  BY <1>5, <1>7, <1>9, <1>10

LEMMA HandlerStep ==
  ASSUME ServerInv, ClientInv, HandlerWrites
  PROVE  ClientInv'
<1>. USE DEF ClientInv
<1>1. UNCHANGED <<cl, user, got, errs>> /\ down' = down + 1 /\ ~Finished
  BY DEF HandlerWrites, Finished, Woken, reading
<1>2. ClientType'
  BY <1>1 DEF ClientType
<1>. QED
  BY <1>1, <1>2 DEF PiecesInv, ChannelsInv, EofInv, ReportInv, Past

\* Nothing is under way when the pieces are numbered again.
LEMMA HandlerGoesOn ==
  ASSUME ServerInv, ClientInv, HandlerWritesOn
  PROVE  ClientInv'
<1>. USE DEF ClientInv
<1>1. /\ UNCHANGED <<vars, user, errs>> /\ ~Finished
      /\ down' = 1 /\ got' = <<>> /\ cl' = [cl EXCEPT !.read = 0]
      /\ cl.output = <<>> /\ Len(got) = cl.read
  BY DEF HandlerWritesOn, Finished, Woken
<1>2. cl.reader # "sending" /\ cl.error # "eof"
  BY <1>1 DEF PiecesInv, EofInv, ClientType
<1>3. /\ \A f \in {"state", "socket", "output", "outClosed", "closed", "reader", "error", "close", "ctx"} :
           cl'[f] = cl[f]
      /\ cl'.read = 0
  BY <1>1 DEF ClientType
<1>4. ClientType'
  <2>1. 0 \in Nat /\ 1 \in Nat /\ <<>> \in Seq(Nat)
    OBVIOUS
  <2>. QED
    BY <1>1, <2>1 DEF ClientType
<1>5. PiecesInv'
  BY <1>1, <1>2, <1>3 DEF PiecesInv
<1>6. EofInv'
  BY <1>2, <1>3 DEF EofInv
<1>7. ChannelsInv' /\ ReportInv'
  BY <1>1, <1>3 DEF ChannelsInv, ReportInv, Past, Reported, Leaving
<1>. QED
  BY <1>4, <1>5, <1>6, <1>7

-----------------------------------------------------------------------------
(* The theorems about the client and the server together.                  *)

LEMMA NextClient == ServerInv /\ ClientInv /\ [ClientNext]_all => ClientInv'
<1>. SUFFICES ASSUME ServerInv, ClientInv, [ClientNext]_all PROVE ClientInv'
  OBVIOUS
<1>1. CASE UNCHANGED all \/ Server \/ HandlerReads \/ Write
  <2>1. UNCHANGED <<cl, down, user, got, errs>>
    BY <1>1 DEF all, link, reading, Server, OfServer, HandlerReads, Write
  <2>2. [Next]_vars
    BY <1>1, ClientStepsServer DEF all, ClientNext
  <2>. QED
    BY <2>1, <2>2, ServerKeepsClient
<1>. QED
  BY <1>1, ContextSteps, ErrorSteps, EndingSteps, CloseSteps, ConnectStep, UserSteps, ReadStep,
     SendStep, TakeStep, HandlerStep, HandlerGoesOn DEF ClientNext, ReadLoop

LEMMA InitClient == ClientInit => ClientInv
<1>. SUFFICES ASSUME ClientInit PROVE ClientInv
  OBVIOUS
<1>1. ClientType
  BY DEF ClientInit, ClientType
<1>. QED
  BY <1>1 DEF ClientInit, ClientInv, PiecesInv, ChannelsInv, EofInv, ReportInv, Past, Ending,
     Reported, Leaving

LEMMA ClientFollows == ClientInv => StreamComplete
<1>. SUFFICES ASSUME ClientInv PROVE StreamComplete
  OBVIOUS
<1>. USE DEF ClientInv
<1>1. got \in Seq(Nat) /\ cl.output \in Seq(Nat) /\ errs \in {0, 1}
  BY DEF ClientType
<1>2. Len(got) \in Nat /\ Len(cl.output) \in Nat
  BY <1>1
<1>. DEFINE S == got \o cl.output
            N == Len(got) + Len(cl.output)
<1>3. S \in Seq(Nat) /\ Len(S) = N
  BY <1>1
<1>4. \A k \in 1 .. N : S[k] = k
  <2>. SUFFICES ASSUME NEW k \in 1 .. N PROVE S[k] = k
    OBVIOUS
  <2>1. S[k] = IF k <= Len(got) THEN got[k] ELSE cl.output[k - Len(got)]
    BY <1>1, <1>2
  <2>2. CASE k <= Len(got)
    BY <1>2, <2>1, <2>2 DEF PiecesInv
  <2>3. CASE ~(k <= Len(got))
    <3>1. k - Len(got) \in 1 .. Len(cl.output)
      BY <1>2, <2>3
    <3>2. cl.output[k - Len(got)] = Len(got) + (k - Len(got))
      BY <3>1 DEF PiecesInv
    <3>. QED
      BY <1>2, <2>1, <2>3, <3>2
  <2>. QED
    BY <2>2, <2>3
<1>5. S = [k \in 1 .. N |-> k]
  <2>1. S = [k \in 1 .. Len(S) |-> S[k]]
    BY <1>3
  <2>. QED
    BY <1>3, <1>4, <2>1
<1>6. user = "ended" /\ cl.error = "eof" => Len(got) = Sent
  BY <1>2 DEF EofInv
<1>7. errs <= 1
  BY <1>1
<1>. QED
  BY <1>5, <1>6, <1>7 DEF StreamComplete, ReportInv, Past, Leaving

\* The TCP server keeps its promise when one of its connections is the
\* repository's own client, whatever that client does.
THEOREM ServedServerLeavesNothing == ClientSpec => []NothingLeft
<1>1. ServerInv /\ [ClientNext]_all => ServerInv'
  BY NextServer, ClientStepsServer DEF all
<1>2. ClientInit => ServerInv
  BY InitServer DEF ClientInit
<1>. QED
  BY <1>1, <1>2, ServerFollows, PTL DEF ClientSpec

\* The TCP client's Read returns what the server sent, in order and without a
\* gap, ends after an end of file only when it has returned everything, and
\* OnError is called exactly once for an end the user did not ask for: for any
\* number of pieces, any capacity of output, any other clients.
THEOREM ClientStreamComplete == ClientSpec => []StreamComplete
<1>1. ServerInv /\ ClientInv /\ [ClientNext]_all => ServerInv' /\ ClientInv'
  BY NextServer, NextClient, ClientStepsServer DEF all
<1>2. ClientInit => ServerInv /\ ClientInv
  BY InitServer, InitClient DEF ClientInit
<1>. QED
  BY <1>1, <1>2, ClientFollows, PTL DEF ClientSpec
=============================================================================
