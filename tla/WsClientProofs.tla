--------------------------- MODULE WsClientProofs ---------------------------
(***************************************************************************)
(* Proofs about WsClient for any calls of Connect, Send and Close, any     *)
(* numbers of connections, attempts and failed pings, and any capacity of  *)
(* sendCh.                                                                 *)
(***************************************************************************)
EXTENDS WsClient, FiniteSetTheorems, SequenceTheorems, TLAPS

-----------------------------------------------------------------------------
(* The parts of the invariant.                                             *)

Setting(d) == dialer[d] \in {"dialled", "cleared", "installed"}
Watching   == {c \in Conns : reader[c] \in {"reading", "losing", "judging"}}
Called     == {u \in Users : dialer[u] # "idle"}

\* Connections are used from the first on, and one that Connect holds has a
\* number; a reconnect that dials has attempts left.
NumberInv ==
  /\ conn <= dialled
  /\ \A c \in Conns : c <= dialled <=> link[c] # "unused"
  /\ \A c \in Conns : c > dialled => writer[c] = "off"
  /\ \A d \in Dialers : Setting(d) => got[d] \in 1 .. dialled
  /\ \A c \in Conns : dialer[c] \in {"backoff", "called", "checked", "dialing", "err"} =>
       attempt[c] < MaxAttempts

\* What has left sendCh, and what is in it.
TakenCount == Len(accepted) - Len(sendCh)

MailInv ==
  /\ Len(sendCh) <= Len(accepted)
  /\ \A k \in 1 .. Len(sendCh) : sendCh[k] = accepted[TakenCount + k]
  /\ \A c \in Conns : writer[c] = "writing" => wmsg[c] \in Messages

\* One token: a goroutine that dials, or a reader that will start one.
TokenInv ==
  OneCall =>
    /\ \A d, e \in Dialing : d = e
    /\ \A b, c \in Watching : b = c
    /\ Dialing = {} \/ Watching = {}
    /\ Called = {} => Dialing = {} /\ Watching = {}

\* Between closing the old connection and installing the new one there is
\* none, and nothing is written to a connection before it is installed.
HandInv ==
  OneCall =>
    /\ \A d \in Dialers : dialer[d] = "cleared" => conn = None
    /\ \A d \in Dialers : Setting(d) => writer[got[d]] = "off"
    /\ Alive \subseteq {conn} \cup InHand

\* Where the delivered messages are in accepted: in order, and before the one
\* that a writer of a live connection has in hand.
Embeds(f) ==
  /\ \A p \in 1 .. Len(delivered) : accepted[f[p]] = delivered[p]
  /\ \A p, q \in 1 .. Len(delivered) : p < q => f[p] < f[q]
  /\ \A c \in Conns : writer[c] = "writing" /\ ~Dead(c) =>
       \E i \in 1 .. TakenCount : /\ accepted[i] = wmsg[c]
                                  /\ \A p \in 1 .. Len(delivered) : f[p] < i

OrderInv == OneCall => \E f \in [1 .. Len(delivered) -> 1 .. TakenCount] : Embeds(f)

ClientInv == TypeOK /\ NumberInv /\ MailInv /\ TokenInv /\ HandInv /\ OrderInv

-----------------------------------------------------------------------------
(* Types.                                                                  *)

LEMMA InitType == NewClient => TypeOK
<1>. SUFFICES ASSUME NewClient PROVE TypeOK
  OBVIOUS
<1>1. autoReconnect \in BOOLEAN /\ heartbeat \in BOOLEAN /\ ctxDone \in BOOLEAN
  BY DEF NewClient
<1>2. /\ dialled \in 0 .. MaxDials /\ attempt \in [Conns -> 0 .. MaxAttempts]
      /\ fails \in [Conns -> 0 .. PingLimit] /\ Len(sendCh) <= SendCap
  BY NumbersAssumption DEF NewClient
<1>. QED
  BY <1>1, <1>2 DEF NewClient, TypeOK

LEMMA CloseConnType ==
  ASSUME TypeOK, CloseConn
  PROVE  conn' \in Conns \cup {None} /\ link' \in [Conns -> {"unused", "open", "lost", "closed"}]
BY DEF TypeOK, CloseConn

LEMMA ConnectType ==
  ASSUME TypeOK, NumberInv,
         (\E u \in Users : UserCalls(u)) \/ (\E d \in Dialers : Connect(d))
  PROVE  TypeOK'
<1>. USE DEF options, dials, loops, mail
<1>1. ASSUME NEW u \in Users, UserCalls(u) PROVE TypeOK'
  BY <1>1 DEF UserCalls, TypeOK, Dialers
<1>2. ASSUME NEW d \in Dialers, ConnectCheck(d) PROVE TypeOK'
  <2>1. PICK v \in {"err", "checked"} : dialer' = [dialer EXCEPT ![d] = v]
    BY <1>2, Zenon DEF ConnectCheck
  <2>. QED
    BY <1>2, <2>1 DEF ConnectCheck, TypeOK
<1>3. ASSUME NEW d \in Dialers, ConnectDials(d) \/ DialFails(d) PROVE TypeOK'
  BY ZenonT(60), <1>3 DEF ConnectDials, DialFails, TypeOK
<1>4. ASSUME NEW d \in Dialers, DialSucceeds(d) PROVE TypeOK'
  <2>1. dialled + 1 \in Conns /\ dialled + 1 \in 0 .. MaxDials
    BY <1>4, NumbersAssumption DEF DialSucceeds, TypeOK, Conns
  <2>. QED
    BY <1>4, <2>1 DEF DialSucceeds, TypeOK
<1>5. ASSUME NEW d \in Dialers, ConnectClears(d) PROVE TypeOK'
  BY <1>5, CloseConnType DEF ConnectClears, TypeOK
<1>6. ASSUME NEW d \in Dialers, ConnectInstalls(d) PROVE TypeOK'
  BY <1>6 DEF ConnectInstalls, TypeOK
<1>7. ASSUME NEW d \in Dialers, ConnectReturns(d) PROVE TypeOK'
  BY <1>7 DEF ConnectReturns, TypeOK
<1>. QED
  BY <1>1, <1>2, <1>3, <1>4, <1>5, <1>6, <1>7 DEF Connect

LEMMA ReadLoopType ==
  ASSUME TypeOK, NEW c \in Conns, ReadLoop(c)
  PROVE  TypeOK'
<1>. USE DEF options, dials, loops, mail, Dialers
<1>1. CASE ReadFails(c)
  BY <1>1 DEF ReadFails, TypeOK
<1>2. CASE LostClears(c)
  BY <1>2, CloseConnType DEF LostClears, TypeOK
<1>3. CASE LostReconnects(c)
  BY <1>3 DEF LostReconnects, TypeOK
<1>4. CASE LostStops(c)
  <2>1. PICK v \in {"ended", "failing"} : reader' = [reader EXCEPT ![c] = v]
    BY <1>4, Zenon DEF LostStops
  <2>. QED
    BY <1>4, <2>1 DEF LostStops, TypeOK
<1>5. CASE LostFails(c)
  BY <1>5 DEF LostFails, TypeOK
<1>. QED
  BY <1>1, <1>2, <1>3, <1>4, <1>5 DEF ReadLoop

LEMMA ReconnectType ==
  ASSUME TypeOK, NumberInv, NEW c \in Conns, Reconnect(c)
  PROVE  TypeOK'
<1>. USE DEF options, dials, loops, mail, Dialers
<1>1. CASE ReconnectLoops(c)
  <2>1. PICK v \in {"exhausted", "ended", "panicked", "backoff"} : dialer' = [dialer EXCEPT ![c] = v]
    BY <1>1, Zenon DEF ReconnectLoops
  <2>. QED
    BY <1>1, <2>1 DEF ReconnectLoops, TypeOK
<1>2. CASE ReconnectStops(c)
  BY <1>2 DEF ReconnectStops, TypeOK
<1>3. CASE ReconnectTries(c)
  BY <1>3 DEF ReconnectTries, TypeOK
<1>4. CASE ReconnectGivesUp(c)
  BY <1>4 DEF ReconnectGivesUp, TypeOK
<1>5. CASE ReconnectRetries(c)
  <2>1. PICK v \in 0 .. MaxAttempts : v = attempt[c] + 1
    BY <1>5, NumbersAssumption DEF ReconnectRetries, NumberInv, TypeOK
  <2>. QED
    BY <1>5, <2>1 DEF ReconnectRetries, TypeOK
<1>. QED
  BY <1>1, <1>2, <1>3, <1>4, <1>5 DEF Reconnect

LEMMA WriteLoopType ==
  ASSUME TypeOK, MailInv, NEW c \in Conns, WriteLoop(c)
  PROVE  TypeOK'
<1>. USE DEF options, dials, loops, mail
<1>1. CASE WriterTakes(c)
  <2>1. sendCh \in Seq(Messages) /\ sendCh # <<>> /\ Len(sendCh) <= SendCap /\ SendCap \in Nat
    BY <1>1, NumbersAssumption DEF WriterTakes, TypeOK
  <2>2. Head(sendCh) \in Messages /\ Tail(sendCh) \in Seq(Messages) /\ Len(Tail(sendCh)) <= SendCap
    BY <2>1
  <2>. QED
    BY <1>1, <2>2 DEF WriterTakes, TypeOK
<1>2. CASE WriterStops(c)
  BY <1>2 DEF WriterStops, TypeOK
<1>3. CASE WriteSucceeds(c)
  <2>1. wmsg[c] \in Messages /\ delivered \in Seq(Messages)
    BY <1>3 DEF WriteSucceeds, MailInv, TypeOK
  <2>2. delivered' \in Seq(Messages)
    BY <1>3, <2>1 DEF WriteSucceeds
  <2>3. PICK v \in {"delivered", "lost"} : msg' = [msg EXCEPT ![wmsg[c]] = v]
    BY <1>3, Zenon DEF WriteSucceeds
  <2>. QED
    BY <1>3, <2>1, <2>2, <2>3 DEF WriteSucceeds, TypeOK
<1>4. CASE WriteFails(c)
  BY <1>4 DEF WriteFails, TypeOK
<1>. QED
  BY <1>1, <1>2, <1>3, <1>4 DEF WriteLoop

LEMMA HealthType ==
  ASSUME TypeOK, NEW c \in Conns, HealthLoop(c) \/ LinkDrops(c)
  PROVE  TypeOK'
<1>. USE DEF options, dials, loops, mail
<1>0. 0 \in 0 .. PingLimit
  BY NumbersAssumption
<1>1. CASE HealthStops(c) \/ PingSucceeds(c)
  BY <1>0, <1>1 DEF HealthStops, PingSucceeds, TypeOK
<1>2. CASE PingFails(c)
  <2>1. PICK v \in 0 .. PingLimit : v = fails[c] + 1
    BY <1>2, NumbersAssumption DEF PingFails, TypeOK
  <2>. QED
    BY <1>2, <2>1 DEF PingFails, TypeOK
<1>3. CASE HealthGivesUp(c)
  BY <1>0, <1>3, CloseConnType DEF HealthGivesUp, TypeOK
<1>4. CASE LinkDrops(c)
  BY <1>4 DEF LinkDrops, TypeOK
<1>. QED
  BY <1>1, <1>2, <1>3, <1>4 DEF HealthLoop

LEMMA SendType ==
  ASSUME TypeOK, NEW m \in Messages, Send(m)
  PROVE  TypeOK'
<1>. USE DEF options, dials, loops, mail
<1>1. CASE SendChecks(m)
  <2>1. PICK v \in {"refused", "sending"} : msg' = [msg EXCEPT ![m] = v]
    BY <1>1, Zenon DEF SendChecks
  <2>. QED
    BY <1>1, <2>1 DEF SendChecks, TypeOK
<1>2. CASE SendQueues(m)
  <2>1. sendCh \in Seq(Messages) /\ accepted \in Seq(Messages) /\ Len(sendCh) < SendCap
        /\ SendCap \in Nat
    BY <1>2, NumbersAssumption DEF SendQueues, TypeOK
  <2>2. Append(sendCh, m) \in Seq(Messages) /\ Len(Append(sendCh, m)) <= SendCap
        /\ Append(accepted, m) \in Seq(Messages)
    BY <2>1
  <2>. QED
    BY <1>2, <2>2 DEF SendQueues, TypeOK
<1>3. CASE SendAborts(m)
  BY <1>3 DEF SendAborts, TypeOK
<1>. QED
  BY <1>1, <1>2, <1>3 DEF Send

LEMMA CloseType ==
  ASSUME TypeOK, NEW k \in Closers, Close(k)
  PROVE  TypeOK'
<1>. USE DEF options, dials, loops, mail
<1>1. CASE CloseChecks(k)
  <2>1. PICK v \in {"returned", "cancelling"} : closer' = [closer EXCEPT ![k] = v]
    BY <1>1, Zenon DEF CloseChecks
  <2>. QED
    BY <1>1, <2>1 DEF CloseChecks, TypeOK
<1>2. CASE CloseCancels(k)
  <2>1. ctxDone' \in BOOLEAN
    BY <1>2 DEF CloseCancels
  <2>. QED
    BY <1>2, <2>1 DEF CloseCancels, TypeOK
<1>3. CASE CloseClears(k)
  BY <1>3, CloseConnType DEF CloseClears, TypeOK
<1>4. CASE CloseReports(k)
  BY <1>4 DEF CloseReports, TypeOK
<1>. QED
  BY <1>1, <1>2, <1>3, <1>4 DEF Close

LEMMA NextType == TypeOK /\ NumberInv /\ MailInv /\ [Next]_vars => TypeOK'
<1>. SUFFICES ASSUME TypeOK, NumberInv, MailInv, [Next]_vars PROVE TypeOK'
  OBVIOUS
<1>1. CASE UNCHANGED vars
  BY <1>1 DEF vars, options, dials, loops, mail, TypeOK
<1>. QED
  BY <1>1, ConnectType, ReadLoopType, ReconnectType, WriteLoopType, HealthType, SendType, CloseType
     DEF Next, Serve

-----------------------------------------------------------------------------
(* Numbers and messages.                                                   *)

\* A closed connection was a used one.
LEMMA CloseConnNumbers ==
  ASSUME TypeOK, NumberInv, CloseConn, UNCHANGED <<dialled, writer, attempt>>,
         \A d \in Dialers : Setting(d)' => Setting(d) /\ got'[d] = got[d],
         \A c \in Conns : dialer'[c] \in {"backoff", "called", "checked", "dialing", "err"} =>
                          dialer'[c] = dialer[c]
  PROVE  NumberInv'
<1>1. conn' = None /\ dialled \in Nat
  BY NumbersAssumption DEF CloseConn, TypeOK
<1>2. \A c \in Conns : link'[c] = IF c = conn THEN "closed" ELSE link[c]
  BY DEF CloseConn
<1>3. \A c \in Conns : c <= dialled <=> link'[c] # "unused"
  BY <1>2 DEF NumberInv
<1>. QED
  BY <1>1, <1>3, NumbersAssumption DEF NumberInv, None

\* A step that dials no connection and closes none.
LEMMA SameNumbers ==
  ASSUME TypeOK, NumberInv, dialled' = dialled,
         conn' \in {conn} \cup {got[d] : d \in {x \in Dialers : Setting(x)}},
         \A c \in Conns : link'[c] = "unused" <=> link[c] = "unused",
         \A c \in Conns : c > dialled => writer'[c] = writer[c],
         \A d \in Dialers : Setting(d)' => Setting(d) /\ got'[d] = got[d],
         \A c \in Conns : dialer'[c] \in {"backoff", "called", "checked", "dialing", "err"} =>
                          attempt'[c] < MaxAttempts
  PROVE  NumberInv'
<1>1. conn' <= dialled'
  BY DEF NumberInv, TypeOK
<1>2. \A d \in Dialers : Setting(d)' => got'[d] \in 1 .. dialled'
  BY DEF NumberInv
<1>. QED
  BY <1>1, <1>2 DEF NumberInv

LEMMA ConnectNumbers ==
  ASSUME TypeOK, NumberInv,
         (\E u \in Users : UserCalls(u)) \/ (\E d \in Dialers : Connect(d))
  PROVE  NumberInv'
<1>. USE DEF options, dials, loops, mail, Dialers
<1>1. ASSUME NEW u \in Users, UserCalls(u) PROVE NumberInv'
  <2>1. /\ \A d \in Dialers : Setting(d)' => Setting(d) /\ got'[d] = got[d]
        /\ \A c \in Conns : dialer'[c] = dialer[c]
    BY <1>1, UsersAssumption DEF UserCalls, Setting, TypeOK
  <2>. QED
    BY <1>1, <2>1, SameNumbers DEF UserCalls, NumberInv
<1>2. ASSUME NEW d \in Dialers, ConnectCheck(d) \/ ConnectDials(d) \/ DialFails(d) PROVE NumberInv'
  <2>0. UNCHANGED <<got, attempt, link, conn, dialled, writer>>
    BY <1>2 DEF ConnectCheck, ConnectDials, DialFails
  <2>1. PICK v \in {"err", "checked", "dialing"} : dialer' = [dialer EXCEPT ![d] = v]
    BY <1>2, Zenon DEF ConnectCheck, ConnectDials, DialFails
  <2>2. dialer[d] \in {"called", "checked", "dialing"}
    BY <1>2 DEF ConnectCheck, ConnectDials, DialFails
  <2>3. /\ \A e \in Dialers : Setting(e)' => Setting(e) /\ got'[e] = got[e]
    BY <2>0, <2>1, <2>2 DEF Setting, TypeOK
  <2>4. \A c \in Conns : dialer'[c] \in {"backoff", "called", "checked", "dialing", "err"} =>
                          attempt'[c] < MaxAttempts
    BY <2>0, <2>1, <2>2 DEF NumberInv, TypeOK
  <2>. QED
    BY <2>0, <2>3, <2>4, SameNumbers
<1>3. ASSUME NEW d \in Dialers, DialSucceeds(d) PROVE NumberInv'
  <2>1. /\ dialled' = dialled + 1 /\ dialled \in Nat /\ dialled + 1 \in Conns
        /\ conn' = conn /\ conn \in Int /\ writer' = writer /\ attempt' = attempt
    BY <1>3, NumbersAssumption DEF DialSucceeds, TypeOK, Conns, None
  <2>2. \A c \in Conns : link'[c] = IF c = dialled + 1 THEN "open" ELSE link[c]
    BY <1>3, <2>1 DEF DialSucceeds, TypeOK
  <2>3. \A c \in Conns : c \in Int
    BY NumbersAssumption DEF Conns
  <2>4. \A c \in Conns : c <= dialled' <=> link'[c] # "unused"
    BY <2>1, <2>2, <2>3 DEF NumberInv
  <2>5. \A e \in Dialers : Setting(e)' => got'[e] \in 1 .. dialled'
    <3>1. got'[d] = dialled + 1 /\ \A e \in Dialers \ {d} : got'[e] = got[e] /\ dialer'[e] = dialer[e]
      BY <1>3, <2>1 DEF DialSucceeds, TypeOK
    <3>. QED
      BY <2>1, <3>1 DEF NumberInv, Setting
  <2>6. \A c \in Conns : dialer'[c] \in {"backoff", "called", "checked", "dialing", "err"} =>
                          attempt'[c] < MaxAttempts
    BY <1>3, <2>1 DEF DialSucceeds, NumberInv, TypeOK
  <2>. QED
    BY <2>1, <2>3, <2>4, <2>5, <2>6 DEF NumberInv
<1>4. ASSUME NEW d \in Dialers, ConnectClears(d) PROVE NumberInv'
  <2>1. /\ \A e \in Dialers : Setting(e)' => Setting(e) /\ got'[e] = got[e]
        /\ \A c \in Conns : dialer'[c] \in {"backoff", "called", "checked", "dialing", "err"} =>
                          dialer'[c] = dialer[c]
    BY <1>4 DEF ConnectClears, Setting, TypeOK
  <2>. QED
    BY <1>4, <2>1, CloseConnNumbers DEF ConnectClears
<1>5. ASSUME NEW d \in Dialers, ConnectInstalls(d) PROVE NumberInv'
  <2>1. /\ \A e \in Dialers : Setting(e)' => Setting(e) /\ got'[e] = got[e]
        /\ \A c \in Conns : dialer'[c] \in {"backoff", "called", "checked", "dialing", "err"} =>
                          attempt'[c] < MaxAttempts
    BY <1>5 DEF ConnectInstalls, Setting, TypeOK, NumberInv
  <2>2. Setting(d) /\ conn' = got[d]
    BY <1>5 DEF ConnectInstalls, Setting
  <2>. QED
    BY <1>5, <2>1, <2>2, SameNumbers DEF ConnectInstalls
<1>6. ASSUME NEW d \in Dialers, ConnectReturns(d) PROVE NumberInv'
  <2>1. /\ \A e \in Dialers : Setting(e)' => Setting(e) /\ got'[e] = got[e]
        /\ \A c \in Conns : dialer'[c] \in {"backoff", "called", "checked", "dialing", "err"} =>
                          attempt'[c] < MaxAttempts
    BY <1>6 DEF ConnectReturns, Setting, TypeOK, NumberInv
  <2>2. got[d] \in 1 .. dialled /\ dialled \in Nat
    BY <1>6, NumbersAssumption DEF ConnectReturns, Setting, NumberInv, TypeOK
  <2>3. \A c \in Conns : c > dialled => c # got[d]
    BY <2>2, NumbersAssumption DEF Conns
  <2>4. \A c \in Conns : c > dialled => writer'[c] = writer[c]
    BY <1>6, <2>3 DEF ConnectReturns, TypeOK
  <2>. QED
    BY <1>6, <2>1, <2>4, SameNumbers DEF ConnectReturns
<1>. QED
  BY <1>1, <1>2, <1>3, <1>4, <1>5, <1>6 DEF Connect

LEMMA ServeNumbers ==
  ASSUME TypeOK, NumberInv, NEW c \in Conns, Serve(c)
  PROVE  NumberInv'
<1>. USE DEF options, dials, loops, mail, Dialers
<1>1. CASE LostClears(c) \/ HealthGivesUp(c)
  <2>1. CloseConn /\ UNCHANGED <<dialled, writer, attempt, dialer, got>>
    BY <1>1 DEF LostClears, HealthGivesUp
  <2>2. \A d \in Dialers : Setting(d)' => Setting(d) /\ got'[d] = got[d]
    BY <2>1 DEF Setting
  <2>. QED
    BY <2>1, <2>2, CloseConnNumbers
<1>2. CASE LostReconnects(c) \/ Reconnect(c)
  <2>1. UNCHANGED <<dialled, conn, link, writer, got>>
    BY <1>2 DEF LostReconnects, Reconnect, ReconnectLoops, ReconnectStops, ReconnectTries,
       ReconnectRetries, ReconnectGivesUp
  <2>2. PICK v \in {"top", "exhausted", "ended", "panicked", "backoff", "called", "gaveUp"} :
          dialer' = [dialer EXCEPT ![c] = v]
    BY <1>2, Zenon DEF LostReconnects, Reconnect, ReconnectLoops, ReconnectStops, ReconnectTries,
       ReconnectRetries, ReconnectGivesUp
  <2>3. \A d \in Dialers : Setting(d)' => Setting(d) /\ got'[d] = got[d]
    BY <2>1, <2>2 DEF Setting, TypeOK
  <2>4. v \in {"backoff", "called"} => attempt' = attempt /\ attempt[c] < MaxAttempts
    <3>1. dialer'[c] = v
      BY <2>2 DEF TypeOK
    <3>2. CASE ReconnectLoops(c)
      <4>1. v = "backoff" => ~(attempt[c] >= MaxAttempts)
        BY <3>1, <3>2 DEF ReconnectLoops, TypeOK
      <4>2. attempt[c] \in Nat /\ MaxAttempts \in Nat
        BY NumbersAssumption DEF TypeOK
      <4>3. v # "called"
        BY <3>1, <3>2 DEF ReconnectLoops, TypeOK
      <4>. QED
        BY <3>2, <4>1, <4>2, <4>3 DEF ReconnectLoops
    <3>3. CASE ReconnectTries(c)
      BY <3>3 DEF ReconnectTries, NumberInv
    <3>4. CASE LostReconnects(c) \/ ReconnectStops(c) \/ ReconnectRetries(c) \/ ReconnectGivesUp(c)
      BY <3>1, <3>4 DEF LostReconnects, ReconnectStops, ReconnectRetries, ReconnectGivesUp, TypeOK
    <3>. QED
      BY <1>2, <3>2, <3>3, <3>4 DEF Reconnect
  <2>5. \A b \in Conns : b # c => attempt'[b] = attempt[b] /\ dialer'[b] = dialer[b]
    BY <1>2, <2>2 DEF LostReconnects, Reconnect, ReconnectLoops, ReconnectStops, ReconnectTries,
       ReconnectRetries, ReconnectGivesUp, TypeOK
  <2>6. dialer'[c] = v
    BY <2>2 DEF TypeOK
  <2>7. \A b \in Conns : dialer'[b] \in {"backoff", "called", "checked", "dialing", "err"} =>
                          attempt'[b] < MaxAttempts
    BY <2>4, <2>5, <2>6 DEF NumberInv
  <2>. QED
    BY <2>1, <2>3, <2>7, SameNumbers
<1>3. CASE \/ ReadFails(c) \/ LostStops(c) \/ LostFails(c) \/ WriteLoop(c)
           \/ HealthStops(c) \/ PingSucceeds(c) \/ PingFails(c) \/ LinkDrops(c)
  <2>1. UNCHANGED <<dialled, conn, attempt, dialer, got>>
    BY <1>3 DEF ReadFails, LostStops, LostFails, WriteLoop, WriterTakes, WriterStops, WriteSucceeds,
       WriteFails, HealthStops, PingSucceeds, PingFails, LinkDrops
  <2>2. \A b \in Conns : link'[b] = "unused" <=> link[b] = "unused"
    BY <1>3 DEF ReadFails, LostStops, LostFails, WriteLoop, WriterTakes, WriterStops, WriteSucceeds,
       WriteFails, HealthStops, PingSucceeds, PingFails, LinkDrops, TypeOK
  <2>3. \A b \in Conns : writer[b] = "off" => writer'[b] = writer[b]
    BY <1>3 DEF ReadFails, LostStops, LostFails, WriteLoop, WriterTakes, WriterStops, WriteSucceeds,
       WriteFails, HealthStops, PingSucceeds, PingFails, LinkDrops, TypeOK
  <2>4. \A d \in Dialers : Setting(d)' => Setting(d) /\ got'[d] = got[d]
    BY <2>1 DEF Setting
  <2>. QED
    BY <2>1, <2>2, <2>3, <2>4, SameNumbers DEF NumberInv
<1>. QED
  BY <1>1, <1>2, <1>3 DEF Serve, ReadLoop, HealthLoop

LEMMA NextNumber == TypeOK /\ NumberInv /\ [Next]_vars => NumberInv'
<1>. SUFFICES ASSUME TypeOK, NumberInv, [Next]_vars PROVE NumberInv'
  OBVIOUS
<1>. USE DEF options, dials, loops, mail
<1>1. ASSUME NEW m \in Messages, Send(m) PROVE NumberInv'
  BY <1>1 DEF Send, SendChecks, SendQueues, SendAborts, NumberInv, Setting
<1>2. ASSUME NEW k \in Closers, CloseClears(k) PROVE NumberInv'
  <2>1. CloseConn /\ UNCHANGED <<dialled, writer, attempt, dialer, got>>
    BY <1>2 DEF CloseClears
  <2>2. \A d \in Dialers : Setting(d)' => Setting(d) /\ got'[d] = got[d]
    BY <2>1 DEF Setting
  <2>. QED
    BY <2>1, <2>2, CloseConnNumbers
<1>3. ASSUME NEW k \in Closers, CloseChecks(k) \/ CloseCancels(k) \/ CloseReports(k) PROVE NumberInv'
  BY <1>3 DEF CloseChecks, CloseCancels, CloseReports, NumberInv, Setting
<1>4. CASE UNCHANGED vars
  BY <1>4 DEF vars, NumberInv, Setting
<1>. QED
  BY <1>1, <1>2, <1>3, <1>4, ConnectNumbers, ServeNumbers DEF Next, Close

\* The channel is a suffix of what Send accepted.
LEMMA NextMail == TypeOK /\ MailInv /\ [Next]_vars => MailInv'
<1>. SUFFICES ASSUME TypeOK, MailInv, [Next]_vars PROVE MailInv'
  OBVIOUS
<1>. USE DEF options, dials, loops, mail
<1>0. /\ sendCh \in Seq(Messages) /\ accepted \in Seq(Messages)
      /\ Len(sendCh) \in Nat /\ Len(accepted) \in Nat
  BY DEF TypeOK
<1>1. ASSUME NEW c \in Conns, WriterTakes(c) PROVE MailInv'
  <2>1. /\ sendCh # <<>> /\ sendCh' = Tail(sendCh) /\ accepted' = accepted
        /\ wmsg' = [wmsg EXCEPT ![c] = Head(sendCh)] /\ writer' = [writer EXCEPT ![c] = "writing"]
    BY <1>1 DEF WriterTakes
  <2>2. /\ Len(sendCh') = Len(sendCh) - 1 /\ Len(sendCh) >= 1 /\ Head(sendCh) \in Messages
        /\ \A k \in 1 .. Len(sendCh) - 1 : sendCh'[k] = sendCh[k + 1]
    BY <1>0, <2>1
  <2>3. Len(sendCh') <= Len(accepted')
    BY <1>0, <2>1, <2>2 DEF MailInv
  <2>4. ASSUME NEW k \in 1 .. Len(sendCh') PROVE sendCh'[k] = accepted'[TakenCount' + k]
    <3>1. k + 1 \in 1 .. Len(sendCh) /\ k \in 1 .. Len(sendCh) - 1
      BY <1>0, <2>2
    <3>2. TakenCount' + k = TakenCount + (k + 1)
      BY <1>0, <2>1, <2>2, <3>1 DEF TakenCount
    <3>. QED
      BY <2>1, <2>2, <3>1, <3>2 DEF MailInv
  <2>5. \A b \in Conns : writer'[b] = "writing" => wmsg'[b] \in Messages
    BY <2>1, <2>2 DEF TypeOK, MailInv
  <2>. QED
    BY <2>3, <2>4, <2>5 DEF MailInv
<1>2. ASSUME NEW m \in Messages, SendQueues(m) PROVE MailInv'
  <2>1. /\ sendCh' = Append(sendCh, m) /\ accepted' = Append(accepted, m)
        /\ UNCHANGED <<writer, wmsg>>
    BY <1>2 DEF SendQueues
  <2>2. /\ Len(sendCh') = Len(sendCh) + 1 /\ Len(accepted') = Len(accepted) + 1
        /\ \A k \in 1 .. Len(sendCh) : sendCh'[k] = sendCh[k]
        /\ sendCh'[Len(sendCh) + 1] = m
        /\ \A k \in 1 .. Len(accepted) : accepted'[k] = accepted[k]
        /\ accepted'[Len(accepted) + 1] = m
    BY <1>0, <2>1
  <2>3. TakenCount' = TakenCount /\ TakenCount \in Nat
    BY <1>0, <2>2 DEF TakenCount, MailInv
  <2>4. ASSUME NEW k \in 1 .. Len(sendCh') PROVE sendCh'[k] = accepted'[TakenCount' + k]
    <3>1. CASE k = Len(sendCh) + 1
      <4>1. TakenCount + k = Len(accepted) + 1
        BY <1>0, <3>1 DEF TakenCount
      <4>. QED
        BY <2>2, <2>3, <3>1, <4>1
    <3>2. CASE k # Len(sendCh) + 1
      <4>1. k \in 1 .. Len(sendCh) /\ TakenCount + k \in 1 .. Len(accepted)
        BY <1>0, <2>2, <2>3, <3>2 DEF TakenCount
      <4>. QED
        BY <2>2, <2>3, <4>1 DEF MailInv
    <3>. QED
      BY <3>1, <3>2
  <2>5. Len(sendCh') <= Len(accepted')
    BY <1>0, <2>2 DEF MailInv
  <2>6. \A c \in Conns : writer'[c] = "writing" => wmsg'[c] \in Messages
    BY <2>1 DEF MailInv
  <2>. QED
    BY <2>4, <2>5, <2>6 DEF MailInv
<1>3. ASSUME UNCHANGED <<sendCh, accepted>>,
             \A c \in Conns : writer'[c] = "writing" => writer[c] = "writing" /\ wmsg'[c] = wmsg[c]
      PROVE  MailInv'
  BY <1>3 DEF MailInv, TakenCount
<1>4. ASSUME NEW d \in Dialers, Connect(d) PROVE MailInv'
  <2>1. \A c \in Conns : writer'[c] = "writing" => writer[c] = "writing" /\ wmsg'[c] = wmsg[c]
    BY <1>4 DEF Connect, ConnectCheck, ConnectDials, DialSucceeds, DialFails, ConnectClears,
       ConnectInstalls, ConnectReturns, TypeOK
  <2>2. UNCHANGED <<sendCh, accepted>>
    BY <1>4 DEF Connect, ConnectCheck, ConnectDials, DialSucceeds, DialFails, ConnectClears,
       ConnectInstalls, ConnectReturns
  <2>. QED
    BY <1>3, <2>1, <2>2
<1>5. ASSUME NEW c \in Conns, WriterStops(c) \/ WriteSucceeds(c) \/ WriteFails(c) PROVE MailInv'
  <2>1. \A b \in Conns : writer'[b] = "writing" => writer[b] = "writing" /\ wmsg'[b] = wmsg[b]
    BY <1>5 DEF WriterStops, WriteSucceeds, WriteFails, TypeOK
  <2>2. UNCHANGED <<sendCh, accepted>>
    BY <1>5 DEF WriterStops, WriteSucceeds, WriteFails
  <2>. QED
    BY <1>3, <2>1, <2>2
<1>6. ASSUME NEW c \in Conns, ReadLoop(c) \/ HealthLoop(c) \/ Reconnect(c) \/ LinkDrops(c)
      PROVE  MailInv'
  <2>1. UNCHANGED <<sendCh, accepted, writer, wmsg>>
    BY <1>6 DEF ReadLoop, ReadFails, LostClears, LostReconnects, LostStops, LostFails, HealthLoop,
       HealthStops, PingSucceeds, PingFails, HealthGivesUp, Reconnect, ReconnectLoops,
       ReconnectStops, ReconnectTries, ReconnectRetries, ReconnectGivesUp, LinkDrops
  <2>. QED
    BY <1>3, <2>1
<1>7. CASE \/ \E u \in Users : UserCalls(u)
           \/ \E m \in Messages : SendChecks(m) \/ SendAborts(m)
           \/ \E k \in Closers : Close(k)
           \/ UNCHANGED vars
  <2>1. UNCHANGED <<sendCh, accepted, writer, wmsg>>
    BY <1>7 DEF UserCalls, SendChecks, SendAborts, Close, CloseChecks, CloseCancels, CloseClears,
       CloseReports, vars
  <2>. QED
    BY <1>3, <2>1
<1>. QED
  BY <1>1, <1>2, <1>4, <1>5, <1>6, <1>7 DEF Next, Serve, WriteLoop, Send

-----------------------------------------------------------------------------
(* The token.                                                              *)

\* Every step of a goroutine that dials is an assignment to its place.
LEMMA DialerSteps ==
  ASSUME [Next]_vars
  PROVE  \/ dialer' = dialer
         \/ \E d \in Dialers, v \in {"top", "backoff", "called", "checked", "dialing", "dialled",
                "cleared", "installed", "ok", "err", "exhausted", "gaveUp", "ended",
                "panicked"} :
              dialer' = [dialer EXCEPT ![d] = v]
<1>. USE DEF options, dials, loops, mail
<1>. DEFINE Goal == \/ dialer' = dialer
                    \/ \E d \in Dialers, v \in {"top", "backoff", "called", "checked", "dialing",
                          "dialled", "cleared", "installed", "ok", "err", "exhausted", "gaveUp",
                          "ended", "panicked"} : dialer' = [dialer EXCEPT ![d] = v]
<1>1. ASSUME NEW u \in Users, UserCalls(u) PROVE Goal
  BY <1>1 DEF UserCalls, Dialers
<1>2. ASSUME NEW d \in Dialers, Connect(d) PROVE Goal
  <2>1. PICK v \in {"err", "checked", "dialing", "dialled", "cleared", "installed", "ok"} :
          dialer' = [dialer EXCEPT ![d] = v]
    BY <1>2, Zenon DEF Connect, ConnectCheck, ConnectDials, DialSucceeds, DialFails, ConnectClears,
       ConnectInstalls, ConnectReturns
  <2>. QED
    BY <2>1
<1>3. ASSUME NEW c \in Conns, LostReconnects(c) \/ Reconnect(c) PROVE Goal
  <2>1. PICK v \in {"top", "exhausted", "ended", "panicked", "backoff", "called", "gaveUp"} :
          dialer' = [dialer EXCEPT ![c] = v]
    BY <1>3, Zenon DEF LostReconnects, Reconnect, ReconnectLoops, ReconnectStops, ReconnectTries,
       ReconnectRetries, ReconnectGivesUp
  <2>2. c \in Dialers
    BY DEF Dialers
  <2>. QED
    BY <2>1, <2>2
<1>4. ASSUME NEW c \in Conns, Serve(c), ~LostReconnects(c), ~Reconnect(c) PROVE Goal
  BY <1>4 DEF Serve, ReadLoop, ReadFails, LostClears, LostStops, LostFails, WriteLoop, WriterTakes,
     WriterStops, WriteSucceeds, WriteFails, HealthLoop, HealthStops, PingSucceeds, PingFails,
     HealthGivesUp, LinkDrops
<1>5. CASE \/ \E m \in Messages : Send(m)
           \/ \E k \in Closers : Close(k)
           \/ UNCHANGED vars
  BY <1>5 DEF Send, SendChecks, SendQueues, SendAborts, Close, CloseChecks, CloseCancels,
     CloseClears, CloseReports, vars
<1>. QED
  BY <1>1, <1>2, <1>3, <1>4, <1>5 DEF Next

\* Who has called Connect stays so; if it is still one call now, it was before.
LEMMA CallsStay ==
  ASSUME TypeOK, [Next]_vars, OneCall'
  PROVE  OneCall /\ Called \subseteq Called' /\ (Called = {} \/ Called' = Called)
<1>1. Called \subseteq Called'
  <2>1. ASSUME NEW u \in Users, dialer[u] # "idle" PROVE dialer'[u] # "idle"
    <3>1. u \in Dialers
      BY DEF Dialers
    <3>2. CASE dialer' = dialer
      BY <2>1, <3>2
    <3>3. ASSUME NEW d \in Dialers,
                 NEW v \in {"top", "backoff", "called", "checked", "dialing", "dialled", "cleared",
                     "installed", "ok", "err", "exhausted", "gaveUp", "ended",
                "panicked"},
                 dialer' = [dialer EXCEPT ![d] = v]
          PROVE  dialer'[u] # "idle"
      BY <2>1, <3>1, <3>3 DEF TypeOK
    <3>. QED
      BY <3>2, <3>3, DialerSteps
  <2>. QED
    BY <2>1 DEF Called
<1>2. IsFiniteSet(Called') /\ IsFiniteSet(Called)
  <2>1. Called \in SUBSET Users /\ Called' \in SUBSET Users
    BY DEF Called
  <2>. QED
    BY <2>1, UsersAssumption, FS_Subset
<1>3. Cardinality(Called') <= 1 /\ Cardinality(Called') \in Nat /\ Cardinality(Called) \in Nat
  BY <1>2, FS_CardinalityType DEF OneCall, Called
<1>4. Cardinality(Called) <= Cardinality(Called')
  BY <1>1, <1>2, FS_Subset
<1>5. ASSUME NEW x \in Called, NEW y \in Called', y \notin Called PROVE FALSE
  <2>1. Called \cup {y} \subseteq Called'
    BY <1>1, <1>5
  <2>2. Cardinality(Called \cup {y}) = Cardinality(Called) + 1
    BY <1>2, <1>5, FS_AddElement
  <2>3. Cardinality(Called \cup {y}) <= Cardinality(Called')
    BY <1>2, <2>1, FS_Subset
  <2>4. Cardinality(Called) # 0
    BY <1>2, <1>5, FS_EmptySet
  <2>. QED
    BY <1>3, <2>2, <2>3, <2>4
<1>6. OneCall
  BY <1>3, <1>4 DEF OneCall, Called
<1>. QED
  BY <1>1, <1>5, <1>6

\* Nobody new dials or watches.
LEMMA TokenKept ==
  ASSUME TypeOK, TokenInv, [Next]_vars, Dialing' \subseteq Dialing, Watching' \subseteq Watching
  PROVE  TokenInv'
<1>. SUFFICES ASSUME OneCall'
     PROVE  /\ \A d, e \in Dialing' : d = e
            /\ \A b, c \in Watching' : b = c
            /\ Dialing' = {} \/ Watching' = {}
            /\ Called' = {} => Dialing' = {} /\ Watching' = {}
  BY DEF TokenInv
<1>1. OneCall /\ Called \subseteq Called'
  BY CallsStay
<1>. QED
  BY <1>1 DEF TokenInv

LEMMA NextToken == TypeOK /\ NumberInv /\ TokenInv /\ [Next]_vars => TokenInv'
<1>. SUFFICES ASSUME TypeOK, NumberInv, TokenInv, [Next]_vars PROVE TokenInv'
  OBVIOUS
<1>. USE DEF options, dials, loops, mail
<1>1. ASSUME NEW u \in Users, UserCalls(u) PROVE TokenInv'
  <2>. SUFFICES ASSUME OneCall'
       PROVE  /\ \A d, e \in Dialing' : d = e
              /\ \A b, c \in Watching' : b = c
              /\ Dialing' = {} \/ Watching' = {}
              /\ Called' = {} => Dialing' = {} /\ Watching' = {}
    BY DEF TokenInv
  <2>1. u \notin Called /\ u \in Called'
    BY <1>1 DEF UserCalls, Called, TypeOK, Dialers
  <2>2. OneCall /\ Called = {}
    BY <2>1, CallsStay
  <2>3. Dialing = {} /\ Watching = {}
    BY <2>2 DEF TokenInv
  <2>4. Dialing' \subseteq Dialing \cup {u}
    BY <1>1 DEF UserCalls, Dialing, TypeOK
  <2>5. Watching' = Watching
    BY <1>1 DEF UserCalls, Watching
  <2>. QED
    BY <2>1, <2>3, <2>4, <2>5
<1>2. ASSUME NEW d \in Dialers, Connect(d), ~ConnectReturns(d) PROVE TokenInv'
  <2>1. Dialing' \subseteq Dialing
    <3>1. dialer[d] \in {"called", "checked", "dialing", "dialled", "cleared"}
      BY <1>2 DEF Connect, ConnectCheck, ConnectDials, DialSucceeds, DialFails, ConnectClears,
         ConnectInstalls
    <3>2. d \in Dialing
      BY <3>1 DEF Dialing
    <3>3. \A e \in Dialers : e # d => dialer'[e] = dialer[e]
      BY <1>2 DEF Connect, ConnectCheck, ConnectDials, DialSucceeds, DialFails, ConnectClears,
         ConnectInstalls, TypeOK
    <3>. QED
      BY <3>2, <3>3 DEF Dialing
  <2>2. Watching' = Watching
    BY <1>2 DEF Connect, ConnectCheck, ConnectDials, DialSucceeds, DialFails, ConnectClears,
       ConnectInstalls, Watching
  <2>. QED
    BY <2>1, <2>2, TokenKept
<1>3. ASSUME NEW d \in Dialers, ConnectReturns(d) PROVE TokenInv'
  <2>. SUFFICES ASSUME OneCall'
       PROVE  /\ \A e, f \in Dialing' : e = f
              /\ \A b, c \in Watching' : b = c
              /\ Dialing' = {} \/ Watching' = {}
              /\ Called' = {} => Dialing' = {} /\ Watching' = {}
    BY DEF TokenInv
  <2>1. OneCall /\ Called \subseteq Called'
    BY CallsStay
  <2>2. d \in Dialing
    BY <1>3 DEF ConnectReturns, Dialing
  <2>3. Dialing = {d} /\ Watching = {} /\ Called # {}
    BY <2>1, <2>2 DEF TokenInv
  <2>4. Dialing' \subseteq Dialing \ {d}
    BY <1>3 DEF ConnectReturns, Dialing, TypeOK
  <2>5. Watching' \subseteq Watching \cup {got[d]}
    BY <1>3 DEF ConnectReturns, Watching, TypeOK
  <2>. QED
    BY <2>1, <2>3, <2>4, <2>5
<1>4. ASSUME NEW c \in Conns, LostReconnects(c) PROVE TokenInv'
  <2>. SUFFICES ASSUME OneCall'
       PROVE  /\ \A e, f \in Dialing' : e = f
              /\ \A a, b \in Watching' : a = b
              /\ Dialing' = {} \/ Watching' = {}
              /\ Called' = {} => Dialing' = {} /\ Watching' = {}
    BY DEF TokenInv
  <2>1. OneCall /\ Called \subseteq Called'
    BY CallsStay
  <2>2. c \in Watching
    BY <1>4 DEF LostReconnects, Watching
  <2>3. Watching = {c} /\ Dialing = {} /\ Called # {}
    BY <2>1, <2>2 DEF TokenInv
  <2>4. Dialing' \subseteq Dialing \cup {c}
    BY <1>4 DEF LostReconnects, Dialing, TypeOK
  <2>5. Watching' \subseteq Watching \ {c}
    BY <1>4 DEF LostReconnects, Watching, TypeOK
  <2>. QED
    BY <2>1, <2>3, <2>4, <2>5
<1>5. ASSUME NEW c \in Conns, Reconnect(c) PROVE TokenInv'
  <2>1. c \in Dialers /\ c \notin Users
    BY UsersAssumption DEF Dialers
  <2>2. dialer[c] \in {"top", "backoff", "err", "exhausted"}
    BY <1>5 DEF Reconnect, ReconnectLoops, ReconnectStops, ReconnectTries, ReconnectRetries,
       ReconnectGivesUp
  <2>3. c \in Dialing
    BY <2>1, <2>2 DEF Dialing
  <2>4. \A e \in Dialers : e # c => dialer'[e] = dialer[e]
    BY <1>5 DEF Reconnect, ReconnectLoops, ReconnectStops, ReconnectTries, ReconnectRetries,
       ReconnectGivesUp, TypeOK
  <2>5. Dialing' \subseteq Dialing
    BY <2>3, <2>4 DEF Dialing
  <2>6. Watching' = Watching
    BY <1>5 DEF Reconnect, ReconnectLoops, ReconnectStops, ReconnectTries, ReconnectRetries,
       ReconnectGivesUp, Watching
  <2>. QED
    BY <2>5, <2>6, TokenKept
<1>6. ASSUME NEW c \in Conns, ReadFails(c) \/ LostClears(c) \/ LostStops(c) \/ LostFails(c)
      PROVE  TokenInv'
  <2>1. Dialing' = Dialing
    BY <1>6 DEF ReadFails, LostClears, LostStops, LostFails, Dialing
  <2>2. \A b \in Conns : b # c => reader'[b] = reader[b]
    BY <1>6 DEF ReadFails, LostClears, LostStops, LostFails, TypeOK
  <2>3. c \in Watching \/ (reader[c] = "failing" /\ c \notin Watching')
    BY <1>6 DEF ReadFails, LostClears, LostStops, LostFails, Watching, TypeOK
  <2>4. Watching' \subseteq Watching
    BY <2>2, <2>3 DEF Watching
  <2>. QED
    BY <2>1, <2>4, TokenKept
<1>7. CASE \/ \E c \in Conns : WriteLoop(c) \/ HealthLoop(c) \/ LinkDrops(c)
           \/ \E m \in Messages : Send(m)
           \/ \E k \in Closers : Close(k)
           \/ UNCHANGED vars
  <2>1. UNCHANGED <<dialer, reader>>
    BY <1>7 DEF WriteLoop, WriterTakes, WriterStops, WriteSucceeds, WriteFails, HealthLoop,
       HealthStops, PingSucceeds, PingFails, HealthGivesUp, LinkDrops, Send, SendChecks, SendQueues,
       SendAborts, Close, CloseChecks, CloseCancels, CloseClears, CloseReports, vars
  <2>2. Dialing' = Dialing /\ Watching' = Watching
    BY <2>1 DEF Dialing, Watching
  <2>. QED
    BY <2>2, TokenKept
<1>. QED
  BY <1>1, <1>2, <1>3, <1>4, <1>5, <1>6, <1>7 DEF Next, Serve, ReadLoop

-----------------------------------------------------------------------------
(* The connection in hand.                                                 *)

LEMMA CloseConnAlive ==
  ASSUME TypeOK, CloseConn, ctxDone' = ctxDone
  PROVE  conn' = None /\ Alive' \subseteq Alive \ {conn}
<1>1. conn' = None /\ \A c \in Conns : link'[c] = IF c = conn THEN "closed" ELSE link[c]
  BY DEF CloseConn
<1>2. ASSUME NEW c \in Alive' PROVE c \in Alive /\ c # conn
  <2>1. c \in Conns /\ link'[c] # "unused" /\ link'[c] # "closed" /\ ~ctxDone'
    BY <1>2 DEF Alive, Dead
  <2>2. c # conn /\ link'[c] = link[c]
    BY <1>1, <2>1
  <2>. QED
    BY <2>1, <2>2 DEF Alive, Dead
<1>. QED
  BY <1>1, <1>2

\* What Connect holds has a number.
LEMMA GotIsConn ==
  ASSUME TypeOK, NumberInv
  PROVE  \A d \in Dialers : Setting(d) => got[d] \in Conns
<1>. SUFFICES ASSUME NEW d \in Dialers, Setting(d) PROVE got[d] \in Conns
  OBVIOUS
<1>1. got[d] \in 1 .. dialled /\ got[d] \in Conns \cup {None}
  BY DEF NumberInv, TypeOK
<1>2. got[d] # 0
  BY <1>1, NumbersAssumption DEF TypeOK
<1>. QED
  BY <1>1, <1>2 DEF None

\* A step outside Connect that at most closes the current connection.
LEMMA HandKept ==
  ASSUME TypeOK, NumberInv, HandInv, [Next]_vars,
         \A d \in Dialers : Setting(d) \/ Setting(d)' => dialer'[d] = dialer[d] /\ got'[d] = got[d],
         \A c \in Conns : writer[c] = "off" => writer'[c] = "off",
         Alive' \subseteq Alive,
         conn' = conn \/ (conn' = None /\ conn \notin Alive')
  PROVE  HandInv'
<1>. SUFFICES ASSUME OneCall'
     PROVE  /\ \A d \in Dialers : dialer'[d] = "cleared" => conn' = None
            /\ \A d \in Dialers : Setting(d)' => writer'[got'[d]] = "off"
            /\ Alive' \subseteq {conn'} \cup InHand'
  BY DEF HandInv
<1>0. OneCall
  BY CallsStay
<1>1. \A d \in Dialers : dialer'[d] = "cleared" => conn' = None
  BY <1>0 DEF HandInv, Setting
<1>2. ASSUME NEW d \in Dialers, Setting(d)' PROVE writer'[got'[d]] = "off"
  <2>1. Setting(d) /\ got'[d] = got[d]
    BY <1>2 DEF Setting
  <2>2. got[d] \in Conns
    BY <2>1, GotIsConn
  <2>. QED
    BY <1>0, <2>1, <2>2 DEF HandInv
<1>3. InHand' = InHand
  <2>1. \A d \in Dialers : dialer'[d] \in {"dialled", "cleared"} <=> dialer[d] \in {"dialled", "cleared"}
    BY DEF Setting
  <2>2. \A d \in Dialers : dialer[d] \in {"dialled", "cleared"} => got'[d] = got[d]
    BY DEF Setting
  <2>. QED
    BY <2>1, <2>2 DEF InHand
<1>4. Alive \subseteq {conn} \cup InHand
  BY <1>0 DEF HandInv
<1>. QED
  BY <1>1, <1>2, <1>3, <1>4

\* The steps of the goroutine that sets up a connection.  It is the only one.
LEMMA ConnectHand ==
  ASSUME TypeOK, NumberInv, TokenInv, HandInv, [Next]_vars, NEW d \in Dialers, Connect(d)
  PROVE  HandInv'
<1>. USE DEF options, dials, loops, mail
<1>. SUFFICES ASSUME OneCall' PROVE HandInv'
  BY DEF HandInv
<1>0. OneCall
  BY CallsStay
<1>1. CASE ConnectCheck(d) \/ ConnectDials(d) \/ DialFails(d)
  <2>1. UNCHANGED <<conn, link, ctxDone, got, writer>>
    BY <1>1 DEF ConnectCheck, ConnectDials, DialFails
  <2>2. PICK v \in {"err", "checked", "dialing"} : dialer' = [dialer EXCEPT ![d] = v]
    BY <1>1, Zenon DEF ConnectCheck, ConnectDials, DialFails
  <2>3. dialer[d] \in {"called", "checked", "dialing"}
    BY <1>1 DEF ConnectCheck, ConnectDials, DialFails
  <2>4. \A e \in Dialers : Setting(e) \/ Setting(e)' => dialer'[e] = dialer[e] /\ got'[e] = got[e]
    BY <2>1, <2>2, <2>3 DEF Setting, TypeOK
  <2>5. Alive' = Alive
    BY <2>1 DEF Alive, Dead
  <2>. QED
    BY <2>1, <2>4, <2>5, HandKept
<1>2. CASE DialSucceeds(d)
  <2>0. dialled + 1 \in Conns /\ dialled \in Nat
    BY <1>2, NumbersAssumption DEF DialSucceeds, TypeOK, Conns
  <2>1. UNCHANGED <<conn, ctxDone, writer>> /\ dialer[d] = "dialing"
    BY <1>2 DEF DialSucceeds
  <2>2. /\ dialer'[d] = "dialled" /\ got'[d] = dialled + 1
        /\ \A e \in Dialers \ {d} : dialer'[e] = dialer[e] /\ got'[e] = got[e]
    BY <1>2 DEF DialSucceeds, TypeOK
  <2>3. \A c \in Conns : c # dialled + 1 => link'[c] = link[c]
    BY <1>2 DEF DialSucceeds, TypeOK
  <2>4. \A e \in Dialers : dialer'[e] = "cleared" => conn' = None
    BY <1>0, <2>1, <2>2 DEF HandInv
  <2>5. writer'[dialled + 1] = "off"
    <3>1. dialled + 1 > dialled
      BY <2>0
    <3>. QED
      BY <2>0, <2>1, <3>1 DEF NumberInv
  <2>6. \A e \in Dialers : Setting(e)' => writer'[got'[e]] = "off"
    BY <1>0, <2>1, <2>2, <2>5 DEF HandInv, Setting
  <2>7. Alive' \subseteq Alive \cup {dialled + 1}
    BY <2>1, <2>3 DEF Alive, Dead
  <2>8. dialled + 1 \in InHand'
    BY <2>2 DEF InHand
  <2>9. InHand \subseteq InHand'
    BY <2>1, <2>2 DEF InHand
  <2>10. Alive \subseteq {conn} \cup InHand
    BY <1>0 DEF HandInv
  <2>. QED
    BY <2>1, <2>4, <2>6, <2>7, <2>8, <2>9, <2>10 DEF HandInv
<1>3. CASE ConnectClears(d)
  <2>1. UNCHANGED <<ctxDone, writer, got>> /\ dialer[d] = "dialled" /\ CloseConn
    BY <1>3 DEF ConnectClears
  <2>2. dialer'[d] = "cleared" /\ \A e \in Dialers \ {d} : dialer'[e] = dialer[e]
    BY <1>3 DEF ConnectClears, TypeOK
  <2>3. conn' = None /\ Alive' \subseteq Alive \ {conn}
    BY <2>1, CloseConnAlive
  <2>4. \A e \in Dialers : Setting(e)' => writer'[got'[e]] = "off"
    BY <1>0, <2>1, <2>2 DEF HandInv, Setting
  <2>5. InHand' = InHand
    BY <2>1, <2>2 DEF InHand
  <2>6. Alive \subseteq {conn} \cup InHand
    BY <1>0 DEF HandInv
  <2>. QED
    BY <2>3, <2>4, <2>5, <2>6 DEF HandInv
<1>4. CASE ConnectInstalls(d)
  <2>1. UNCHANGED <<ctxDone, writer, got, link>> /\ dialer[d] = "cleared" /\ conn' = got[d]
    BY <1>4 DEF ConnectInstalls
  <2>2. dialer'[d] = "installed" /\ \A e \in Dialers \ {d} : dialer'[e] = dialer[e]
    BY <1>4 DEF ConnectInstalls, TypeOK
  <2>3. Dialing = {d}
    <3>1. d \in Dialing
      BY <2>1 DEF Dialing
    <3>. QED
      BY <1>0, <3>1 DEF TokenInv
  <2>4. \A e \in Dialers \ {d} : dialer[e] \notin {"dialled", "cleared"}
    BY <2>3 DEF Dialing
  <2>5. InHand \subseteq {got[d]}
    BY <2>4 DEF InHand
  <2>6. conn = None /\ Alive \subseteq {conn} \cup InHand
    BY <1>0, <2>1 DEF HandInv
  <2>7. None \notin Alive
    BY NumbersAssumption DEF None, Conns, Alive
  <2>8. Alive' = Alive
    BY <2>1 DEF Alive, Dead
  <2>9. Alive' \subseteq {conn'}
    BY <2>1, <2>5, <2>6, <2>7, <2>8
  <2>10. \A e \in Dialers : dialer'[e] # "cleared"
    BY <2>2, <2>4
  <2>11. \A e \in Dialers : Setting(e)' => writer'[got'[e]] = "off"
    BY <1>0, <2>1, <2>2 DEF HandInv, Setting
  <2>. QED
    BY <2>9, <2>10, <2>11 DEF HandInv
<1>5. CASE ConnectReturns(d)
  <2>1. UNCHANGED <<ctxDone, conn, link>> /\ dialer[d] = "installed"
    BY <1>5 DEF ConnectReturns
  <2>2. dialer'[d] = "ok" /\ \A e \in Dialers \ {d} : dialer'[e] = dialer[e]
    BY <1>5 DEF ConnectReturns, TypeOK
  <2>3. Dialing = {d}
    <3>1. d \in Dialing
      BY <2>1 DEF Dialing
    <3>. QED
      BY <1>0, <3>1 DEF TokenInv
  <2>4. \A e \in Dialers \ {d} : dialer[e] \notin {"dialled", "cleared", "installed"}
    BY <2>3 DEF Dialing
  <2>5. \A e \in Dialers : ~Setting(e)' /\ dialer'[e] # "cleared"
    BY <2>2, <2>4 DEF Setting
  <2>6. InHand = {}
    BY <2>1, <2>4 DEF InHand
  <2>7. Alive' = Alive
    BY <2>1 DEF Alive, Dead
  <2>8. Alive' \subseteq {conn'}
    BY <1>0, <2>1, <2>6, <2>7 DEF HandInv
  <2>. QED
    BY <2>5, <2>8 DEF HandInv
<1>. QED
  BY <1>1, <1>2, <1>3, <1>4, <1>5 DEF Connect

LEMMA NextHand == TypeOK /\ NumberInv /\ TokenInv /\ HandInv /\ [Next]_vars => HandInv'
<1>. SUFFICES ASSUME TypeOK, NumberInv, TokenInv, HandInv, [Next]_vars PROVE HandInv'
  OBVIOUS
<1>. USE DEF options, dials, loops, mail
<1>1. ASSUME NEW u \in Users, UserCalls(u) PROVE HandInv'
  <2>1. \A d \in Dialers : Setting(d) \/ Setting(d)' => dialer'[d] = dialer[d] /\ got'[d] = got[d]
    BY <1>1 DEF UserCalls, Setting, TypeOK
  <2>2. UNCHANGED <<conn, link, ctxDone, writer>>
    BY <1>1 DEF UserCalls
  <2>3. Alive' = Alive
    BY <2>2 DEF Alive, Dead
  <2>. QED
    BY <2>1, <2>2, <2>3, HandKept
<1>2. ASSUME NEW c \in Conns, Reconnect(c) PROVE HandInv'
  <2>1. PICK v \in {"top", "exhausted", "ended", "panicked", "backoff", "called", "gaveUp"} :
          dialer' = [dialer EXCEPT ![c] = v]
    BY <1>2, Zenon DEF Reconnect, ReconnectLoops, ReconnectStops, ReconnectTries,
       ReconnectRetries, ReconnectGivesUp
  <2>2. /\ dialer[c] \in {"top", "backoff", "err", "exhausted"}
        /\ UNCHANGED <<got, conn, link, ctxDone, writer>>
    BY <1>2 DEF Reconnect, ReconnectLoops, ReconnectStops, ReconnectTries,
       ReconnectRetries, ReconnectGivesUp
  <2>3. \A d \in Dialers : Setting(d) \/ Setting(d)' => dialer'[d] = dialer[d] /\ got'[d] = got[d]
    BY <2>1, <2>2 DEF Setting, TypeOK
  <2>4. Alive' = Alive
    BY <2>2 DEF Alive, Dead
  <2>. QED
    BY <2>2, <2>3, <2>4, HandKept
<1>3. ASSUME NEW c \in Conns, LostReconnects(c) PROVE HandInv'
  <2>. SUFFICES ASSUME OneCall' PROVE HandInv'
    BY DEF HandInv
  <2>1. UNCHANGED <<got, conn, link, ctxDone, writer>> /\ dialer' = [dialer EXCEPT ![c] = "top"]
    BY <1>3 DEF LostReconnects
  <2>2. c \in Watching
    BY <1>3 DEF LostReconnects, Watching
  <2>3. Dialing = {}
    BY <2>2, CallsStay DEF TokenInv
  <2>4. \A d \in Dialers : ~Setting(d)
    BY <2>3 DEF Dialing, Setting
  <2>5. \A d \in Dialers : Setting(d) \/ Setting(d)' => dialer'[d] = dialer[d] /\ got'[d] = got[d]
    BY <2>1, <2>4 DEF Setting, TypeOK
  <2>6. Alive' = Alive
    BY <2>1 DEF Alive, Dead
  <2>. QED
    BY <2>1, <2>5, <2>6, HandKept
<1>4. ASSUME NEW c \in Conns, WriteLoop(c) PROVE HandInv'
  <2>1. UNCHANGED <<dialer, got, conn, link, ctxDone>>
    BY <1>4 DEF WriteLoop, WriterTakes, WriterStops, WriteSucceeds, WriteFails
  <2>2. \A b \in Conns : writer[b] = "off" => writer'[b] = "off"
    BY <1>4 DEF WriteLoop, WriterTakes, WriterStops, WriteSucceeds, WriteFails, TypeOK
  <2>3. Alive' = Alive
    BY <2>1 DEF Alive, Dead
  <2>. QED
    BY <2>1, <2>2, <2>3, HandKept
<1>5. ASSUME CloseConn, UNCHANGED <<dialer, got, ctxDone, writer>> PROVE HandInv'
  <2>1. conn' = None /\ Alive' \subseteq Alive \ {conn}
    BY <1>5, CloseConnAlive
  <2>. QED
    BY <1>5, <2>1, HandKept
<1>6. ASSUME NEW c \in Conns, LostClears(c) \/ HealthGivesUp(c) PROVE HandInv'
  BY <1>5, <1>6 DEF LostClears, HealthGivesUp
<1>7. ASSUME NEW k \in Closers, CloseClears(k) PROVE HandInv'
  BY <1>5, <1>7 DEF CloseClears
<1>8. ASSUME NEW k \in Closers, CloseCancels(k) PROVE HandInv'
  <2>1. UNCHANGED <<dialer, got, conn, writer>> /\ ctxDone'
    BY <1>8 DEF CloseCancels
  <2>2. Alive' = {}
    BY <2>1 DEF Alive, Dead
  <2>. QED
    BY <2>1, <2>2, HandKept
<1>9. ASSUME NEW c \in Conns, LinkDrops(c) PROVE HandInv'
  <2>1. UNCHANGED <<dialer, got, conn, ctxDone, writer>>
    BY <1>9 DEF LinkDrops
  <2>2. /\ link[c] = "open" /\ link'[c] = "lost"
        /\ \A b \in Conns \ {c} : link'[b] = link[b]
    BY <1>9 DEF LinkDrops, TypeOK
  <2>3. Alive' = Alive
    BY <2>1, <2>2 DEF Alive, Dead
  <2>. QED
    BY <2>1, <2>3, HandKept
<1>10. CASE \/ \E c \in Conns : \/ ReadFails(c) \/ LostStops(c) \/ LostFails(c)
                                \/ HealthStops(c) \/ PingSucceeds(c) \/ PingFails(c)
            \/ \E m \in Messages : Send(m)
            \/ \E k \in Closers : CloseChecks(k) \/ CloseReports(k)
            \/ UNCHANGED vars
  <2>1. UNCHANGED <<dialer, got, conn, link, ctxDone, writer>>
    BY <1>10 DEF ReadFails, LostStops, LostFails, HealthStops, PingSucceeds, PingFails, Send,
       SendChecks, SendQueues, SendAborts, CloseChecks, CloseReports, vars
  <2>2. Alive' = Alive
    BY <2>1 DEF Alive, Dead
  <2>. QED
    BY <2>1, <2>2, HandKept
<1>. QED
  BY <1>1, <1>2, <1>3, <1>4, <1>6, <1>7, <1>8, <1>9, <1>10, ConnectHand
     DEF Next, Serve, ReadLoop, HealthLoop, Close

-----------------------------------------------------------------------------
(* The order of delivery.                                                  *)

\* Nothing brings a cancelled connection back.
LEMMA DeadStays ==
  ASSUME TypeOK, NumberInv, [Next]_vars
  PROVE  \A c \in Conns : Dead(c) => Dead(c)'
<1>. USE DEF options, dials, loops, mail
<1>1. ASSUME UNCHANGED <<link, ctxDone>> PROVE \A c \in Conns : Dead(c) => Dead(c)'
  BY <1>1 DEF Dead
<1>2. ASSUME CloseConn, ctxDone' = ctxDone PROVE \A c \in Conns : Dead(c) => Dead(c)'
  BY <1>2 DEF Dead, CloseConn
<1>3. ASSUME NEW d \in Dialers, Connect(d) PROVE \A c \in Conns : Dead(c) => Dead(c)'
  <2>1. CASE DialSucceeds(d)
    <3>1. dialled + 1 \in Conns /\ dialled \in Nat
      BY <2>1, NumbersAssumption DEF DialSucceeds, TypeOK, Conns
    <3>2. ~(dialled + 1 <= dialled)
      BY <3>1
    <3>3. link[dialled + 1] = "unused"
      BY <3>1, <3>2 DEF NumberInv
    <3>4. \A c \in Conns : c # dialled + 1 => link'[c] = link[c]
      BY <2>1 DEF DialSucceeds, TypeOK
    <3>5. ctxDone' = ctxDone
      BY <2>1 DEF DialSucceeds
    <3>. QED
      BY <3>3, <3>4, <3>5 DEF Dead
  <2>2. CASE ConnectClears(d)
    BY <1>2, <2>2 DEF ConnectClears
  <2>3. CASE ~DialSucceeds(d) /\ ~ConnectClears(d)
    BY <1>1, <1>3, <2>3 DEF Connect, ConnectCheck, ConnectDials, DialFails, ConnectInstalls,
       ConnectReturns
  <2>. QED
    BY <2>1, <2>2, <2>3
<1>4. ASSUME NEW c \in Conns, LostClears(c) \/ HealthGivesUp(c)
      PROVE  \A b \in Conns : Dead(b) => Dead(b)'
  BY <1>2, <1>4 DEF LostClears, HealthGivesUp
<1>5. ASSUME NEW c \in Conns, LinkDrops(c) PROVE \A b \in Conns : Dead(b) => Dead(b)'
  BY <1>5 DEF LinkDrops, Dead, TypeOK
<1>6. ASSUME NEW k \in Closers, Close(k) PROVE \A c \in Conns : Dead(c) => Dead(c)'
  <2>1. CASE CloseCancels(k)
    BY <2>1 DEF CloseCancels, Dead
  <2>2. CASE CloseClears(k)
    BY <1>2, <2>2 DEF CloseClears
  <2>3. CASE CloseChecks(k) \/ CloseReports(k)
    BY <1>1, <2>3 DEF CloseChecks, CloseReports
  <2>. QED
    BY <1>6, <2>1, <2>2, <2>3 DEF Close
<1>7. ASSUME \/ \E u \in Users : UserCalls(u)
             \/ \E c \in Conns : \/ ReadFails(c) \/ LostReconnects(c) \/ LostStops(c)
                                 \/ LostFails(c) \/ WriteLoop(c) \/ Reconnect(c)
                                 \/ HealthStops(c) \/ PingSucceeds(c) \/ PingFails(c)
             \/ \E m \in Messages : Send(m)
             \/ UNCHANGED vars
      PROVE  \A c \in Conns : Dead(c) => Dead(c)'
  <2>1. UNCHANGED <<link, ctxDone>>
    BY <1>7 DEF UserCalls, ReadFails, LostReconnects, LostStops, LostFails, WriteLoop, WriterTakes,
       WriterStops, WriteSucceeds, WriteFails, Reconnect, ReconnectLoops, ReconnectStops,
       ReconnectTries, ReconnectRetries, ReconnectGivesUp, HealthStops, PingSucceeds, PingFails,
       Send, SendChecks, SendQueues, SendAborts, vars
  <2>. QED
    BY <1>1, <2>1
<1>. QED
  BY <1>3, <1>4, <1>5, <1>6, <1>7 DEF Next, Serve, ReadLoop, HealthLoop

\* A step that takes and delivers nothing.
LEMMA OrderKept ==
  ASSUME TypeOK, NumberInv, OrderInv, [Next]_vars,
         TakenCount' = TakenCount, delivered' = delivered,
         \A i \in 1 .. TakenCount : accepted'[i] = accepted[i],
         \A c \in Conns : writer'[c] = "writing" => writer[c] = "writing" /\ wmsg'[c] = wmsg[c]
  PROVE  OrderInv'
<1>. SUFFICES ASSUME OneCall'
     PROVE  \E f \in [1 .. Len(delivered') -> 1 .. TakenCount'] : Embeds(f)'
  BY DEF OrderInv
<1>1. OneCall
  BY CallsStay
<1>2. PICK f \in [1 .. Len(delivered) -> 1 .. TakenCount] : Embeds(f)
  BY <1>1 DEF OrderInv
<1>3. \A p \in 1 .. Len(delivered') : accepted'[f[p]] = delivered'[p]
  BY <1>2 DEF Embeds
<1>4. \A p, q \in 1 .. Len(delivered') : p < q => f[p] < f[q]
  BY <1>2 DEF Embeds
<1>5. ASSUME NEW c \in Conns, writer'[c] = "writing", ~Dead(c)'
      PROVE  \E i \in 1 .. TakenCount' : /\ accepted'[i] = wmsg'[c]
                                         /\ \A p \in 1 .. Len(delivered') : f[p] < i
  <2>1. writer[c] = "writing" /\ ~Dead(c) /\ wmsg'[c] = wmsg[c]
    BY <1>5, DeadStays
  <2>2. PICK i \in 1 .. TakenCount : /\ accepted[i] = wmsg[c]
                                     /\ \A p \in 1 .. Len(delivered) : f[p] < i
    BY <1>2, <2>1 DEF Embeds
  <2>. QED
    BY <2>1, <2>2
<1>6. Embeds(f)'
  BY <1>3, <1>4, <1>5 DEF Embeds
<1>. QED
  BY <1>2, <1>6

\* A writer takes the next message.
LEMMA TakesOrder ==
  ASSUME TypeOK, MailInv, OrderInv, [Next]_vars, NEW c \in Conns, WriterTakes(c)
  PROVE  OrderInv'
<1>. USE DEF options, dials, loops, mail
<1>. SUFFICES ASSUME OneCall'
     PROVE  \E f \in [1 .. Len(delivered') -> 1 .. TakenCount'] : Embeds(f)'
  BY DEF OrderInv
<1>1. OneCall
  BY CallsStay
<1>2. PICK f \in [1 .. Len(delivered) -> 1 .. TakenCount] : Embeds(f)
  BY <1>1 DEF OrderInv
<1>3. /\ sendCh # <<>> /\ sendCh' = Tail(sendCh)
      /\ UNCHANGED <<accepted, delivered, link, ctxDone>>
    BY DEF WriterTakes
<1>4. /\ writer'[c] = "writing" /\ wmsg'[c] = Head(sendCh)
      /\ \A b \in Conns \ {c} : writer'[b] = writer[b] /\ wmsg'[b] = wmsg[b]
  BY DEF WriterTakes, TypeOK
<1>5. sendCh \in Seq(Messages) /\ accepted \in Seq(Messages)
  BY DEF TypeOK
<1>6. /\ Len(sendCh) \in Nat /\ Len(accepted) \in Nat /\ Len(sendCh) >= 1
      /\ Len(sendCh') = Len(sendCh) - 1 /\ Head(sendCh) = sendCh[1]
  BY <1>3, <1>5
<1>7. TakenCount \in Nat /\ TakenCount' = TakenCount + 1
  BY <1>3, <1>6 DEF TakenCount, MailInv
<1>8. accepted[TakenCount + 1] = Head(sendCh)
  BY <1>6 DEF MailInv
<1>9. f \in [1 .. Len(delivered') -> 1 .. TakenCount']
  <2>1. \A p \in 1 .. Len(delivered) : f[p] \in 1 .. TakenCount + 1
    BY <1>2, <1>7
  <2>. QED
    BY <1>2, <1>3, <1>7, <2>1
<1>10. ASSUME NEW b \in Conns, writer'[b] = "writing", ~Dead(b)'
       PROVE  \E i \in 1 .. TakenCount' : /\ accepted'[i] = wmsg'[b]
                                          /\ \A p \in 1 .. Len(delivered') : f[p] < i
  <2>1. CASE b = c
    <3>1. TakenCount + 1 \in 1 .. TakenCount'
      BY <1>7
    <3>2. \A p \in 1 .. Len(delivered') : f[p] < TakenCount + 1
      BY <1>2, <1>3, <1>7
    <3>. QED
      BY <1>3, <1>4, <1>8, <2>1, <3>1, <3>2
  <2>2. CASE b # c
    <3>1. writer[b] = "writing" /\ ~Dead(b) /\ wmsg'[b] = wmsg[b]
      BY <1>3, <1>4, <1>10, <2>2 DEF Dead
    <3>2. PICK i \in 1 .. TakenCount : /\ accepted[i] = wmsg[b]
                                       /\ \A p \in 1 .. Len(delivered) : f[p] < i
      BY <1>2, <3>1 DEF Embeds
    <3>3. i \in 1 .. TakenCount'
      BY <1>7
    <3>. QED
      BY <1>3, <3>1, <3>2, <3>3
  <2>. QED
    BY <2>1, <2>2
<1>11. Embeds(f)'
  BY <1>2, <1>3, <1>10 DEF Embeds
<1>. QED
  BY <1>9, <1>11

\* Only the current connection's writer can be writing to a live connection.
LEMMA OneWriter ==
  ASSUME TypeOK, NumberInv, HandInv, OneCall
  PROVE  \A c \in Conns : writer[c] = "writing" /\ ~Dead(c) => c = conn
<1>. SUFFICES ASSUME NEW c \in Conns, writer[c] = "writing", ~Dead(c) PROVE c = conn
  OBVIOUS
<1>1. link[c] # "unused"
  <2>1. c \in Int /\ dialled \in Int
    BY NumbersAssumption DEF Conns, TypeOK
  <2>2. ~(c > dialled)
    BY DEF NumberInv
  <2>3. c <= dialled
    BY <2>1, <2>2
  <2>. QED
    BY <2>3 DEF NumberInv
<1>2. c \in {conn} \cup InHand
  BY <1>1 DEF Alive, HandInv
<1>3. c \notin InHand
  BY DEF InHand, HandInv, Setting
<1>. QED
  BY <1>2, <1>3

\* The peer receives a message.
LEMMA DeliversOrder ==
  ASSUME TypeOK, NumberInv, MailInv, HandInv, OrderInv, [Next]_vars,
         NEW c \in Conns, WriteSucceeds(c), link[c] = "open"
  PROVE  OrderInv'
<1>. USE DEF options, dials, loops, mail
<1>. SUFFICES ASSUME OneCall'
     PROVE  \E f \in [1 .. Len(delivered') -> 1 .. TakenCount'] : Embeds(f)'
  BY DEF OrderInv
<1>1. OneCall
  BY CallsStay
<1>2. PICK f \in [1 .. Len(delivered) -> 1 .. TakenCount] : Embeds(f)
  BY <1>1 DEF OrderInv
<1>3. /\ delivered' = Append(delivered, wmsg[c]) /\ UNCHANGED <<accepted, sendCh, link, ctxDone>>
      /\ writer[c] = "writing" /\ ~Dead(c)
  BY DEF WriteSucceeds
<1>4. TakenCount' = TakenCount
  BY <1>3 DEF TakenCount
<1>5. PICK i \in 1 .. TakenCount : /\ accepted[i] = wmsg[c]
                                   /\ \A p \in 1 .. Len(delivered) : f[p] < i
  BY <1>2, <1>3 DEF Embeds
<1>6. wmsg[c] \in Messages /\ delivered \in Seq(Messages)
  BY <1>3 DEF MailInv, TypeOK
<1>7. /\ Len(delivered) \in Nat /\ Len(delivered') = Len(delivered) + 1
      /\ \A p \in 1 .. Len(delivered) : delivered'[p] = delivered[p]
      /\ delivered'[Len(delivered) + 1] = wmsg[c]
  BY <1>3, <1>6
<1>8. ASSUME NEW b \in Conns, writer'[b] = "writing", ~Dead(b)' PROVE FALSE
  <2>1. b # c /\ writer[b] = "writing" /\ ~Dead(b)
    BY <1>3, <1>8 DEF WriteSucceeds, TypeOK, Dead
  <2>. QED
    BY <1>1, <1>3, <2>1, OneWriter
<1>. DEFINE N == Len(delivered)
<1>0. PICK g : g = [p \in 1 .. N + 1 |-> IF p = N + 1 THEN i ELSE f[p]]
  OBVIOUS
<1>9. \A p \in 1 .. N : p \in 1 .. N + 1 /\ g[p] = f[p]
  BY <1>0, <1>7
<1>10. N + 1 \in 1 .. N + 1 /\ g[N + 1] = i /\ \A p \in 1 .. N + 1 : p = N + 1 \/ p \in 1 .. N
  BY <1>0, <1>7
<1>11. g \in [1 .. Len(delivered') -> 1 .. TakenCount']
  BY <1>0, <1>2, <1>4, <1>5, <1>7
<1>12. \A p \in 1 .. Len(delivered') : accepted'[g[p]] = delivered'[p]
  BY <1>2, <1>3, <1>5, <1>7, <1>9, <1>10 DEF Embeds
<1>13. ASSUME NEW p \in 1 .. Len(delivered'), NEW q \in 1 .. Len(delivered'), p < q
       PROVE  g[p] < g[q]
  <2>1. p \in 1 .. N
    BY <1>7, <1>13
  <2>2. CASE q = N + 1
    BY <1>5, <1>9, <1>10, <2>1, <2>2
  <2>3. CASE q \in 1 .. N
    BY <1>2, <1>9, <1>13, <2>1, <2>3 DEF Embeds
  <2>. QED
    BY <1>7, <1>10, <2>2, <2>3
<1>14. Embeds(g)'
  BY <1>8, <1>12, <1>13 DEF Embeds
<1>. QED
  BY <1>11, <1>14

LEMMA NextOrder ==
  TypeOK /\ NumberInv /\ MailInv /\ HandInv /\ OrderInv /\ [Next]_vars => OrderInv'
<1>. SUFFICES ASSUME TypeOK, NumberInv, MailInv, HandInv, OrderInv, [Next]_vars PROVE OrderInv'
  OBVIOUS
<1>. USE DEF options, dials, loops, mail
<1>1. ASSUME UNCHANGED <<sendCh, accepted, delivered>>,
             \A c \in Conns : writer'[c] = "writing" => writer[c] = "writing" /\ wmsg'[c] = wmsg[c]
      PROVE  OrderInv'
  <2>1. TakenCount' = TakenCount
    BY <1>1 DEF TakenCount
  <2>. QED
    BY <1>1, <2>1, OrderKept
<1>2. ASSUME NEW m \in Messages, SendQueues(m) PROVE OrderInv'
  <2>1. /\ sendCh' = Append(sendCh, m) /\ accepted' = Append(accepted, m)
        /\ UNCHANGED <<writer, wmsg, delivered>>
    BY <1>2 DEF SendQueues
  <2>2. sendCh \in Seq(Messages) /\ accepted \in Seq(Messages)
    BY DEF TypeOK
  <2>3. /\ Len(sendCh) \in Nat /\ Len(accepted) \in Nat
        /\ Len(sendCh') = Len(sendCh) + 1 /\ Len(accepted') = Len(accepted) + 1
        /\ \A i \in 1 .. Len(accepted) : accepted'[i] = accepted[i]
    BY <2>1, <2>2
  <2>4. TakenCount' = TakenCount /\ TakenCount \in Int /\ TakenCount <= Len(accepted)
    BY <2>3 DEF TakenCount
  <2>5. \A i \in 1 .. TakenCount : accepted'[i] = accepted[i]
    BY <2>3, <2>4
  <2>. QED
    BY <2>1, <2>4, <2>5, OrderKept
<1>3. ASSUME NEW c \in Conns, WriteSucceeds(c), link[c] # "open" PROVE OrderInv'
  <2>1. UNCHANGED <<sendCh, accepted, delivered>>
    BY <1>3 DEF WriteSucceeds
  <2>2. \A b \in Conns : writer'[b] = "writing" => writer[b] = "writing" /\ wmsg'[b] = wmsg[b]
    BY <1>3 DEF WriteSucceeds, TypeOK
  <2>. QED
    BY <1>1, <2>1, <2>2
<1>4. ASSUME NEW c \in Conns, WriterStops(c) \/ WriteFails(c) PROVE OrderInv'
  <2>1. UNCHANGED <<sendCh, accepted, delivered>>
    BY <1>4 DEF WriterStops, WriteFails
  <2>2. \A b \in Conns : writer'[b] = "writing" => writer[b] = "writing" /\ wmsg'[b] = wmsg[b]
    BY <1>4 DEF WriterStops, WriteFails, TypeOK
  <2>. QED
    BY <1>1, <2>1, <2>2
<1>5. ASSUME NEW d \in Dialers, Connect(d) PROVE OrderInv'
  <2>1. \A c \in Conns : writer'[c] = "writing" => writer[c] = "writing" /\ wmsg'[c] = wmsg[c]
    BY <1>5 DEF Connect, ConnectCheck, ConnectDials, DialSucceeds, DialFails, ConnectClears,
       ConnectInstalls, ConnectReturns, TypeOK
  <2>2. UNCHANGED <<sendCh, accepted, delivered>>
    BY <1>5 DEF Connect, ConnectCheck, ConnectDials, DialSucceeds, DialFails, ConnectClears,
       ConnectInstalls, ConnectReturns
  <2>. QED
    BY <1>1, <2>1, <2>2
<1>6. ASSUME NEW c \in Conns, ReadLoop(c) \/ HealthLoop(c) \/ Reconnect(c) \/ LinkDrops(c)
      PROVE  OrderInv'
  <2>1. UNCHANGED <<sendCh, accepted, delivered, writer, wmsg>>
    BY <1>6 DEF ReadLoop, ReadFails, LostClears, LostReconnects, LostStops, LostFails, HealthLoop,
       HealthStops, PingSucceeds, PingFails, HealthGivesUp, Reconnect, ReconnectLoops,
       ReconnectStops, ReconnectTries, ReconnectRetries, ReconnectGivesUp, LinkDrops
  <2>. QED
    BY <1>1, <2>1
<1>7. CASE \/ \E u \in Users : UserCalls(u)
           \/ \E m \in Messages : SendChecks(m) \/ SendAborts(m)
           \/ \E k \in Closers : Close(k)
           \/ UNCHANGED vars
  <2>1. UNCHANGED <<sendCh, accepted, delivered, writer, wmsg>>
    BY <1>7 DEF UserCalls, SendChecks, SendAborts, Close, CloseChecks, CloseCancels, CloseClears,
       CloseReports, vars
  <2>. QED
    BY <1>1, <2>1
<1>. QED
  BY <1>2, <1>3, <1>4, <1>5, <1>6, <1>7, TakesOrder, DeliversOrder
     DEF Next, Serve, WriteLoop, Send

-----------------------------------------------------------------------------
(* The theorems.                                                           *)

LEMMA InitClient == NewClient => ClientInv
<1>. SUFFICES ASSUME NewClient PROVE ClientInv
  OBVIOUS
<1>1. TypeOK
  BY InitType
<1>2. NumberInv
  <2>1. dialled = 0 /\ conn = 0 /\ \A c \in Conns : c \in Int /\ c > 0 /\ link[c] = "unused"
                                                     /\ writer[c] = "off"
    BY NumbersAssumption DEF NewClient, Conns, None
  <2>2. \A d \in Dialers : dialer[d] = "idle"
    BY DEF NewClient
  <2>3. Conns \subseteq Dialers
    BY DEF Dialers
  <2>. QED
    BY <2>1, <2>2, <2>3 DEF NumberInv, Setting
<1>3. Len(sendCh) = 0 /\ Len(accepted) = 0 /\ Len(delivered) = 0
  BY DEF NewClient
<1>4. MailInv
  BY <1>3 DEF MailInv, NewClient
<1>5. Dialing = {} /\ Watching = {} /\ Alive = {}
  BY DEF NewClient, Dialing, Watching, Alive
<1>6. TokenInv
  BY <1>5 DEF TokenInv
<1>7. HandInv
  BY <1>5 DEF HandInv, Setting, NewClient
<1>8. OrderInv
  <2>1. TakenCount = 0
    BY <1>3 DEF TakenCount
  <2>2. PICK f : f = [p \in 1 .. Len(delivered) |-> p]
    OBVIOUS
  <2>3. 1 .. Len(delivered) = {}
    BY <1>3
  <2>4. f \in [1 .. Len(delivered) -> 1 .. TakenCount]
    BY <2>2, <2>3
  <2>5. Embeds(f)
    BY <2>3 DEF Embeds, NewClient
  <2>. QED
    BY <2>4, <2>5 DEF OrderInv
<1>. QED
  BY <1>1, <1>2, <1>4, <1>6, <1>7, <1>8 DEF ClientInv

LEMMA NextClient == ClientInv /\ [Next]_vars => ClientInv'
BY NextType, NextNumber, NextMail, NextToken, NextHand, NextOrder DEF ClientInv

\* At most one member: the cardinality is at most one.
LEMMA ClientHasNoOrphans == ClientInv => NoOrphans
<1>. SUFFICES ASSUME ClientInv, OneCall
     PROVE  Cardinality(Dialing) <= 1 /\ Alive \subseteq {conn} \cup InHand
  BY DEF ClientInv, NoOrphans
<1>1. \A d, e \in Dialing : d = e
  BY DEF ClientInv, TokenInv
<1>2. ASSUME Dialing = {} PROVE Cardinality(Dialing) <= 1
  BY <1>2, FS_EmptySet
<1>3. ASSUME Dialing # {} PROVE Cardinality(Dialing) <= 1
  <2>1. PICK d : d \in Dialing
    BY <1>3
  <2>2. Dialing = {d}
    BY <1>1, <2>1
  <2>. QED
    BY <2>2, FS_Singleton
<1>4. Cardinality(Dialing) <= 1
  BY <1>2, <1>3
<1>. QED
  BY <1>4 DEF ClientInv, HandInv

LEMMA ClientKeepsOrder == ClientInv => InOrder
<1>. SUFFICES ASSUME ClientInv, OneCall
     PROVE  \E f \in [1 .. Len(delivered) -> 1 .. Len(accepted)] :
              /\ \A p \in DOMAIN f : accepted[f[p]] = delivered[p]
              /\ \A p, q \in DOMAIN f : p < q => f[p] < f[q]
  BY DEF InOrder
<1>1. PICK f \in [1 .. Len(delivered) -> 1 .. TakenCount] : Embeds(f)
  BY DEF ClientInv, OrderInv
<1>2. sendCh \in Seq(Messages) /\ accepted \in Seq(Messages)
  BY DEF ClientInv, TypeOK
<1>3. TakenCount \in Int /\ Len(accepted) \in Nat /\ TakenCount <= Len(accepted)
  BY <1>2 DEF TakenCount
<1>4. \A n \in 1 .. TakenCount : n \in 1 .. Len(accepted)
  BY <1>3
<1>5. f \in [1 .. Len(delivered) -> 1 .. Len(accepted)]
  BY <1>1, <1>4
<1>. QED
  BY <1>1, <1>5 DEF Embeds

LEMMA ClientInvariant == Spec => []ClientInv
BY InitClient, NextClient, PTL DEF Spec

\* However often connections are lost, dials fail and health checks fire late,
\* a client whose Connect is called once never has two goroutines that dial,
\* and never loses track of a connection it has not cancelled: onConnectionLost
\* hands the right to dial to exactly one reconnect, and Connect closes the old
\* connection before it installs the new one.
THEOREM NoneOrphaned == Spec => []NoOrphans
BY ClientInvariant, ClientHasNoOrphans, PTL

\* Whatever writeLoops share sendCh across reconnects, what the peers receive
\* is a subsequence of what Send put in the channel, each message at most once
\* and none before one that was sent earlier.
THEOREM DeliveredInOrder == Spec => []InOrder
BY ClientInvariant, ClientKeepsOrder, PTL
=============================================================================
