---------------------------- MODULE TelnetProofs ----------------------------
(***************************************************************************)
(* Proofs about Telnet, for any scripts, notice, limit and capacity of the *)
(* client's output, and however the connection cuts the stream.            *)
(***************************************************************************)
EXTENDS Telnet, SequenceTheorems, TLAPS

-----------------------------------------------------------------------------
(* The parts of the invariant: the server.                                 *)

Phases == {"away", "waiting", "reset", "accepted", "rejected", "spawned", "handling", "ended",
           "done"}

\* The phases of Listen from listenWG.Add to listenWG.Done, of which a failed
\* bind never leaves the last, and those after the listener is published.
Counted   == {"binding", "bound", "accepting", "admitting", "leaving", "waiting", "ending", "failed"}
Published == {"accepting", "admitting", "leaving", "waiting", "ending", "returned"}

ServerType ==
  /\ state \in {"init", "serving", "closed"} /\ ctx \in {"nil", "live", "cancelled"}
  /\ listen \in Counted \cup {"idle", "refused", "adding", "returned"}
  /\ raw \in Peers \cup {None}
  /\ bound \in BOOLEAN /\ listener \in BOOLEAN /\ early \in BOOLEAN
  /\ sem \in 0..MaxConns /\ listenWG \in {0, 1}
  /\ conns \subseteq Peers /\ shut \subseteq Peers /\ peer \in [Peers -> Phases]

\* The accept loop has a connection in hand only between Accept and the slot.
RawInv == listen = "admitting" => raw \in Peers /\ peer[raw] = "accepted"

WaitGroupInv == listenWG = IF listen \in Counted THEN 1 ELSE 0

\* The registry holds the connections whose handler runs.
RegistryInv == conns = {p \in Peers : peer[p] = "handling"}

\* The socket is reached through s.listener, except between bind and publish.
SocketInv ==
  /\ bound => listener \/ listen = "bound"
  /\ listen \in {"waiting", "ending", "returned"} => ~bound

\* state is "serving" only while Listen is on its way; after its wait for the
\* handlers there are none.
StateInv ==
  /\ state = "serving" => listen \in {"adding", "binding", "bound", "accepting", "admitting",
                                      "leaving", "waiting"}
  /\ listen \in {"ending", "returned"} => Handlers = {}

\* A Close that was not early meets a Listen that has published its listener,
\* and returns after it.
CloserInv ==
  ~early => /\ closer \in {"stopping", "cancelling", "sweeping", "waiting", "returned"} =>
                 listen \in Published
            /\ closer = "returned" => listen = "returned"

Parts == RawInv /\ WaitGroupInv /\ RegistryInv /\ SocketInv /\ StateInv /\ CloserInv
ServerInv == ServerType /\ Parts

-----------------------------------------------------------------------------
(* The parts of the invariant: the stream.                                 *)

StreamType ==
  /\ script \in Seq(Bytes) /\ wire \in Seq(Bytes) /\ chunk \in Seq(Bytes) /\ eaten \in Seq(Bytes)
  /\ output \in Seq(Seq(Bytes)) /\ Len(output) <= OutCap /\ dropped \in BOOLEAN

CallerType ==
  /\ cstate \in {"init", "connected", "closed"}
  /\ setup \in Setups /\ calls \in 0..setup.calls

\* Before a handler or a notice there are no bytes.
BeforeInv ==
  /\ cstate = "init" => peer[Me] = "away"
  /\ peer[Me] \in {"away", "waiting", "reset", "accepted", "spawned"} =>
       wire = <<>> /\ chunk = <<>> /\ output = <<>> /\ eaten = <<>>

\* readLoop has bytes in hand exactly between its read and its send.
ChunkInv == reader = "sending" <=> chunk # <<>>

\* The property itself, the rest of the script included.
TextInv ==
  ~dropped => IF peer[Me] = "rejected"
              THEN CutInto(Notice, eaten, output, chunk \o wire)
              ELSE CutInto(setup.script, eaten, output, chunk \o (wire \o script))

StreamInv == StreamType /\ BeforeInv /\ ChunkInv /\ TextInv

TelnetInv == ServerInv /\ CallerType /\ StreamInv

-----------------------------------------------------------------------------
(* Texts that are cut.                                                     *)

\* The beginning of the last piece becomes a piece of its own.
LEMMA CutOneMore ==
  ASSUME NEW text \in Seq(Bytes), NEW first, NEW pieces \in Seq(Seq(Bytes)),
         NEW piece \in Seq(Bytes), NEW last \in Seq(Bytes),
         CutInto(text, first, pieces, piece \o last)
  PROVE  CutInto(text, first, Append(pieces, piece), last)
<1>1. PICK cut \in [0..Len(pieces) -> 0..Len(text)] :
        /\ first = SubSeq(text, 1, cut[0])
        /\ \A i \in 1..Len(pieces) : /\ cut[i - 1] <= cut[i]
                                    /\ pieces[i] = SubSeq(text, cut[i - 1] + 1, cut[i])
        /\ piece \o last = SubSeq(text, cut[Len(pieces)] + 1, Len(text))
  BY DEF CutInto
<1>2. PICK n \in Nat : n = Len(pieces)
  BY LenProperties
<1>3. PICK L \in Nat : L = Len(text) /\ text \in [1..L -> Bytes]
  BY LenProperties
<1>4. PICK e \in 0..L : e = cut[n]
  <2>1. n \in 0..n
    OBVIOUS
  <2>. QED
    BY <1>2, <1>3, <2>1
<1>5. PICK m \in Nat : m = Len(piece)
  BY LenProperties
<1>6. /\ SubSeq(text, e + 1, L) \in Seq(Bytes) /\ Len(SubSeq(text, e + 1, L)) = L - e
      /\ \A i \in 1..L - e : SubSeq(text, e + 1, L)[i] = text[e + i]
  <2>1. \A i \in e + 1..L : text[i] \in Bytes
    BY <1>3
  <2>2. e + 1 \in Int /\ L \in Int
    OBVIOUS
  <2>3. /\ SubSeq(text, e + 1, L) \in Seq(Bytes)
        /\ Len(SubSeq(text, e + 1, L)) = IF e + 1 <= L THEN L - (e + 1) + 1 ELSE 0
        /\ \A i \in 1..L - (e + 1) + 1 : SubSeq(text, e + 1, L)[i] = text[(e + 1) + i - 1]
    BY <2>1, <2>2, SubSeqProperties
  <2>. QED
    BY <2>3
<1>7. piece \o last = SubSeq(text, e + 1, L)
  BY <1>1, <1>2, <1>3, <1>4
<1>8. /\ Len(piece \o last) = m + Len(last)
      /\ \A i \in 1..m + Len(last) : (piece \o last)[i] = IF i <= m THEN piece[i] ELSE last[i - m]
  BY <1>5, ConcatProperties
<1>9. Len(last) = L - e - m /\ e + m \in 0..L /\ e <= e + m
  <2>1. Len(last) \in Nat /\ m + Len(last) = L - e
    BY <1>6, <1>7, <1>8, LenProperties
  <2>. QED
    BY <2>1
<1>10. piece = SubSeq(text, e + 1, e + m)
  <2>1. \A i \in e + 1..e + m : text[i] \in Bytes
    BY <1>3, <1>9
  <2>2. /\ SubSeq(text, e + 1, e + m) \in Seq(Bytes)
        /\ Len(SubSeq(text, e + 1, e + m)) = IF e + 1 <= e + m THEN e + m - (e + 1) + 1 ELSE 0
        /\ \A i \in 1..e + m - (e + 1) + 1 : SubSeq(text, e + 1, e + m)[i] = text[(e + 1) + i - 1]
    BY <2>1, SubSeqProperties
  <2>3. Len(SubSeq(text, e + 1, e + m)) = m /\ \A i \in 1..m : SubSeq(text, e + 1, e + m)[i] = text[e + i]
    BY <2>2
  <2>4. \A i \in 1..m : piece[i] = text[e + i]
    BY <1>6, <1>7, <1>8, <1>9
  <2>5. PICK q : q = SubSeq(text, e + 1, e + m)
    OBVIOUS
  <2>6. q \in Seq(Bytes) /\ Len(q) = m /\ \A i \in 1..m : q[i] = piece[i]
    BY <2>2, <2>3, <2>4, <2>5
  <2>7. piece = q
    BY <1>5, <2>6, SeqEqual
  <2>. QED
    BY <2>5, <2>7
<1>11. last = SubSeq(text, e + m + 1, L)
  <2>1. \A i \in e + m + 1..L : text[i] \in Bytes
    BY <1>3
  <2>2. /\ SubSeq(text, e + m + 1, L) \in Seq(Bytes)
        /\ Len(SubSeq(text, e + m + 1, L)) = IF e + m + 1 <= L THEN L - (e + m + 1) + 1 ELSE 0
        /\ \A i \in 1..L - (e + m + 1) + 1 :
             SubSeq(text, e + m + 1, L)[i] = text[(e + m + 1) + i - 1]
    BY <2>1, SubSeqProperties
  <2>3. /\ Len(SubSeq(text, e + m + 1, L)) = L - e - m
        /\ \A i \in 1..L - e - m : SubSeq(text, e + m + 1, L)[i] = text[e + m + i]
    BY <1>9, <2>2
  <2>4. ASSUME NEW i \in 1..L - e - m PROVE last[i] = text[e + m + i]
    <3>1. m + i \in 1..m + Len(last) /\ ~(m + i <= m) /\ (m + i) - m = i /\ m + i \in 1..L - e
      BY <1>9
    <3>2. (piece \o last)[m + i] = last[i]
      BY <1>8, <3>1
    <3>3. SubSeq(text, e + 1, L)[m + i] = text[e + (m + i)]
      BY <1>6, <3>1
    <3>. QED
      BY <1>7, <3>2, <3>3
  <2>. QED
    BY <1>9, <2>2, <2>3, <2>4, SeqEqual
<1>12. PICK more : more = [i \in 0..n + 1 |-> IF i <= n THEN cut[i] ELSE e + m]
  OBVIOUS
<1>13. /\ more \in [0..n + 1 -> 0..L] /\ more[n + 1] = e + m /\ more[n] = e
       /\ \A i \in 0..n : more[i] = cut[i]
  <2>1. n \in 0..n /\ n + 1 \in 0..n + 1 /\ ~(n + 1 <= n) /\ \A i \in 0..n : i \in 0..n + 1 /\ i <= n
    BY <1>3
  <2>2. \A i \in 0..n : more[i] = cut[i]
    BY <1>12, <2>1
  <2>3. more[n + 1] = e + m
    BY <1>12, <2>1
  <2>4. more[n] = e
    BY <1>2, <1>3, <1>4, <2>1, <2>2
  <2>5. \A i \in 0..n : cut[i] \in 0..L
    BY <1>2, <1>3, <1>4
  <2>6. \A i \in 0..n + 1 : (IF i <= n THEN cut[i] ELSE e + m) \in 0..L
    BY <1>3, <1>9, <2>5
  <2>. QED
    BY <1>12, <2>2, <2>3, <2>4, <2>6
<1>14. PICK q \in Seq(Seq(Bytes)) :
         /\ q = Append(pieces, piece) /\ Len(q) = n + 1 /\ q[n + 1] = piece
         /\ \A i \in 1..n : q[i] = pieces[i]
  <2>1. PICK q : q = Append(pieces, piece)
    OBVIOUS
  <2>2. /\ q \in Seq(Seq(Bytes)) /\ Len(q) = Len(pieces) + 1
        /\ \A i \in 1..Len(pieces) : q[i] = pieces[i]
        /\ q[Len(pieces) + 1] = piece
    BY <2>1, AppendProperties
  <2>. QED
    BY <1>2, <2>1, <2>2
<1>15. ASSUME NEW i \in 1..n + 1
       PROVE  more[i - 1] <= more[i] /\ q[i] = SubSeq(text, more[i - 1] + 1, more[i])
  <2>1. CASE i = n + 1
    <3>1. i - 1 = n
      BY <2>1
    <3>2. more[i - 1] = e /\ more[i] = e + m /\ q[i] = piece
      BY <1>13, <1>14, <2>1, <3>1
    <3>. QED
      BY <1>9, <1>10, <3>2
  <2>2. CASE i # n + 1
    <3>1. i \in 1..n /\ i \in 0..n /\ i - 1 \in 0..n
      BY <2>2
    <3>. QED
      BY <1>1, <1>2, <1>13, <1>14, <3>1
  <2>. QED
    BY <2>1, <2>2
<1>16. first = SubSeq(text, 1, more[0]) /\ last = SubSeq(text, more[n + 1] + 1, L)
  BY <1>1, <1>11, <1>13
<1>17. CutInto(text, first, q, last)
  BY <1>3, <1>13, <1>14, <1>15, <1>16 DEF CutInto
<1>. QED
  BY <1>14, <1>17

\* The first of the pieces joins what is in front of it.
LEMMA CutOneLess ==
  ASSUME NEW text \in Seq(Bytes), NEW first, NEW pieces \in Seq(Seq(Bytes)), pieces # <<>>,
         NEW last, CutInto(text, first, pieces, last)
  PROVE  CutInto(text, first \o Head(pieces), Tail(pieces), last)
<1>1. PICK cut \in [0..Len(pieces) -> 0..Len(text)] :
        /\ first = SubSeq(text, 1, cut[0])
        /\ \A i \in 1..Len(pieces) : /\ cut[i - 1] <= cut[i]
                                    /\ pieces[i] = SubSeq(text, cut[i - 1] + 1, cut[i])
        /\ last = SubSeq(text, cut[Len(pieces)] + 1, Len(text))
  BY DEF CutInto
<1>2. PICK n \in Nat : n = Len(pieces) - 1 /\ Len(pieces) = n + 1
  <2>1. Len(pieces) \in Nat \ {0}
    BY EmptySeq
  <2>2. Len(pieces) - 1 \in Nat /\ Len(pieces) = (Len(pieces) - 1) + 1
    BY <2>1
  <2>. QED
    BY <2>2
<1>3. PICK q \in Seq(Seq(Bytes)) : /\ q = Tail(pieces) /\ Len(q) = n
                                   /\ \A i \in 1..n : q[i] = pieces[i + 1]
  <2>1. PICK q : q = Tail(pieces)
    OBVIOUS
  <2>2. /\ q \in Seq(Seq(Bytes)) /\ Len(q) = Len(pieces) - 1
        /\ \A i \in 1..Len(q) : q[i] = pieces[i + 1]
    BY <2>1, HeadTailProperties
  <2>. QED
    BY <1>2, <2>1, <2>2
<1>4. Head(pieces) = pieces[1]
  OBVIOUS
<1>5. PICK L \in Nat : L = Len(text)
  BY LenProperties
<1>6. cut[0] \in 0..L /\ cut[1] \in 0..L /\ cut[0] <= cut[1]
      /\ pieces[1] = SubSeq(text, cut[0] + 1, cut[1])
  <2>1. 1 \in 1..Len(pieces) /\ 1 - 1 = 0 /\ 0 \in 0..Len(pieces) /\ 1 \in 0..Len(pieces)
    BY <1>2
  <2>. QED
    BY <1>1, <1>5, <2>1
<1>7. SubSeq(text, 1, cut[0]) \o SubSeq(text, cut[0] + 1, cut[1]) = SubSeq(text, 1, cut[1])
  <2>1. 1 \in 1..L + 1 /\ cut[0] \in 1 - 1..L /\ cut[1] \in cut[0]..L
    BY <1>6
  <2>. QED
    BY <1>5, <2>1, ConcatAdjacentSubSeq
<1>8. PICK fewer : fewer = [i \in 0..n |-> cut[i + 1]]
  OBVIOUS
<1>9. fewer \in [0..n -> 0..L] /\ \A i \in 0..n : fewer[i] = cut[i + 1]
  BY <1>2, <1>5, <1>8
<1>10. ASSUME NEW i \in 1..n
       PROVE  fewer[i - 1] <= fewer[i] /\ q[i] = SubSeq(text, fewer[i - 1] + 1, fewer[i])
  <2>1. i \in 0..n /\ i - 1 \in 0..n /\ i + 1 \in 1..Len(pieces) /\ (i + 1) - 1 = i /\ (i - 1) + 1 = i
    BY <1>2
  <2>2. fewer[i - 1] = cut[i] /\ fewer[i] = cut[i + 1] /\ q[i] = pieces[i + 1]
    <3>1. fewer[i - 1] = cut[(i - 1) + 1]
      BY <1>9, <2>1
    <3>. QED
      BY <1>3, <1>9, <2>1, <3>1
  <2>3. cut[(i + 1) - 1] <= cut[i + 1] /\ pieces[i + 1] = SubSeq(text, cut[(i + 1) - 1] + 1, cut[i + 1])
    BY <1>1, <2>1
  <2>. QED
    BY <2>1, <2>2, <2>3
<1>11. first \o Head(pieces) = SubSeq(text, 1, fewer[0])
  <2>1. fewer[0] = cut[1]
    BY <1>9
  <2>. QED
    BY <1>1, <1>4, <1>6, <1>7, <2>1
<1>12. last = SubSeq(text, fewer[n] + 1, L)
  <2>1. fewer[n] = cut[Len(pieces)]
    BY <1>2, <1>9
  <2>. QED
    BY <1>1, <1>5, <2>1
<1>13. CutInto(text, first \o Head(pieces), q, last)
  BY <1>3, <1>5, <1>9, <1>10, <1>11, <1>12 DEF CutInto
<1>. QED
  BY <1>3, <1>13

\* A text in one piece.
LEMMA CutNowhere ==
  ASSUME NEW text \in Seq(Bytes)
  PROVE  CutInto(text, <<>>, <<>>, text)
<1>1. PICK cut : cut = [i \in 0..0 |-> 0]
  OBVIOUS
<1>2. Len(text) \in Nat /\ Len(<<>>) = 0
  BY LenProperties, EmptySeq
<1>3. cut \in [0..0 -> 0..Len(text)] /\ cut[0] = 0
  BY <1>1, <1>2
<1>4. SubSeq(text, 1, 0) = <<>> /\ SubSeq(text, 0 + 1, Len(text)) = text
  BY SubSeqEmpty, SubSeqFull
<1>. QED
  BY <1>2, <1>3, <1>4 DEF CutInto

-----------------------------------------------------------------------------
(* The server.                                                             *)

\* Steps of Listen that take no connection.
LEMMA ListenSteps ==
  ASSUME ServerInv,
         \/ ListenCAS \/ ListenSetUp \/ ListenBind \/ ListenBindFails \/ ListenPublish
         \/ AcceptErr \/ ListenWait \/ ListenReturns
  PROVE  ServerInv' /\ UNCHANGED <<link, client, caller, dropped>>
<1>. USE DEF Counted, Published, registry
<1>0. ServerType /\ RawInv /\ WaitGroupInv /\ RegistryInv /\ SocketInv /\ StateInv /\ CloserInv
  BY DEF ServerInv, Parts
<1>1. UNCHANGED <<raw, sem, conns, shut, closer, early>> /\ UNCHANGED <<link, client, caller, dropped>>
  BY DEF ListenCAS, ListenSetUp, ListenBind, ListenBindFails, ListenPublish, AcceptErr,
         ListenWait, ListenReturns
<1>2. UNCHANGED peer /\ Handlers' = Handlers
  BY <1>1 DEF link, Handlers
<1>3. RegistryInv'
  BY <1>0, <1>1, <1>2 DEF RegistryInv
<1>4. listen' # "admitting"
  BY DEF ListenCAS, ListenSetUp, ListenBind, ListenBindFails, ListenPublish, AcceptErr,
         ListenWait, ListenReturns
<1>5. RawInv'
  BY <1>4 DEF RawInv
<1>6. CASE ListenCAS
  <2>1. \/ state = "init" /\ state' = "serving" /\ listen' = "adding"
        \/ state # "init" /\ state' = state /\ listen' = "refused"
    BY <1>6 DEF ListenCAS
  <2>2. listen = "idle" /\ UNCHANGED <<bound, listener, ctx, listenWG>>
    BY <1>6 DEF ListenCAS
  <2>3. ServerType'
    BY <1>0, <1>1, <1>2, <2>1, <2>2 DEF ServerType
  <2>4. WaitGroupInv' /\ SocketInv' /\ CloserInv'
    BY <1>0, <1>1, <2>1, <2>2 DEF WaitGroupInv, SocketInv, CloserInv
  <2>5. StateInv'
    BY <1>0, <1>2, <2>1, <2>2 DEF StateInv
  <2>. QED
    BY <1>1, <1>3, <1>5, <2>3, <2>4, <2>5 DEF ServerInv, Parts
<1>7. CASE ListenSetUp
  <2>1. ServerType'
    BY <1>0, <1>1, <1>2, <1>7 DEF ServerType, WaitGroupInv, ListenSetUp
  <2>2. WaitGroupInv' /\ SocketInv' /\ CloserInv'
    BY <1>0, <1>1, <1>7 DEF WaitGroupInv, SocketInv, CloserInv, ListenSetUp
  <2>3. StateInv'
    BY <1>0, <1>2, <1>7 DEF StateInv, ListenSetUp
  <2>. QED
    BY <1>1, <1>3, <1>5, <2>1, <2>2, <2>3 DEF ServerInv, Parts
<1>8. CASE ListenBind \/ ListenPublish
  <2>0. bound' \in BOOLEAN /\ listener' \in BOOLEAN
    BY <1>0, <1>8 DEF ServerType, ListenBind, ListenPublish
  <2>1. ServerType'
    BY <1>0, <1>1, <1>2, <1>8, <2>0 DEF ServerType, ListenBind, ListenPublish
  <2>2. WaitGroupInv' /\ SocketInv' /\ CloserInv'
    BY <1>0, <1>1, <1>8 DEF WaitGroupInv, SocketInv, CloserInv, ListenBind, ListenPublish
  <2>3. StateInv'
    BY <1>0, <1>2, <1>8 DEF StateInv, ListenBind, ListenPublish
  <2>. QED
    BY <1>1, <1>3, <1>5, <2>1, <2>2, <2>3 DEF ServerInv, Parts
<1>9. CASE ListenBindFails \/ AcceptErr \/ ListenWait
  <2>1. ServerType'
    BY <1>0, <1>1, <1>2, <1>9 DEF ServerType, ListenBindFails, AcceptErr, ListenWait
  <2>2. WaitGroupInv' /\ SocketInv' /\ CloserInv'
    BY <1>0, <1>1, <1>9 DEF WaitGroupInv, SocketInv, CloserInv, ListenBindFails, AcceptErr, ListenWait
  <2>3. StateInv'
    BY <1>0, <1>2, <1>9 DEF StateInv, ListenBindFails, AcceptErr, ListenWait
  <2>. QED
    BY <1>1, <1>3, <1>5, <2>1, <2>2, <2>3 DEF ServerInv, Parts
<1>10. CASE ListenReturns
  <2>1. ServerType'
    BY <1>0, <1>1, <1>2, <1>10 DEF ServerType, WaitGroupInv, ListenReturns
  <2>2. WaitGroupInv' /\ SocketInv' /\ CloserInv'
    BY <1>0, <1>1, <1>10 DEF WaitGroupInv, SocketInv, CloserInv, ListenReturns
  <2>3. StateInv'
    BY <1>0, <1>2, <1>10 DEF StateInv, ListenReturns
  <2>. QED
    BY <1>1, <1>3, <1>5, <2>1, <2>2, <2>3 DEF ServerInv, Parts
<1>. QED
  BY <1>6, <1>7, <1>8, <1>9, <1>10

\* One connection moves from one phase to another; the registry follows.
LEMMA PeerMoves ==
  ASSUME ServerType, RegistryInv, NEW p \in Peers, NEW phase \in Phases,
         peer' = [peer EXCEPT ![p] = phase]
  PROVE  /\ peer' \in [Peers -> Phases] /\ peer'[p] = phase
         /\ \A q \in Peers : q # p => peer'[q] = peer[q]
         /\ (conns' = conns /\ phase # "handling" /\ peer[p] # "handling") => RegistryInv'
         /\ (conns' = conns \cup {p} /\ phase = "handling") => RegistryInv'
         /\ (conns' = conns \ {p} /\ phase # "handling") => RegistryInv'
BY DEF ServerType, RegistryInv

\* Listen takes a connection, hands it on or rejects it.
LEMMA AcceptSteps ==
  ASSUME ServerInv, (\E p \in Peers : Accept(p)) \/ Admit \/ RejectConn
  PROVE  ServerInv'
<1>. USE DEF Counted, Published, registry
<1>0. ServerType /\ RawInv /\ WaitGroupInv /\ RegistryInv /\ SocketInv /\ StateInv /\ CloserInv
  BY DEF ServerInv, Parts
<1>1. UNCHANGED <<state, bound, listener, ctx, listenWG, conns, shut, closer, early>>
  BY DEF Accept, Admit, RejectConn
<1>2. listen \in {"accepting", "admitting"} /\ listen' \in {"accepting", "admitting"}
  BY DEF Accept, Admit, RejectConn
<1>3. PICK p \in Peers, phase \in {"accepted", "spawned", "rejected"} :
        /\ peer[p] \in {"waiting", "accepted"} /\ peer' = [peer EXCEPT ![p] = phase]
        /\ raw' \in {p, None} /\ (listen' = "admitting" => raw' = p /\ phase = "accepted")
  <2>1. ASSUME NEW p \in Peers, Accept(p)
        PROVE  /\ peer[p] = "waiting" /\ peer' = [peer EXCEPT ![p] = "accepted"]
               /\ raw' = p
    BY <2>1 DEF Accept
  <2>2. CASE Admit
    BY <1>0, <2>2 DEF Admit, RawInv
  <2>3. CASE RejectConn
    BY <1>0, <2>3 DEF RejectConn, RawInv
  <2>. QED
    BY <2>1, <2>2, <2>3
<1>4. sem' \in 0..MaxConns
  <2>1. CASE sem' = sem
    BY <1>0, <2>1 DEF ServerType
  <2>2. CASE Admit
    BY <1>0, <2>2, TelnetAssumption DEF ServerType, Admit
  <2>. QED
    BY <2>1, <2>2 DEF Accept, RejectConn
<1>5. phase \in Phases
  BY DEF Phases
<1>6. /\ peer' \in [Peers -> Phases] /\ peer'[p] = phase /\ RegistryInv'
  BY <1>0, <1>1, <1>3, <1>5, PeerMoves
<1>7. ServerType'
  BY <1>0, <1>1, <1>2, <1>3, <1>4, <1>6 DEF ServerType
<1>8. RawInv'
  BY <1>3, <1>6 DEF RawInv
<1>9. WaitGroupInv' /\ SocketInv' /\ CloserInv'
  BY <1>0, <1>1, <1>2 DEF WaitGroupInv, SocketInv, CloserInv
<1>10. StateInv'
  BY <1>0, <1>1, <1>2 DEF StateInv
<1>. QED
  BY <1>6, <1>7, <1>8, <1>9, <1>10 DEF ServerInv, Parts

\* Clients that connect, and handlers: the accept loop's connection is not
\* theirs, and no handler comes up that was not there.
LEMMA ConnSteps ==
  ASSUME ServerInv, NEW p \in Peers, NEW phase \in Phases,
         UNCHANGED <<accepting, closer, early>>, shut' \subseteq Peers,
         peer' = [peer EXCEPT ![p] = phase], peer[p] # "accepted",
         \/ peer[p] = "away" /\ phase = "waiting" /\ conns' = conns
         \/ peer[p] = "spawned" /\ phase = "handling" /\ conns' = conns \cup {p}
         \/ peer[p] = "handling" /\ phase = "ended" /\ conns' = conns \ {p}
         \/ peer[p] = "ended" /\ phase = "done" /\ conns' = conns
  PROVE  ServerInv'
<1>0. ServerType /\ RawInv /\ WaitGroupInv /\ RegistryInv /\ SocketInv /\ StateInv /\ CloserInv
  BY DEF ServerInv, Parts
<1>1. UNCHANGED <<state, listen, raw, bound, listener, ctx, sem, listenWG, closer, early>>
  BY DEF accepting
<1>2. /\ peer' \in [Peers -> Phases] /\ peer'[p] = phase /\ RegistryInv'
      /\ \A q \in Peers : q # p => peer'[q] = peer[q]
  BY <1>0, PeerMoves
<1>3. conns' \subseteq Peers
  BY <1>0 DEF ServerType
<1>4. ServerType'
  BY <1>0, <1>1, <1>2, <1>3 DEF ServerType
<1>5. RawInv'
  BY <1>0, <1>1, <1>2 DEF RawInv
<1>6. WaitGroupInv' /\ SocketInv' /\ CloserInv'
  BY <1>0, <1>1 DEF WaitGroupInv, SocketInv, CloserInv
<1>7. Handlers' \subseteq Handlers
  BY <1>2 DEF Handlers
<1>8. StateInv'
  BY <1>0, <1>1, <1>7 DEF StateInv
<1>. QED
  BY <1>2, <1>4, <1>5, <1>6, <1>8 DEF ServerInv, Parts

\* closeListener resets the connections that nobody has accepted.
LEMMA ListenerCloses ==
  ASSUME ServerType, RawInv, RegistryInv, SocketInv, CloseListener
  PROVE  /\ bound' \in BOOLEAN /\ listener' = FALSE /\ peer' \in [Peers -> Phases]
         /\ \A p \in Peers : peer'[p] = peer[p] \/ (peer[p] = "waiting" /\ peer'[p] = "reset")
         /\ bound' => listen = "bound"
         /\ Handlers' = Handlers
         /\ conns' = conns => RegistryInv'
<1>1. bound' \in BOOLEAN /\ listener' = FALSE
  BY Zenon DEF ServerType, CloseListener
<1>2. \A p \in Peers : peer'[p] = peer[p] \/ (peer[p] = "waiting" /\ peer'[p] = "reset")
  <2>. SUFFICES ASSUME NEW p \in Peers
                PROVE  peer'[p] = peer[p] \/ (peer[p] = "waiting" /\ peer'[p] = "reset")
    OBVIOUS
  <2>0. peer' = [q \in Peers |-> IF listener /\ peer[q] = "waiting" THEN "reset" ELSE peer[q]]
    BY DEF CloseListener
  <2>1. CASE listener = TRUE
    BY <2>0, <2>1
  <2>2. CASE listener = FALSE
    BY <2>0, <2>2
  <2>. QED
    BY <2>1, <2>2 DEF ServerType
<1>3. peer' \in [Peers -> Phases]
  BY DEF CloseListener, ServerType, Phases
<1>4. bound' => listen = "bound"
  BY Zenon DEF CloseListener, SocketInv
<1>5. Handlers' = Handlers
  BY <1>2 DEF Handlers
<1>6. conns' = conns => RegistryInv'
  BY <1>2 DEF RegistryInv
<1>. QED
  BY <1>1, <1>2, <1>3, <1>4, <1>5, <1>6

LEMMA LeaveStep ==
  ASSUME ServerInv, ListenLeave
  PROVE  ServerInv'
<1>. USE DEF Counted, Published, registry
<1>0. ServerType /\ RawInv /\ WaitGroupInv /\ RegistryInv /\ SocketInv /\ StateInv /\ CloserInv
  BY DEF ServerInv, Parts
<1>1. /\ listen = "leaving" /\ listen' = "waiting" /\ ctx' = "cancelled" /\ CloseListener
      /\ UNCHANGED <<state, raw, sem, listenWG, conns, shut, closer, early>>
  BY DEF ListenLeave
<1>2. /\ bound' \in BOOLEAN /\ listener' = FALSE /\ peer' \in [Peers -> Phases]
      /\ ~bound' /\ Handlers' = Handlers /\ RegistryInv'
  BY <1>0, <1>1, ListenerCloses
<1>3. ServerType'
  BY <1>0, <1>1, <1>2 DEF ServerType
<1>4. RawInv' /\ WaitGroupInv' /\ SocketInv' /\ CloserInv'
  BY <1>0, <1>1, <1>2 DEF RawInv, WaitGroupInv, SocketInv, CloserInv
<1>5. StateInv'
  BY <1>0, <1>1, <1>2 DEF StateInv
<1>. QED
  BY <1>2, <1>3, <1>4, <1>5 DEF ServerInv, Parts

LEMMA CloseSteps ==
  ASSUME ServerInv, ServerClose
  PROVE  ServerInv'
<1>. USE DEF Counted, Published, registry
<1>0. ServerType /\ RawInv /\ WaitGroupInv /\ RegistryInv /\ SocketInv /\ StateInv /\ CloserInv
  BY DEF ServerInv, Parts
<1>1. UNCHANGED <<listen, raw, sem, listenWG, conns>>
  BY DEF ServerClose, ServerCloseCAS, ServerCloseListener, ServerCloseCancel, CloseAllConns,
         ServerCloseReturns, accepting
<1>2. WaitGroupInv'
  BY <1>0, <1>1 DEF WaitGroupInv
<1>3. ASSUME UNCHANGED peer
      PROVE  RawInv' /\ RegistryInv' /\ Handlers' = Handlers
  BY <1>0, <1>1, <1>3 DEF RawInv, RegistryInv, Handlers
<1>4. CASE ServerCloseCAS
  <2>1. UNCHANGED <<peer, bound, listener, ctx, shut>> /\ state' = "closed"
    BY <1>4 DEF ServerCloseCAS, link
  <2>2. early' \in BOOLEAN
    BY <1>4, Zenon DEF ServerCloseCAS
  <2>3. ServerType'
    BY <1>0, <1>1, <2>1, <2>2 DEF ServerType
  <2>4. SocketInv'
    BY <1>0, <1>1, <2>1 DEF SocketInv
  <2>5. StateInv'
    BY <1>0, <1>1, <1>3, <2>1 DEF StateInv
  <2>6. CASE state = "serving"
    <3>1. closer' = "stopping" /\ (~early' => listen \notin {"adding", "binding", "bound"})
      BY <1>4, <2>6 DEF ServerCloseCAS
    <3>2. CloserInv'
      BY <1>0, <1>1, <2>6, <3>1 DEF StateInv, CloserInv
    <3>. QED
      BY <1>2, <1>3, <2>1, <2>3, <2>4, <2>5, <3>2 DEF ServerInv, Parts
  <2>7. CASE state # "serving"
    <3>1. closer' = "nothing"
      BY <1>4, <2>7 DEF ServerCloseCAS
    <3>2. CloserInv'
      BY <3>1 DEF CloserInv
    <3>. QED
      BY <1>2, <1>3, <2>1, <2>3, <2>4, <2>5, <3>2 DEF ServerInv, Parts
  <2>. QED
    BY <2>6, <2>7
<1>5. CASE ServerCloseListener
  <2>1. /\ UNCHANGED <<state, ctx, shut, early>> /\ CloseListener
        /\ closer = "stopping" /\ closer' = "cancelling"
    BY <1>5 DEF ServerCloseListener
  <2>2. /\ bound' \in BOOLEAN /\ listener' = FALSE /\ peer' \in [Peers -> Phases]
        /\ \A p \in Peers : peer'[p] = peer[p] \/ (peer[p] = "waiting" /\ peer'[p] = "reset")
        /\ (bound' => listen = "bound") /\ Handlers' = Handlers /\ RegistryInv'
    BY <1>0, <1>1, <2>1, ListenerCloses
  <2>3. ServerType'
    BY <1>0, <1>1, <2>1, <2>2 DEF ServerType
  <2>4. RawInv'
    BY <1>0, <1>1, <2>2 DEF RawInv
  <2>5. SocketInv' /\ CloserInv'
    BY <1>0, <1>1, <2>1, <2>2 DEF SocketInv, CloserInv
  <2>6. StateInv'
    BY <1>0, <1>1, <2>1, <2>2 DEF StateInv
  <2>. QED
    BY <1>2, <2>2, <2>3, <2>4, <2>5, <2>6 DEF ServerInv, Parts
<1>6. CASE ServerCloseCancel \/ CloseAllConns \/ ServerCloseReturns
  <2>1. UNCHANGED <<peer, state, bound, listener, early>>
    BY <1>6 DEF ServerCloseCancel, CloseAllConns, ServerCloseReturns, accepting, link
  <2>2. ctx' \in {"nil", "live", "cancelled"}
    BY <1>0, <1>6 DEF ServerType, ServerCloseCancel, CloseAllConns, ServerCloseReturns, accepting
  <2>3. shut' \subseteq Peers
    BY <1>0, <1>6 DEF ServerType, ServerCloseCancel, CloseAllConns, ServerCloseReturns
  <2>4. ServerType'
    BY <1>0, <1>1, <2>1, <2>2, <2>3 DEF ServerType
  <2>5. SocketInv'
    BY <1>0, <1>1, <2>1 DEF SocketInv
  <2>6. StateInv'
    BY <1>0, <1>1, <1>3, <2>1 DEF StateInv
  <2>7. CloserInv'
    <3>1. CASE ServerCloseCancel \/ CloseAllConns
      BY <1>0, <1>1, <2>1, <3>1 DEF CloserInv, ServerCloseCancel, CloseAllConns
    <3>2. CASE ServerCloseReturns
      BY <1>0, <1>1, <2>1, <3>2 DEF CloserInv, WaitGroupInv, ServerCloseReturns
    <3>. QED
      BY <1>6, <3>1, <3>2
  <2>. QED
    BY <1>2, <1>3, <2>1, <2>4, <2>5, <2>6, <2>7 DEF ServerInv, Parts
<1>. QED
  BY <1>4, <1>5, <1>6 DEF ServerClose

-----------------------------------------------------------------------------
(* The types of the caller.                                                *)

LEMMA CallerStays ==
  ASSUME CallerType, UNCHANGED <<cstate, calls, setup>>
  PROVE  CallerType'
BY DEF CallerType

\* A call counts itself, within the bound of the setup.
LEMMA CallSteps ==
  ASSUME CallerType, CallAuth \/ CallExec \/ CallRead \/ CallWindowChange, UNCHANGED setup
  PROVE  CallerType'
<1>1. calls < setup.calls /\ calls' = calls + 1 /\ UNCHANGED cstate
  BY DEF CallAuth, CallExec, CallRead, CallWindowChange, Call, client
<1>2. setup.calls \in Nat
  BY TelnetAssumption DEF CallerType
<1>3. calls' \in 0..setup.calls
  BY <1>1, <1>2 DEF CallerType
<1>. QED
  BY <1>1, <1>3 DEF CallerType

\* Steps of the client that change its state.
LEMMA StateSteps ==
  ASSUME CallerType, Connect \/ ReaderCAS \/ CloseCAS, UNCHANGED setup
  PROVE  CallerType' /\ (cstate' = "init" => cstate = "init")
<1>1. UNCHANGED calls
  BY DEF Connect, ReaderCAS, CloseCAS, caller
<1>2. PICK s \in {"init", "connected", "closed"} :
        cstate' = s /\ (s = "init" => cstate = "init")
  <2>1. CASE Connect \/ ReaderCAS
    BY <2>1 DEF Connect, ReaderCAS
  <2>2. CASE CloseCAS
    BY <2>2, Zenon DEF CloseCAS, CallerType
  <2>. QED
    BY <2>1, <2>2
<1>. QED
  BY <1>1, <1>2 DEF CallerType

-----------------------------------------------------------------------------
(* The stream.                                                             *)

\* A step that leaves the bytes alone and does not refuse the client.
LEMMA StreamStays ==
  ASSUME StreamInv, UNCHANGED <<script, wire, chunk, eaten, output, dropped, setup>>,
         cstate' = "init" => cstate = "init" /\ peer'[Me] = peer[Me],
         reader' = "sending" <=> reader = "sending",
         peer'[Me] = "rejected" <=> peer[Me] = "rejected",
         peer'[Me] \in {"away", "waiting", "reset", "accepted", "spawned"} =>
           peer[Me] \in {"away", "waiting", "reset", "accepted", "spawned"}
  PROVE  StreamInv'
<1>0. StreamType /\ BeforeInv /\ ChunkInv /\ TextInv
  BY DEF StreamInv
<1>1. StreamType'
  BY <1>0 DEF StreamType
<1>2. BeforeInv'
  BY <1>0 DEF BeforeInv
<1>3. ChunkInv'
  BY <1>0 DEF ChunkInv
<1>4. TextInv'
  BY <1>0 DEF TextInv, CutInto
<1>. QED
  BY <1>1, <1>2, <1>3, <1>4 DEF StreamInv

\* Nothing is promised about bytes once some have been dropped.
LEMMA StreamDropped ==
  ASSUME StreamInv, UNCHANGED <<script, eaten, output, setup, cstate, peer>>,
         wire' \in {wire, <<>>}, chunk' \in {chunk, <<>>},
         dropped' = TRUE, reader' = "sending" <=> chunk' # <<>>
  PROVE  StreamInv'
<1>0. StreamType /\ BeforeInv /\ ChunkInv /\ TextInv
  BY DEF StreamInv
<1>1. wire' \in Seq(Bytes) /\ chunk' \in Seq(Bytes)
  BY <1>0, EmptySeq DEF StreamType
<1>2. StreamType'
  BY <1>0, <1>1 DEF StreamType
<1>3. BeforeInv'
  BY <1>0 DEF BeforeInv
<1>4. ChunkInv'
  BY DEF ChunkInv
<1>5. TextInv'
  BY DEF TextInv
<1>. QED
  BY <1>2, <1>3, <1>4, <1>5 DEF StreamInv

\* Texts are sequences of bytes.
LEMMA TextTypes ==
  ASSUME CallerType
  PROVE  setup.script \in Seq(Bytes) /\ Notice \in Seq(Bytes)
BY TelnetAssumption DEF CallerType

\* A client that is refused gets the notice and nothing else.
LEMMA RejectStream ==
  ASSUME ServerInv, CallerType, StreamInv, RejectConn, UNCHANGED setup
  PROVE  StreamInv'
<1>0. StreamType /\ BeforeInv /\ ChunkInv /\ TextInv
  BY DEF StreamInv
<1>1. /\ raw \in Peers /\ peer[raw] = "accepted" /\ peer' = [peer EXCEPT ![raw] = "rejected"]
      /\ UNCHANGED <<script, chunk, eaten, output, dropped, reader, cstate>>
  BY DEF ServerInv, Parts, RawInv, RejectConn, client, caller
<1>2. peer \in [Peers -> Phases] /\ Me \in Peers
  BY DEF ServerInv, ServerType, Peers
<1>3. CASE raw # Me
  <2>1. peer'[Me] = peer[Me] /\ wire' = wire
    BY <1>1, <1>2, <1>3 DEF RejectConn
  <2>. QED
    BY <1>1, <2>1, StreamStays
<1>4. CASE raw = Me
  <2>1. peer'[Me] = "rejected" /\ wire' = Notice
    BY <1>1, <1>2, <1>4 DEF RejectConn
  <2>2. wire = <<>> /\ chunk = <<>> /\ output = <<>> /\ eaten = <<>>
    BY <1>0, <1>1, <1>4 DEF BeforeInv
  <2>3. StreamType'
    BY <1>0, <1>1, <2>1, TextTypes DEF StreamType
  <2>4. cstate # "init"
    BY <1>0, <1>1, <1>4 DEF BeforeInv
  <2>5. BeforeInv'
    BY <1>1, <2>1, <2>4 DEF BeforeInv
  <2>6. ChunkInv'
    BY <1>0, <1>1 DEF ChunkInv
  <2>7. chunk' \o wire' = Notice
    BY <1>1, <2>1, <2>2, TextTypes, ConcatEmptySeq
  <2>8. CutInto(Notice, eaten', output', chunk' \o wire')
    BY <1>1, <2>2, <2>7, TextTypes, CutNowhere
  <2>9. TextInv'
    BY <2>1, <2>8 DEF TextInv
  <2>. QED
    BY <2>3, <2>5, <2>6, <2>9 DEF StreamInv
<1>. QED
  BY <1>3, <1>4

\* The handler writes its script: bytes move from the script to the wire.
LEMMA WriteStream ==
  ASSUME StreamInv, HandlerWrites, UNCHANGED setup
  PROVE  StreamInv'
<1>0. StreamType /\ BeforeInv /\ ChunkInv /\ TextInv
  BY DEF StreamInv
<1>1. /\ peer[Me] = "handling" /\ wire' = wire \o script /\ script' = <<>>
      /\ UNCHANGED <<peer, chunk, eaten, output, dropped, reader, cstate>>
  BY DEF HandlerWrites, client, caller
<1>2. wire' \in Seq(Bytes) /\ script' \in Seq(Bytes)
  BY <1>0, <1>1, ConcatProperties, EmptySeq DEF StreamType
<1>3. StreamType'
  BY <1>0, <1>1, <1>2 DEF StreamType
<1>4. BeforeInv' /\ ChunkInv'
  BY <1>0, <1>1 DEF BeforeInv, ChunkInv
<1>5. wire' \o script' = wire \o script
  BY <1>1, <1>2, ConcatEmptySeq
<1>6. TextInv'
  BY <1>0, <1>1, <1>5 DEF TextInv
<1>. QED
  BY <1>3, <1>4, <1>6 DEF StreamInv

\* readLoop reads: bytes move from the wire to its chunk.
LEMMA ReadStream ==
  ASSUME StreamInv, ReaderReads, UNCHANGED setup
  PROVE  StreamInv'
<1>0. StreamType /\ BeforeInv /\ ChunkInv /\ TextInv
  BY DEF StreamInv
<1>1. PICK n \in 1..Len(wire) : chunk' = SubSeq(wire, 1, n) /\ wire' = SubSeq(wire, n + 1, Len(wire))
  BY DEF ReaderReads
<1>2. /\ UNCHANGED <<peer, script, cstate, output, eaten, dropped>>
      /\ reader = "reading" /\ reader' = "sending"
  BY DEF ReaderReads, caller
<1>3. PICK L \in Nat : L = Len(wire) /\ wire \in [1..L -> Bytes]
  BY <1>0, LenProperties DEF StreamType
<1>4. chunk' \in Seq(Bytes) /\ wire' \in Seq(Bytes) /\ Len(chunk') = n
  <2>1. \A i \in 1..n : wire[i] \in Bytes
    BY <1>3
  <2>2. \A i \in n + 1..L : wire[i] \in Bytes
    BY <1>3
  <2>3. 1 \in Int /\ n \in Int /\ n + 1 \in Int /\ L \in Int
    BY <1>3
  <2>4. SubSeq(wire, 1, n) \in Seq(Bytes) /\ Len(SubSeq(wire, 1, n)) = IF 1 <= n THEN n - 1 + 1 ELSE 0
    BY <2>1, <2>3, SubSeqProperties
  <2>5. SubSeq(wire, n + 1, L) \in Seq(Bytes)
    BY <2>2, <2>3, SubSeqProperties, Zenon
  <2>6. Len(SubSeq(wire, 1, n)) = n
    BY <2>3, <2>4
  <2>. QED
    BY <1>1, <1>3, <2>4, <2>5, <2>6
<1>5. chunk' \o wire' = wire
  <2>1. 1 \in 1..L + 1 /\ n \in 1 - 1..L /\ L \in n..L
    BY <1>3
  <2>2. SubSeq(wire, 1, n) \o SubSeq(wire, n + 1, L) = SubSeq(wire, 1, L)
    BY <1>0, <1>3, <2>1, ConcatAdjacentSubSeq DEF StreamType
  <2>3. SubSeq(wire, 1, L) = wire
    BY <1>0, <1>3, SubSeqFull DEF StreamType
  <2>. QED
    BY <1>1, <1>3, <2>2, <2>3
<1>6. chunk = <<>>
  BY <1>0, <1>2 DEF ChunkInv
<1>7. chunk \o wire = wire /\ chunk \o (wire \o script) = wire \o script
  BY <1>0, <1>6, ConcatEmptySeq, ConcatProperties DEF StreamType
<1>8. chunk' \o (wire' \o script') = wire \o script
  <2>1. (chunk' \o wire') \o script = chunk' \o (wire' \o script)
    <3>1. PICK c \in Seq(Bytes), w \in Seq(Bytes), t \in Seq(Bytes) :
            c = chunk' /\ w = wire' /\ t = script
      BY <1>0, <1>4 DEF StreamType
    <3>2. (c \o w) \o t = c \o (w \o t)
      BY ConcatAssociative
    <3>. QED
      BY <3>1, <3>2
  <2>. QED
    BY <1>2, <1>5, <2>1
<1>9. TextInv'
  BY <1>0, <1>2, <1>5, <1>7, <1>8 DEF TextInv
<1>10. StreamType'
  BY <1>0, <1>2, <1>4 DEF StreamType
<1>11. wire # <<>>
  <2>1. Len(<<>>) = 0
    BY EmptySeq
  <2>. QED
    BY <1>3, <2>1
<1>12. BeforeInv'
  BY <1>0, <1>2, <1>11 DEF BeforeInv
<1>13. chunk' # <<>>
  <2>1. n # 0 /\ Len(<<>>) = 0
    BY EmptySeq
  <2>. QED
    BY <1>4, <2>1
<1>14. ChunkInv'
  BY <1>2, <1>13 DEF ChunkInv
<1>. QED
  BY <1>9, <1>10, <1>12, <1>14 DEF StreamInv

\* readLoop sends: its chunk becomes the last piece of output.
LEMMA SendStream ==
  ASSUME CallerType, StreamInv, ReaderSends, UNCHANGED setup
  PROVE  StreamInv'
<1>0. StreamType /\ BeforeInv /\ ChunkInv /\ TextInv
  BY DEF StreamInv
<1>1. /\ Len(output) < OutCap /\ output' = Append(output, chunk) /\ chunk' = <<>>
      /\ reader = "sending" /\ reader' = "reading"
      /\ UNCHANGED <<peer, script, wire, cstate, eaten, dropped>>
  BY DEF ReaderSends, link, caller
<1>2. output' \in Seq(Seq(Bytes)) /\ Len(output') = Len(output) + 1 /\ Len(output) \in Nat
  BY <1>0, <1>1, AppendProperties, LenProperties DEF StreamType
<1>3. Len(output') <= OutCap
  BY <1>1, <1>2, TelnetAssumption
<1>4. chunk' \in Seq(Bytes)
  BY <1>1, EmptySeq
<1>5. StreamType'
  BY <1>0, <1>1, <1>2, <1>3, <1>4 DEF StreamType
<1>6. ChunkInv'
  BY <1>1 DEF ChunkInv
<1>7. wire \o script \in Seq(Bytes)
  BY <1>0, ConcatProperties DEF StreamType
<1>8. chunk' \o wire' = wire /\ chunk' \o (wire' \o script') = wire \o script
  BY <1>0, <1>1, <1>7, ConcatEmptySeq DEF StreamType
<1>9. ASSUME NEW text \in Seq(Bytes), NEW last \in Seq(Bytes),
             CutInto(text, eaten, output, chunk \o last)
      PROVE  CutInto(text, eaten', output', last)
  <2>1. CutInto(text, eaten, Append(output, chunk), last)
    BY <1>0, <1>9, CutOneMore DEF StreamType
  <2>. QED
    BY <1>1, <2>1
<1>10. ASSUME ~dropped, peer[Me] = "rejected"
       PROVE  CutInto(Notice, eaten', output', chunk' \o wire')
  <2>1. CutInto(Notice, eaten, output, chunk \o wire)
    BY <1>0, <1>10 DEF TextInv
  <2>2. CutInto(Notice, eaten', output', wire)
    BY <1>0, <1>9, <2>1, TextTypes DEF StreamType
  <2>. QED
    BY <1>8, <2>2
<1>11. ASSUME ~dropped, peer[Me] # "rejected"
       PROVE  CutInto(setup.script, eaten', output', chunk' \o (wire' \o script'))
  <2>1. CutInto(setup.script, eaten, output, chunk \o (wire \o script))
    BY <1>0, <1>11 DEF TextInv
  <2>2. CutInto(setup.script, eaten', output', wire \o script)
    BY <1>7, <1>9, <2>1, TextTypes
  <2>. QED
    BY <1>8, <2>2
<1>12. TextInv'
  BY <1>1, <1>10, <1>11 DEF TextInv
<1>13. BeforeInv'
  BY <1>0, <1>1 DEF BeforeInv, ChunkInv
<1>. QED
  BY <1>5, <1>6, <1>12, <1>13 DEF StreamInv

\* The user takes the first piece of output.
LEMMA TakeStream ==
  ASSUME CallerType, StreamInv, output # <<>>, output' = Tail(output),
         eaten' = eaten \o Head(output),
         UNCHANGED <<peer, script, wire, chunk, cstate, reader, dropped, setup>>
  PROVE  StreamInv'
<1>0. StreamType /\ BeforeInv /\ ChunkInv /\ TextInv
  BY DEF StreamInv
<1>1. /\ Head(output) \in Seq(Bytes) /\ Tail(output) \in Seq(Seq(Bytes))
      /\ Len(Tail(output)) = Len(output) - 1
  BY <1>0, HeadTailProperties DEF StreamType
<1>2. eaten' \in Seq(Bytes)
  BY <1>0, <1>1, ConcatProperties DEF StreamType
<1>3. Len(output') <= OutCap
  <2>1. Len(output) \in Nat /\ Len(output) <= OutCap
    BY <1>0, LenProperties DEF StreamType
  <2>. QED
    BY <1>1, <2>1, TelnetAssumption
<1>4. StreamType'
  BY <1>0, <1>1, <1>2, <1>3 DEF StreamType
<1>5. BeforeInv' /\ ChunkInv'
  BY <1>0 DEF BeforeInv, ChunkInv
<1>6. ASSUME NEW text \in Seq(Bytes), NEW last, CutInto(text, eaten, output, last)
      PROVE  CutInto(text, eaten', output', last)
  <2>1. output \in Seq(Seq(Bytes))
    BY <1>0 DEF StreamType
  <2>2. CutInto(text, eaten \o Head(output), Tail(output), last)
    BY <1>6, <2>1, CutOneLess
  <2>. QED
    BY <2>2
<1>7. TextInv'
  <2>1. ASSUME ~dropped, peer[Me] = "rejected"
        PROVE  CutInto(Notice, eaten', output', chunk' \o wire')
    <3>1. CutInto(Notice, eaten, output, chunk \o wire)
      BY <1>0, <2>1 DEF TextInv
    <3>2. CutInto(Notice, eaten', output', chunk \o wire)
      BY <1>6, <3>1, TextTypes
    <3>. QED
      BY <3>2
  <2>2. ASSUME ~dropped, peer[Me] # "rejected"
        PROVE  CutInto(setup.script, eaten', output', chunk' \o (wire' \o script'))
    <3>1. CutInto(setup.script, eaten, output, chunk \o (wire \o script))
      BY <1>0, <2>2 DEF TextInv
    <3>2. CutInto(setup.script, eaten', output', chunk \o (wire \o script))
      BY <1>6, <3>1, TextTypes
    <3>. QED
      BY <3>2
  <2>. QED
    BY <2>1, <2>2 DEF TextInv
<1>. QED
  BY <1>4, <1>5, <1>7 DEF StreamInv

\* The client closes its connection: what is on the wire is lost, if anything.
LEMMA CleanUpStream ==
  ASSUME StreamInv, CleanUp, UNCHANGED <<peer, script, chunk, cstate, output, eaten, setup>>,
         reader' = "sending" <=> reader = "sending"
  PROVE  StreamInv'
<1>0. StreamType /\ ChunkInv
  BY DEF StreamInv
<1>1. CASE wire = <<>>
  <2>1. dropped' = dropped /\ wire' = wire
    BY <1>0, <1>1, Zenon DEF CleanUp, StreamType
  <2>. QED
    BY <2>1, StreamStays
<1>2. CASE wire # <<>>
  <2>1. dropped' = TRUE /\ wire' = <<>>
    BY <1>2, Zenon DEF CleanUp
  <2>2. reader' = "sending" <=> chunk' # <<>>
    BY <1>0 DEF ChunkInv
  <2>. QED
    BY <2>1, <2>2, StreamDropped
<1>. QED
  BY <1>1, <1>2

-----------------------------------------------------------------------------
(* The steps of the whole.                                                 *)

\* A step that leaves the server and the connections alone.
LEMMA ServerStays ==
  ASSUME ServerInv, UNCHANGED server, UNCHANGED peer
  PROVE  ServerInv'
<1>. USE DEF server, accepting, registry
<1>0. ServerType /\ RawInv /\ WaitGroupInv /\ RegistryInv /\ SocketInv /\ StateInv /\ CloserInv
  BY DEF ServerInv, Parts
<1>1. Handlers' = Handlers
  BY DEF Handlers
<1>2. ServerType'
  BY <1>0 DEF ServerType
<1>3. RawInv' /\ WaitGroupInv' /\ RegistryInv' /\ SocketInv' /\ CloserInv'
  BY <1>0 DEF RawInv, WaitGroupInv, RegistryInv, SocketInv, CloserInv
<1>4. StateInv'
  BY <1>0, <1>1 DEF StateInv
<1>. QED
  BY <1>2, <1>3, <1>4 DEF ServerInv, Parts

\* Connections that come, and handlers.
LEMMA PeerSteps ==
  ASSUME TelnetInv, UNCHANGED setup,
         RivalConnects \/ Connect \/ \E p \in Peers : HandleConn(p)
  PROVE  TelnetInv'
<1>0. ServerInv /\ CallerType /\ StreamInv /\ BeforeInv
  BY DEF TelnetInv, StreamInv
<1>1. peer \in [Peers -> Phases] /\ conns \subseteq Peers /\ shut \subseteq Peers
      /\ Me \in Peers /\ Rival \in Peers /\ Me # Rival
  BY <1>0, TelnetAssumption DEF ServerInv, ServerType, Peers
<1>2. CASE RivalConnects
  <2>1. /\ peer[Rival] = "away" /\ peer' = [peer EXCEPT ![Rival] = "waiting"]
        /\ UNCHANGED <<accepting, closer, early, conns, shut>>
        /\ UNCHANGED <<script, wire, cstate, chunk, output, reader, calls, eaten, dropped>>
    BY <1>2 DEF RivalConnects, server, registry, client, caller
  <2>2. "waiting" \in Phases
    BY DEF Phases
  <2>3. ServerInv'
    BY <1>0, <1>1, <2>1, <2>2, ConnSteps
  <2>4. peer'[Me] = peer[Me]
    BY <1>1, <2>1
  <2>5. StreamInv'
    BY <1>0, <2>1, <2>4, StreamStays
  <2>6. CallerType'
    BY <1>0, <2>1, CallerStays
  <2>. QED
    BY <2>3, <2>5, <2>6 DEF TelnetInv
<1>3. CASE Connect
  <2>1. /\ cstate = "init" /\ peer' = [peer EXCEPT ![Me] = "waiting"]
        /\ cstate' = "connected" /\ reader' = "reading"
        /\ UNCHANGED <<accepting, closer, early, conns, shut>>
        /\ UNCHANGED <<script, wire, chunk, output, calls, eaten, dropped>>
    BY <1>3 DEF Connect, server, registry, caller
  <2>2. "waiting" \in Phases
    BY DEF Phases
  <2>3. peer[Me] = "away"
    BY <1>0, <2>1 DEF BeforeInv
  <2>4. ServerInv'
    BY <1>0, <1>1, <2>1, <2>2, <2>3, ConnSteps
  <2>5. peer'[Me] = "waiting"
    BY <1>1, <2>1
  <2>6. reader # "sending"
    BY <1>0, <2>3 DEF StreamInv, ChunkInv, BeforeInv
  <2>7. StreamInv'
    BY <1>0, <2>1, <2>3, <2>5, <2>6, StreamStays
  <2>8. CallerType'
    BY <1>0, <1>3, StateSteps
  <2>. QED
    BY <2>4, <2>7, <2>8 DEF TelnetInv
<1>4. ASSUME NEW p \in Peers, HandleConn(p) PROVE TelnetInv'
  <2>1. PICK phase \in Phases :
          /\ peer' = [peer EXCEPT ![p] = phase] /\ shut' \subseteq Peers
          /\ \/ peer[p] = "spawned" /\ phase = "handling" /\ conns' = conns \cup {p}
             \/ peer[p] = "handling" /\ phase = "ended" /\ conns' = conns \ {p}
             \/ peer[p] = "ended" /\ phase = "done" /\ conns' = conns
    <3>1. CASE Register(p)
      BY <1>1, <3>1 DEF Register, Phases
    <3>2. CASE HandlerReturns(p)
      BY <1>1, <3>2 DEF HandlerReturns, Phases
    <3>3. CASE HandlerDone(p)
      BY <1>1, <3>3 DEF HandlerDone, Phases, server, registry
    <3>. QED
      BY <1>4, <3>1, <3>2, <3>3 DEF HandleConn
  <2>2. /\ UNCHANGED <<accepting, closer, early>>
        /\ UNCHANGED <<script, wire, cstate, chunk, output, reader, calls, eaten, dropped>>
    BY <1>4 DEF HandleConn, Register, HandlerReturns, HandlerDone, server, client, caller
  <2>3. peer[p] # "accepted"
    BY <2>1
  <2>4. ServerInv'
    BY <1>0, <2>1, <2>2, <2>3, ConnSteps
  <2>5. \/ peer'[Me] = peer[Me]
        \/ peer[Me] = "spawned" /\ peer'[Me] = "handling"
        \/ peer[Me] \in {"handling", "ended"} /\ peer'[Me] \in {"ended", "done"}
    BY <1>1, <2>1
  <2>6. cstate = "init" => peer[Me] = "away"
    BY <1>0 DEF BeforeInv
  <2>7. cstate' = "init" => cstate = "init" /\ peer'[Me] = peer[Me]
    BY <2>2, <2>5, <2>6
  <2>8. StreamInv'
    BY <1>0, <2>2, <2>5, <2>7, StreamStays
  <2>9. CallerType'
    BY <1>0, <2>2, CallerStays
  <2>. QED
    BY <2>4, <2>8, <2>9 DEF TelnetInv
<1>. QED
  BY <1>2, <1>3, <1>4

\* Listen and Close of the server.
LEMMA ServerSteps ==
  ASSUME TelnetInv, UNCHANGED setup, Listen \/ AcceptErr \/ ServerClose
  PROVE  TelnetInv'
<1>0. ServerInv /\ CallerType /\ StreamInv /\ BeforeInv
  BY DEF TelnetInv, StreamInv
<1>1. peer \in [Peers -> Phases] /\ Me \in Peers /\ RawInv
  BY <1>0 DEF ServerInv, ServerType, Parts, Peers
<1>2. ASSUME UNCHANGED <<script, wire, client, caller, dropped>>,
             \/ peer'[Me] = peer[Me]
             \/ peer[Me] = "waiting" /\ peer'[Me] \in {"reset", "accepted"}
             \/ peer[Me] = "accepted" /\ peer'[Me] = "spawned"
      PROVE  CallerType' /\ StreamInv'
  <2>1. UNCHANGED <<cstate, chunk, output, reader, calls, eaten>>
    BY <1>2 DEF client, caller
  <2>2. cstate' = "init" => cstate = "init" /\ peer'[Me] = peer[Me]
    BY <1>0, <1>2, <2>1 DEF BeforeInv
  <2>3. StreamInv'
    BY <1>0, <1>2, <2>1, <2>2, StreamStays
  <2>. QED
    BY <1>0, <2>1, <2>3, CallerStays
<1>3. CASE \/ ListenCAS \/ ListenSetUp \/ ListenBind \/ ListenBindFails \/ ListenPublish
           \/ AcceptErr \/ ListenWait \/ ListenReturns
  <2>1. ServerInv' /\ UNCHANGED <<link, client, caller, dropped>>
    BY <1>0, <1>3, ListenSteps
  <2>2. UNCHANGED <<peer, script, wire, client, caller, dropped>>
    BY <2>1 DEF link
  <2>. QED
    BY <1>2, <2>1, <2>2 DEF TelnetInv
<1>4. ASSUME NEW p \in Peers, Accept(p) PROVE TelnetInv'
  <2>1. ServerInv'
    BY <1>0, <1>4, AcceptSteps
  <2>2. /\ peer[p] = "waiting" /\ peer' = [peer EXCEPT ![p] = "accepted"]
        /\ UNCHANGED <<script, wire, client, caller, dropped>>
    BY <1>4 DEF Accept
  <2>3. peer'[Me] = peer[Me] \/ (peer[Me] = "waiting" /\ peer'[Me] = "accepted")
    BY <1>1, <2>2
  <2>. QED
    BY <1>2, <2>1, <2>2, <2>3 DEF TelnetInv
<1>5. CASE Admit
  <2>1. ServerInv'
    BY <1>0, <1>5, AcceptSteps
  <2>2. /\ raw \in Peers /\ peer[raw] = "accepted" /\ peer' = [peer EXCEPT ![raw] = "spawned"]
        /\ UNCHANGED <<script, wire, client, caller, dropped>>
    BY <1>1, <1>5 DEF Admit, RawInv
  <2>3. peer'[Me] = peer[Me] \/ (peer[Me] = "accepted" /\ peer'[Me] = "spawned")
    BY <1>1, <2>2
  <2>. QED
    BY <1>2, <2>1, <2>2, <2>3 DEF TelnetInv
<1>6. CASE RejectConn
  <2>1. ServerInv'
    BY <1>0, <1>6, AcceptSteps
  <2>2. StreamInv'
    BY <1>0, <1>6, RejectStream
  <2>3. CallerType'
    BY <1>0, <1>6, CallerStays DEF RejectConn, client, caller
  <2>. QED
    BY <2>1, <2>2, <2>3 DEF TelnetInv
<1>7. CASE ListenLeave \/ ServerCloseListener
  <2>1. ServerInv'
    BY <1>0, <1>7, LeaveStep, CloseSteps DEF ServerClose
  <2>2. CloseListener /\ UNCHANGED <<script, wire, client, caller, dropped>>
    BY <1>7 DEF ListenLeave, ServerCloseListener
  <2>3. peer'[Me] = peer[Me] \/ (peer[Me] = "waiting" /\ peer'[Me] = "reset")
    BY <1>0, <1>1, <2>2, ListenerCloses DEF ServerInv, Parts
  <2>. QED
    BY <1>2, <2>1, <2>2, <2>3 DEF TelnetInv
<1>8. CASE ServerCloseCAS \/ ServerCloseCancel \/ CloseAllConns \/ ServerCloseReturns
  <2>1. ServerInv'
    BY <1>0, <1>8, CloseSteps DEF ServerClose
  <2>2. UNCHANGED <<peer, script, wire, client, caller, dropped>>
    BY <1>8 DEF ServerCloseCAS, ServerCloseCancel, CloseAllConns, ServerCloseReturns, link
  <2>. QED
    BY <1>2, <2>1, <2>2 DEF TelnetInv
<1>. QED
  BY <1>3, <1>4, <1>5, <1>6, <1>7, <1>8 DEF Listen, ServerClose

\* The connection, the client and its user.
LEMMA ClientSteps ==
  ASSUME TelnetInv, UNCHANGED setup,
         \/ HandlerWrites \/ WireLost \/ ReadLoop \/ ReaderTimesOut \/ Close
         \/ CallAuth \/ CallExec \/ CallRead \/ CallWindowChange \/ Working
  PROVE  TelnetInv'
<1>0. ServerInv /\ CallerType /\ StreamInv /\ StreamType /\ ChunkInv
  BY DEF TelnetInv, StreamInv
<1>1. UNCHANGED server /\ UNCHANGED peer
  BY DEF HandlerWrites, WireLost, ReadLoop, ReaderReads, ReaderSends, ReaderQuits, ReaderFails,
         ReaderCAS, ReaderCleansUp, ReaderDispatches, ReaderLeaves, ReaderTimesOut,
         Close, CloseCAS, CloseCleansUp, CloseReturns,
         CallAuth, CallExec, CallRead, CallWindowChange, Call,
         Working, WriteDone, WriteFails, DrainPrompt, ReadBegins, ReadTakes, ReadEnds, link
<1>2. ServerInv'
  BY <1>0, <1>1, ServerStays
<1>3. ASSUME UNCHANGED <<script, wire, chunk, eaten, output, dropped>>,
             cstate' = "init" => cstate = "init", reader' = "sending" <=> reader = "sending"
      PROVE  StreamInv'
  BY <1>0, <1>1, <1>3, StreamStays
<1>4. CASE HandlerWrites
  <2>1. UNCHANGED <<cstate, calls>>
    BY <1>4 DEF HandlerWrites, client, caller
  <2>. QED
    BY <1>0, <1>2, <1>4, <2>1, WriteStream, CallerStays DEF TelnetInv
<1>5. CASE WireLost
  <2>1. /\ UNCHANGED <<script, cstate, calls, chunk, output, eaten, reader>>
        /\ wire' = <<>> /\ dropped' = TRUE
    BY <1>5 DEF WireLost, client, caller
  <2>2. reader' = "sending" <=> chunk' # <<>>
    BY <1>0, <2>1 DEF ChunkInv
  <2>3. StreamInv'
    BY <1>0, <1>1, <2>1, <2>2, StreamDropped
  <2>. QED
    BY <1>0, <1>2, <2>1, <2>3, CallerStays DEF TelnetInv
<1>6. CASE ReaderReads
  <2>1. UNCHANGED <<cstate, calls>>
    BY <1>6 DEF ReaderReads, caller
  <2>. QED
    BY <1>0, <1>2, <1>6, <2>1, ReadStream, CallerStays DEF TelnetInv
<1>7. CASE ReaderSends
  <2>1. UNCHANGED <<cstate, calls>>
    BY <1>7 DEF ReaderSends, caller
  <2>. QED
    BY <1>0, <1>2, <1>7, <2>1, SendStream, CallerStays DEF TelnetInv
<1>8. CASE ReaderQuits
  <2>1. /\ UNCHANGED <<script, wire, cstate, calls, output, eaten>>
        /\ chunk' = <<>> /\ dropped' = TRUE /\ reader' = "leaving"
    BY <1>8 DEF ReaderQuits, link, caller
  <2>2. reader' = "sending" <=> chunk' # <<>>
    BY <2>1
  <2>3. StreamInv'
    BY <1>0, <1>1, <2>1, <2>2, StreamDropped
  <2>. QED
    BY <1>0, <1>2, <2>1, <2>3, CallerStays DEF TelnetInv
<1>9. CASE ReaderFails \/ ReaderTimesOut \/ ReaderDispatches \/ ReaderLeaves \/ CloseReturns
  <2>1. UNCHANGED <<cstate, calls, script, wire, chunk, eaten, output, dropped>>
    BY <1>9 DEF ReaderFails, ReaderTimesOut, ReaderDispatches, ReaderLeaves, CloseReturns,
                link, caller
  <2>2. reader' = "sending" <=> reader = "sending"
    BY <1>9 DEF ReaderFails, ReaderTimesOut, ReaderDispatches, ReaderLeaves, CloseReturns
  <2>3. StreamInv'
    BY <1>3, <2>1, <2>2
  <2>. QED
    BY <1>0, <1>2, <2>1, <2>3, CallerStays DEF TelnetInv
<1>10. CASE ReaderCAS \/ CloseCAS
  <2>1. UNCHANGED <<script, wire, chunk, eaten, output, dropped>>
    BY <1>10 DEF ReaderCAS, CloseCAS, link, caller
  <2>2. reader' = "sending" <=> reader = "sending"
    BY <1>10 DEF ReaderCAS, CloseCAS
  <2>3. CallerType' /\ (cstate' = "init" => cstate = "init")
    BY <1>0, <1>10, StateSteps
  <2>4. StreamInv'
    BY <1>3, <2>1, <2>2, <2>3
  <2>. QED
    BY <1>2, <2>3, <2>4 DEF TelnetInv
<1>11. CASE ReaderCleansUp \/ CloseCleansUp
  <2>1. UNCHANGED <<script, cstate, calls, output, chunk, eaten>> /\ CleanUp
    BY <1>11 DEF ReaderCleansUp, CloseCleansUp, caller
  <2>2. reader' = "sending" <=> reader = "sending"
    BY <1>11 DEF ReaderCleansUp, CloseCleansUp
  <2>3. StreamInv'
    BY <1>0, <1>1, <2>1, <2>2, CleanUpStream
  <2>. QED
    BY <1>0, <1>2, <2>1, <2>3, CallerStays DEF TelnetInv
<1>12. CASE CallAuth \/ CallExec \/ CallRead \/ CallWindowChange
  <2>1. UNCHANGED <<script, wire, chunk, eaten, output, dropped, cstate, reader>>
    BY <1>12 DEF CallAuth, CallExec, CallRead, CallWindowChange, Call, link, client
  <2>2. StreamInv'
    BY <1>3, <2>1
  <2>. QED
    BY <1>0, <1>2, <1>12, <2>2, CallSteps DEF TelnetInv
<1>13. CASE Working
  <2>1. UNCHANGED <<cstate, calls, script, wire, chunk, reader, dropped>>
    BY <1>13 DEF Working, WriteDone, WriteFails, DrainPrompt, ReadBegins, ReadTakes, ReadEnds,
                 link, client
  <2>2. \/ UNCHANGED <<output, eaten>>
        \/ output # <<>> /\ output' = Tail(output) /\ eaten' = eaten \o Head(output)
    BY <1>13 DEF Working, WriteDone, WriteFails, DrainPrompt, ReadBegins, ReadTakes, ReadEnds,
                 client
  <2>3. StreamInv'
    BY <1>0, <1>1, <1>3, <2>1, <2>2, TakeStream
  <2>. QED
    BY <1>0, <1>2, <2>1, <2>3, CallerStays DEF TelnetInv
<1>. QED
  BY <1>4, <1>5, <1>6, <1>7, <1>8, <1>9, <1>10, <1>11, <1>12, <1>13 DEF ReadLoop, Close

LEMMA InitTelnet == Init => TelnetInv
<1>. SUFFICES ASSUME Init PROVE TelnetInv
  OBVIOUS
<1>1. bound \in BOOLEAN /\ listener \in BOOLEAN /\ early \in BOOLEAN /\ dropped \in BOOLEAN
  BY DEF Init
<1>2. sem \in 0..MaxConns
  BY TelnetAssumption DEF Init
<1>3. peer \in [Peers -> Phases] /\ \A p \in Peers : peer[p] = "away"
  BY DEF Init, Phases
<1>4. ServerType
  BY <1>1, <1>2, <1>3 DEF Init, ServerType, Counted
<1>5. Handlers = {}
  BY <1>3 DEF Handlers
<1>6. Parts
  BY <1>3, <1>5 DEF Init, Parts, RawInv, WaitGroupInv, RegistryInv, SocketInv, StateInv, CloserInv,
                    Counted
<1>7. setup \in Setups /\ script = setup.script /\ calls = 0
  BY DEF Init
<1>8. setup.script \in Seq(Bytes) /\ setup.calls \in Nat
  BY <1>7, TelnetAssumption
<1>9. CallerType
  BY <1>7, <1>8 DEF Init, CallerType
<1>10. <<>> \in Seq(Bytes) /\ <<>> \in Seq(Seq(Bytes)) /\ Len(<<>>) = 0
  BY EmptySeq
<1>11. StreamType
  BY <1>1, <1>7, <1>8, <1>10, TelnetAssumption DEF Init, StreamType
<1>12. BeforeInv /\ ChunkInv
  BY <1>3 DEF Init, BeforeInv, ChunkInv, Peers
<1>13. <<>> \o (<<>> \o script) = script
  BY <1>7, <1>8, ConcatEmptySeq
<1>14. peer[Me] # "rejected"
  BY <1>3 DEF Peers
<1>15. CutInto(setup.script, eaten, output, chunk \o (wire \o script))
  BY <1>7, <1>8, <1>13, CutNowhere DEF Init
<1>16. TextInv
  BY <1>14, <1>15 DEF TextInv
<1>. QED
  BY <1>4, <1>6, <1>9, <1>11, <1>12, <1>16 DEF TelnetInv, ServerInv, StreamInv

LEMMA NextTelnet == TelnetInv /\ [Next]_vars => TelnetInv'
<1>. SUFFICES ASSUME TelnetInv, [Next]_vars PROVE TelnetInv'
  OBVIOUS
<1>1. CASE Next
  <2>1. Step /\ UNCHANGED setup
    BY <1>1 DEF Next
  <2>. QED
    BY <2>1, PeerSteps, ServerSteps, ClientSteps DEF Step
<1>2. CASE UNCHANGED vars
  <2>1. /\ UNCHANGED server /\ UNCHANGED link /\ UNCHANGED client /\ UNCHANGED caller
        /\ UNCHANGED <<dropped, setup>>
    BY <1>2 DEF vars
  <2>2. UNCHANGED <<peer, script, wire, cstate, chunk, output, reader, calls, eaten>>
    BY <2>1 DEF link, client, caller
  <2>3. ServerInv'
    BY <2>1, <2>2, ServerStays DEF TelnetInv
  <2>4. StreamInv'
    BY <2>1, <2>2, StreamStays DEF TelnetInv
  <2>5. CallerType'
    BY <2>1, <2>2, CallerStays DEF TelnetInv
  <2>. QED
    BY <2>3, <2>4, <2>5 DEF TelnetInv
<1>. QED
  BY <1>1, <1>2

LEMMA TelnetFollows == TelnetInv => StreamIntact /\ CloseLeavesNothing
<1>. SUFFICES ASSUME TelnetInv PROVE StreamIntact /\ CloseLeavesNothing
  OBVIOUS
<1>0. /\ ServerType /\ RegistryInv /\ SocketInv /\ StateInv /\ CloserInv
      /\ CallerType /\ StreamType /\ TextInv
  BY DEF TelnetInv, ServerInv, Parts, StreamInv
<1>1. TypeOK
  BY <1>0 DEF TypeOK, ServerType, CallerType, StreamType
<1>2. StreamIntact
  BY <1>0, <1>1 DEF StreamIntact, TextInv
<1>3. Handlers = {} => conns = {}
  BY <1>0 DEF RegistryInv, Handlers
<1>4. CloseLeavesNothing
  BY <1>0, <1>3 DEF CloseLeavesNothing, CloserInv, StateInv, SocketInv
<1>. QED
  BY <1>2, <1>4

\* The bytes the handler writes reach the user of the telnet client in order,
\* none lost and none doubled until an end is closed, through the wire, the
\* chunk of readLoop and the channel output, however they are cut; and a client
\* that is refused gets the notice.  For any script, limit and capacity.
THEOREM StreamStaysIntact == Spec => []StreamIntact
<1>1. Init => TelnetInv
  BY InitTelnet
<1>2. TelnetInv /\ [Next]_vars => TelnetInv'
  BY NextTelnet
<1>3. TelnetInv => StreamIntact
  BY TelnetFollows
<1>. QED
  BY <1>1, <1>2, <1>3, PTL DEF Spec

\* A Close of the telnet server that did not come before Listen had published
\* its listener leaves, when it returns, no handler, no registered connection
\* and no socket.
THEOREM ClosedServerLeavesNothing == Spec => []CloseLeavesNothing
<1>1. Init => TelnetInv
  BY InitTelnet
<1>2. TelnetInv /\ [Next]_vars => TelnetInv'
  BY NextTelnet
<1>3. TelnetInv => CloseLeavesNothing
  BY TelnetFollows
<1>. QED
  BY <1>1, <1>2, <1>3, PTL DEF Spec
=============================================================================
