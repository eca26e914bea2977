------------------------------ MODULE UdpProofs ------------------------------
(***************************************************************************)
(* Proofs about Udp, for any datagrams, goroutines, limit and capacity of  *)
(* the client's output, and for a network that loses, doubles and reorders *)
(* as it likes.                                                            *)
(***************************************************************************)
EXTENDS Udp, FiniteSetTheorems, SequenceTheorems, TLAPS

USE DEF history

-----------------------------------------------------------------------------
(* The parts of the invariant.                                             *)

Data == Datagrams \cup {None}

\* What may stand in a bag of datagrams, and how often something does.
Counts(B) == B \in [DOMAIN B -> Nat \ {0}] /\ DOMAIN B \subseteq Data
Copies(B, d) == IF d \in DOMAIN B THEN B[d] ELSE 0

Places == {"none", "spawned", "running", "answered", "returned", "released", "done"}
Running == {g \in Goroutines : gor[g].at \in {"running", "answered"}}
HasPacket(d) == {g \in Goroutines : gor[g].at # "none" /\ gor[g].data = d}

\* The phases of Listen from listenWG.Add to listenWG.Done, of which a failed
\* bind never leaves the last, and those with a socket in s.conn.
Counted == {"binding", "bound", "reading", "admitting", "leaving", "waiting", "ending", "failed"}
SetUp   == {"reading", "admitting", "leaving", "waiting", "ending", "returned"}

ServerType ==
  /\ state \in {"init", "serving", "closed"} /\ ctx \in {"nil", "live", "cancelled"}
  /\ listen \in Counted \cup {"idle", "refused", "adding", "returned"}
  /\ bound \in BOOLEAN /\ conn \in BOOLEAN /\ early \in BOOLEAN
  /\ sem \in Int /\ active \in Int /\ listenWG \in Int
  /\ buf \in Data /\ gor \in [Goroutines -> [at : Places, data : Data]]
  /\ Counts(taken) /\ Counts(refused) /\ Counts(skipped) /\ DOMAIN skipped \subseteq Empty

NetworkType == Counts(requests) /\ DOMAIN requests \subseteq Datagrams /\ Counts(answers)

ClientType ==
  /\ cstate \in {"init", "connected", "closed"}
  /\ output \in Seq(Data) /\ chunk \in Data /\ Len(output) <= OutCap

\* Each copy of a packet that was read is in one goroutine, dropped, passed over
\* or in hand.
PacketInv ==
  \A d \in Data :
    Copies(taken, d) = Cardinality(HasPacket(d)) + Copies(refused, d) + Copies(skipped, d)
                       + (IF listen = "admitting" /\ buf = d THEN 1 ELSE 0)

\* Listen reads only when it can spawn.
RoomInv == listen = "admitting" => \E g \in Goroutines : gor[g].at = "none"

\* The counters of slots and of handlers at work.
SlotInv ==
  /\ MaxConns > 0 => sem = Cardinality(Holding) /\ sem <= MaxConns
  /\ active = Cardinality(Running)

WaitGroupInv == listenWG = IF listen \in Counted THEN 1 ELSE 0

\* The socket is reached through s.conn, except between bind and set-up.
SocketInv ==
  /\ bound => conn \/ listen = "bound"
  /\ listen \in {"waiting", "ending", "returned"} => ~bound

\* state is "serving" only while Listen is on its way; after its wait for the
\* goroutines there are none.
StateInv ==
  /\ state = "serving" => listen \in {"adding", "binding", "bound", "reading", "admitting",
                                      "leaving", "waiting"}
  /\ listen \in {"ending", "returned"} => Busy = {}

\* A Close that was not early meets a Listen that has set up, and returns
\* after it.
CloserInv ==
  ~early => /\ closer \in {"stopping", "cancelling", "waiting", "returned"} => listen \in SetUp
            /\ closer = "returned" => listen = "returned"

ListenInv == RoomInv /\ WaitGroupInv /\ SocketInv /\ StateInv /\ CloserInv

UdpInv == /\ ServerType /\ NetworkType /\ ClientType
          /\ PacketInv /\ SlotInv /\ ListenInv

-----------------------------------------------------------------------------
(* Bags of datagrams, and sets of goroutines.                              *)

\* A datagram put into a bag is there once more.
LEMMA PutIn ==
  ASSUME NEW B, Counts(B), NEW d \in Data
  PROVE  /\ Counts(B (+) SetToBag({d}))
         /\ DOMAIN (B (+) SetToBag({d})) = DOMAIN B \cup {d}
         /\ \A e \in Data : Copies(B (+) SetToBag({d}), e) = Copies(B, e) + (IF e = d THEN 1 ELSE 0)
<1>. DEFINE C == B (+) SetToBag({d})
<1>1. C = [e \in DOMAIN B \cup {d} |-> (IF e \in DOMAIN B THEN B[e] ELSE 0)
                                       + (IF e = d THEN 1 ELSE 0)]
  BY DEF (+), SetToBag
<1>2. \A e \in DOMAIN B : B[e] \in Nat \ {0}
  BY DEF Counts
<1>. HIDE DEF C
<1>3. DOMAIN C = DOMAIN B \cup {d} /\ C = [e \in DOMAIN C |-> C[e]]
  BY <1>1
<1>4. \A e \in DOMAIN C : C[e] \in Nat \ {0}
  BY <1>1, <1>2
<1>5. \A e \in Data : Copies(C, e) = Copies(B, e) + (IF e = d THEN 1 ELSE 0)
  BY <1>1, <1>2 DEF Copies
<1>6. Counts(C)
  BY <1>3, <1>4 DEF Counts
<1>. QED
  BY <1>3, <1>5, <1>6 DEF C

\* One taken out leaves a bag of what was there.
LEMMA TakenOut ==
  ASSUME NEW B, Counts(B), NEW d
  PROVE  Counts(B (-) SetToBag({d})) /\ DOMAIN (B (-) SetToBag({d})) \subseteq DOMAIN B
<1>. DEFINE b == [e \in DOMAIN B |-> IF e \in {d} THEN B[e] - 1 ELSE B[e]]
            C == [e \in {x \in DOMAIN b : b[x] > 0} |-> b[e]]
<1>1. B (-) SetToBag({d}) = C
  BY DEF (-), SetToBag
<1>2. \A e \in DOMAIN B : B[e] \in Nat \ {0}
  BY DEF Counts
<1>3. \A e \in DOMAIN b : b[e] \in Nat
  BY <1>2
<1>4. DOMAIN C \subseteq DOMAIN B /\ \A e \in DOMAIN C : C[e] \in Nat \ {0}
  BY <1>3
<1>5. C \in [DOMAIN C -> Nat \ {0}]
  BY <1>4
<1>6. Counts(C)
  BY <1>4, <1>5 DEF Counts
<1>. QED
  BY <1>1, <1>4, <1>6

LEMMA GoroutineSets ==
  \A S \in SUBSET Goroutines : IsFiniteSet(S) /\ Cardinality(S) \in Nat
BY UdpAssumption, FS_Subset, FS_CardinalityType

\* One goroutine more, one goroutine less.
LEMMA OneMore ==
  ASSUME NEW S \in SUBSET Goroutines, NEW g \in Goroutines \ S
  PROVE  Cardinality(S \cup {g}) = Cardinality(S) + 1
BY GoroutineSets, FS_AddElement

LEMMA OneLess ==
  ASSUME NEW S \in SUBSET Goroutines, NEW g \in S
  PROVE  Cardinality(S \ {g}) = Cardinality(S) - 1
BY GoroutineSets, FS_RemoveElement

-----------------------------------------------------------------------------
(* Types.                                                                  *)

LEMMA InitType == Init => ServerType /\ NetworkType /\ ClientType
<1>. SUFFICES ASSUME Init PROVE ServerType /\ NetworkType /\ ClientType
  OBVIOUS
<1>1. Counts(EmptyBag) /\ DOMAIN EmptyBag = {}
  BY DEF Counts, EmptyBag, SetToBag
<1>2. bound \in BOOLEAN /\ conn \in BOOLEAN /\ early \in BOOLEAN
  BY DEF Init
<1>3. gor \in [Goroutines -> [at : Places, data : Data]]
  BY DEF Init, Places, Data
<1>4. output \in Seq(Data) /\ Len(output) <= OutCap
  BY UdpAssumption DEF Init
<1>5. ServerType
  BY <1>1, <1>2, <1>3 DEF Init, ServerType, Data, Counted
<1>6. NetworkType
  BY <1>1 DEF Init, NetworkType
<1>7. ClientType
  BY <1>4 DEF Init, ClientType, Data
<1>. QED
  BY <1>5, <1>6, <1>7

\* Listen outside its loop, the parent's cancellation and Close leave the
\* packets alone.
LEMMA OutsideType ==
  ASSUME ServerType,
         \/ ListenCAS \/ ListenAdd \/ ListenBind \/ ListenBindFails \/ ListenSetUp
         \/ ReadFromFails \/ ListenLeave \/ ListenWait \/ ListenReturns
         \/ ParentCancelled \/ ServerClose
  PROVE  ServerType' /\ UNCHANGED <<packets, network, client>>
<1>. USE DEF ServerType, Counted, packets
<1>1. CASE ListenCAS
  <2>1. PICK s \in {"init", "serving", "closed"} : state' = s
    BY <1>1, Zenon DEF ListenCAS
  <2>2. PICK l \in {"adding", "refused"} : listen' = l
    BY <1>1, Zenon DEF ListenCAS
  <2>. QED
    BY <1>1, <2>1, <2>2 DEF ListenCAS
<1>2. CASE ListenAdd
  BY <1>2 DEF ListenAdd
<1>3. CASE ListenBind
  <2>1. bound' \in BOOLEAN
    BY <1>3 DEF ListenBind
  <2>. QED
    BY <1>3, <2>1 DEF ListenBind
<1>4. CASE ListenBindFails
  BY <1>4 DEF ListenBindFails
<1>5. CASE ListenSetUp
  <2>1. conn' \in BOOLEAN
    BY <1>5 DEF ListenSetUp
  <2>. QED
    BY <1>5, <2>1 DEF ListenSetUp
<1>6. CASE ReadFromFails
  BY <1>6 DEF ReadFromFails
<1>7. CASE ListenLeave
  <2>1. bound' \in BOOLEAN /\ conn' \in BOOLEAN
    BY <1>7, Zenon DEF ListenLeave, CloseConn
  <2>. QED
    BY <1>7, <2>1 DEF ListenLeave
<1>8. CASE ListenWait
  BY <1>8 DEF ListenWait
<1>9. CASE ListenReturns
  BY <1>9 DEF ListenReturns
<1>10. CASE ParentCancelled
  BY <1>10 DEF ParentCancelled
<1>11. CASE ServerCloseCAS
  <2>1. early' \in BOOLEAN
    BY <1>11, Zenon DEF ServerCloseCAS
  <2>. QED
    BY <1>11, <2>1 DEF ServerCloseCAS
<1>12. CASE ServerCloseConn
  <2>1. bound' \in BOOLEAN /\ conn' \in BOOLEAN
    BY <1>12, Zenon DEF ServerCloseConn, CloseConn
  <2>. QED
    BY <1>12, <2>1 DEF ServerCloseConn
<1>13. CASE ServerCloseCancel
  <2>1. PICK c \in {"nil", "cancelled"} : ctx' = c
    BY <1>13, Zenon DEF ServerCloseCancel
  <2>. QED
    BY <1>13, <2>1 DEF ServerCloseCancel
<1>14. CASE ServerCloseReturns
  BY <1>14 DEF ServerCloseReturns, listening
<1>. QED
  BY <1>1, <1>2, <1>3, <1>4, <1>5, <1>6, <1>7, <1>8, <1>9, <1>10, <1>11, <1>12, <1>13, <1>14
     DEF ServerClose

\* The goroutine that Spawn chooses is free.
LEMMA Chosen ==
  ASSUME ServerType, RoomInv, Spawn
  PROVE  \E g \in Goroutines :
           gor[g].at = "none" /\ gor' = [gor EXCEPT ![g] = [at |-> "spawned", data |-> buf]]
<1>. DEFINE g == CHOOSE g \in Goroutines : gor[g].at = "none"
<1>1. \E h \in Goroutines : gor[h].at = "none"
  BY DEF RoomInv, Spawn
<1>2. g \in Goroutines /\ gor[g].at = "none"
  BY <1>1
<1>3. gor' = [gor EXCEPT ![g] = [at |-> "spawned", data |-> buf]]
  BY DEF Spawn
<1>. QED
  BY <1>2, <1>3

LEMMA PacketType ==
  ASSUME ServerType, NetworkType, RoomInv, ReadFrom \/ SkipEmpty \/ DropPacket \/ Spawn
  PROVE  ServerType' /\ NetworkType' /\ UNCHANGED client
<1>. USE DEF ServerType, Counted
<1>1. CASE ReadFrom
  <2>1. PICK d \in DOMAIN requests : requests' = requests (-) SetToBag({d}) /\ buf' = d
                                     /\ taken' = taken (+) SetToBag({d})
    BY <1>1 DEF ReadFrom, BagToSet
  <2>2. d \in Data /\ d \in Datagrams
    BY DEF NetworkType, Data
  <2>3. Counts(taken')
    BY <2>1, <2>2, PutIn
  <2>4. Counts(requests') /\ DOMAIN requests' \subseteq DOMAIN requests
    BY <2>1, TakenOut DEF NetworkType
  <2>5. NetworkType'
    BY <1>1, <2>4 DEF NetworkType, ReadFrom
  <2>. QED
    BY <1>1, <2>1, <2>2, <2>3, <2>5 DEF ReadFrom
<1>2. CASE DropPacket
  <2>1. Counts(refused')
    BY <1>2, PutIn DEF DropPacket
  <2>. QED
    BY <1>2, <2>1 DEF DropPacket, NetworkType, network
<1>3. CASE Spawn
  <2>1. PICK g \in Goroutines : gor' = [gor EXCEPT ![g] = [at |-> "spawned", data |-> buf]]
    BY <1>3, Chosen
  <2>2. gor' \in [Goroutines -> [at : Places, data : Data]]
    BY <2>1 DEF Places
  <2>3. sem' \in Int
    BY <1>3 DEF Spawn
  <2>. QED
    BY <1>3, <2>2, <2>3 DEF Spawn, NetworkType, network
<1>4. CASE SkipEmpty
  <2>1. PICK d \in DOMAIN requests \cap Empty :
          /\ requests' = requests (-) SetToBag({d})
          /\ taken' = taken (+) SetToBag({d}) /\ skipped' = skipped (+) SetToBag({d})
    BY <1>4 DEF SkipEmpty, BagToSet
  <2>2. d \in Data
    BY DEF NetworkType, Data
  <2>3. /\ Counts(taken) /\ Counts(skipped) /\ DOMAIN skipped \subseteq Empty /\ d \in Empty
        /\ Counts(taken') /\ Counts(skipped') /\ DOMAIN skipped' = DOMAIN skipped \cup {d}
    BY <2>1, <2>2, PutIn
  <2>4. Counts(requests') /\ DOMAIN requests' \subseteq DOMAIN requests
    BY <2>1, TakenOut DEF NetworkType
  <2>5. NetworkType'
    BY <1>4, <2>4 DEF NetworkType, SkipEmpty
  <2>. QED
    BY <1>4, <2>3, <2>5 DEF SkipEmpty, listening
<1>. QED
  BY <1>1, <1>2, <1>3, <1>4

\* The place of one goroutine changes, its packet stays.
Moves(g, place) ==
  /\ gor' = [gor EXCEPT ![g].at = place]
  /\ UNCHANGED <<listening, buf, history, closer, early, requests, client>>

LEMMA MovesGoroutine ==
  ASSUME ServerType, NEW g \in Goroutines, NEW place \in Places, Moves(g, place)
  PROVE  /\ gor' \in [Goroutines -> [at : Places, data : Data]]
         /\ gor'[g].at = place
         /\ \A h \in Goroutines : gor'[h].data = gor[h].data /\ (h # g => gor'[h] = gor[h])
<1>1. gor \in [Goroutines -> [at : Places, data : Data]]
  BY DEF ServerType
<1>2. PICK r : r = [gor[g] EXCEPT !.at = place]
  OBVIOUS
<1>3. gor[g] \in [at : Places, data : Data]
  BY <1>1
<1>4. r \in [at : Places, data : Data] /\ r.at = place /\ r.data = gor[g].data
  BY <1>2, <1>3
<1>5. gor' = [gor EXCEPT ![g] = r]
  BY <1>2 DEF Moves
<1>. QED
  BY <1>1, <1>4, <1>5

\* What the steps of handlePacket do to goroutines, counters and answers.
LEMMA HandlerStep ==
  ASSUME ServerType, NetworkType, NEW g \in Goroutines,
         HandlePacket(g) \/ Answers(g) \/ HandlerReturns(g)
  PROVE  /\ ServerType' /\ NetworkType' /\ UNCHANGED client
         /\ \/ gor[g].at = "spawned" /\ Moves(g, "running") /\ sem' = sem /\ active' = active + 1
            \/ /\ gor[g].at = "running" /\ sem' = sem /\ active' = active
               /\ Moves(g, "answered") \/ Moves(g, "running")
            \/ gor[g].at \in {"running", "answered"} /\ Moves(g, "returned")
               /\ sem' = sem /\ active' = active - 1
            \/ gor[g].at = "returned" /\ Moves(g, "released") /\ active' = active
               /\ sem' = (IF MaxConns = 0 THEN sem ELSE sem - 1)
            \/ gor[g].at = "released" /\ Moves(g, "done") /\ sem' = sem /\ active' = active
<1>. USE DEF Moves, network
<1>. DEFINE Typed == sem' \in Int /\ active' \in Int /\ Counts(answers')
<1>1. CASE HandlerStarts(g)
  <2>1. Moves(g, "running") /\ sem' = sem /\ active' = active + 1 /\ gor[g].at = "spawned" /\ Typed
    BY <1>1 DEF HandlerStarts, ServerType, NetworkType
  <2>2. gor' \in [Goroutines -> [at : Places, data : Data]]
    BY <2>1, MovesGoroutine DEF Places
  <2>. QED
    BY <2>1, <2>2 DEF ServerType, NetworkType, listening
<1>2. CASE HandlerAnswers(g)
  <2>1. Moves(g, "answered") /\ sem' = sem /\ active' = active /\ gor[g].at = "running"
    BY <1>2 DEF HandlerAnswers
  <2>2. gor' \in [Goroutines -> [at : Places, data : Data]]
    BY <2>1, MovesGoroutine DEF Places
  <2>3. PICK d \in {gor[g].data} \cup Empty : answers' = answers (+) SetToBag({d})
    BY <1>2 DEF HandlerAnswers
  <2>4. d \in Data
    BY UdpAssumption DEF ServerType, Data
  <2>5. Counts(answers')
    BY <1>2, <2>3, <2>4, PutIn DEF HandlerAnswers, NetworkType
  <2>. QED
    BY <2>1, <2>2, <2>5 DEF ServerType, NetworkType, listening, history
<1>3. CASE HandlerReturns(g)
  <2>1. /\ Moves(g, "returned") /\ sem' = sem /\ active' = active - 1
        /\ gor[g].at \in {"running", "answered"} /\ Typed
    BY <1>3 DEF HandlerReturns, ServerType, NetworkType
  <2>2. gor' \in [Goroutines -> [at : Places, data : Data]]
    BY <2>1, MovesGoroutine DEF Places
  <2>. QED
    BY <2>1, <2>2 DEF ServerType, NetworkType, listening
<1>4. CASE HandlerReleases(g)
  <2>1. /\ Moves(g, "released") /\ active' = active /\ gor[g].at = "returned" /\ Typed
        /\ sem' = (IF MaxConns = 0 THEN sem ELSE sem - 1)
    BY <1>4 DEF HandlerReleases, ServerType, NetworkType
  <2>2. gor' \in [Goroutines -> [at : Places, data : Data]]
    BY <2>1, MovesGoroutine DEF Places
  <2>. QED
    BY <2>1, <2>2 DEF ServerType, NetworkType, listening
<1>5. CASE HandlerDone(g)
  <2>1. Moves(g, "done") /\ sem' = sem /\ active' = active /\ gor[g].at = "released" /\ Typed
    BY <1>5 DEF HandlerDone, ServerType, NetworkType
  <2>2. gor' \in [Goroutines -> [at : Places, data : Data]]
    BY <2>1, MovesGoroutine DEF Places
  <2>. QED
    BY <2>1, <2>2 DEF ServerType, NetworkType, listening
<1>6. CASE HandlerAnswersOn(g)
  <2>1. gor' = gor /\ gor[g].at = "running" /\ UNCHANGED <<server, requests, client>>
    BY <1>6 DEF HandlerAnswersOn, server, packets
  <2>2. [gor EXCEPT ![g].at = "running"] = gor
    BY <2>1 DEF ServerType
  <2>3. Moves(g, "running") /\ sem' = sem /\ active' = active
    BY <2>1, <2>2 DEF server, packets
  <2>4. gor[g].data \in Data
    BY DEF ServerType
  <2>5. Counts(SetToBag({gor[g].data}))
    BY <2>4 DEF Counts, SetToBag
  <2>6. NetworkType'
    BY <1>6, <2>1, <2>5 DEF NetworkType, HandlerAnswersOn
  <2>7. ServerType'
    BY <2>1 DEF ServerType, server, listening, packets, history
  <2>. QED
    BY <2>1, <2>3, <2>6, <2>7
<1>. QED
  BY <1>1, <1>2, <1>3, <1>4, <1>5, <1>6 DEF HandlePacket, Answers

\* The network takes from its bags and doubles what is in them.
LEMMA NetworkStep ==
  ASSUME NetworkType, Loses \/ Doubles \/ \E d \in Datagrams : Write(d)
  PROVE  NetworkType' /\ UNCHANGED <<server, client>>
<1>. USE DEF NetworkType, BagToSet
<1>1. CASE Loses
  <2>1. \/ /\ \E d \in DOMAIN requests : requests' = requests (-) SetToBag({d})
           /\ UNCHANGED answers
        \/ /\ \E d \in DOMAIN answers : answers' = answers (-) SetToBag({d})
           /\ UNCHANGED requests
    BY <1>1 DEF Loses
  <2>2. ASSUME NEW d \in DOMAIN requests, requests' = requests (-) SetToBag({d}), UNCHANGED answers
        PROVE  NetworkType'
    BY <2>2, TakenOut
  <2>3. ASSUME NEW d \in DOMAIN answers, answers' = answers (-) SetToBag({d}), UNCHANGED requests
        PROVE  NetworkType'
    BY <2>3, TakenOut
  <2>. QED
    BY <1>1, <2>1, <2>2, <2>3 DEF Loses
<1>2. ASSUME NEW d \in Datagrams, requests' = requests (+) SetToBag({d}), UNCHANGED answers
      PROVE  NetworkType'
  <2>1. d \in Data
    BY DEF Data
  <2>2. Counts(requests') /\ DOMAIN requests' = DOMAIN requests \cup {d}
    BY <1>2, <2>1, PutIn
  <2>. QED
    BY <1>2, <2>2
<1>3. CASE Doubles
  <2>1. PICK d \in DOMAIN requests : requests' = requests (+) SetToBag({d})
    BY <1>3 DEF Doubles
  <2>. QED
    BY <1>2, <1>3, <2>1 DEF Doubles
<1>4. ASSUME NEW d \in Datagrams, Write(d) PROVE NetworkType'
  BY <1>2, <1>4 DEF Write
<1>. QED
  <2>1. NetworkType'
    BY <1>1, <1>3, <1>4
  <2>2. UNCHANGED server /\ UNCHANGED client
    BY DEF Loses, Doubles, Write
  <2>. QED
    BY <2>1, <2>2

LEMMA ClientStep ==
  ASSUME NetworkType, ClientType,
         \/ Connect \/ ReadLoop \/ ContextCancelled \/ ContextFires \/ Close
         \/ ReadBegins \/ ReadTakes \/ ReadEnds
  PROVE  NetworkType' /\ ClientType' /\ UNCHANGED server
<1>. USE DEF NetworkType, ClientType, network, client
<1>1. CASE Connect \/ ContextCancelled \/ ContextFires \/ ReadBegins \/ ReadEnds
  BY <1>1 DEF Connect, ContextCancelled, ContextFires, ReadBegins, ReadEnds
<1>2. CASE ReaderArms \/ ReaderFails \/ ReaderTimesOut \/ ReaderDispatches \/ ReaderLeaves
  BY <1>2 DEF ReaderArms, ReaderFails, ReaderTimesOut, ReaderDispatches, ReaderLeaves
<1>3. CASE ReaderCAS \/ ReaderCleansUp
  BY <1>3 DEF ReaderCAS, ReaderCleansUp
<1>4. CASE ReaderReads
  <2>1. PICK d \in DOMAIN answers : /\ chunk' = IF d \in Empty THEN None ELSE d
                                    /\ answers' = answers (-) SetToBag({d})
    BY <1>4 DEF ReaderReads, BagToSet
  <2>2. d \in Data /\ None \in Data
    BY DEF Counts, Data
  <2>3. chunk' \in Data
    BY <2>1, <2>2
  <2>4. Counts(answers')
    BY <2>1, TakenOut
  <2>. QED
    BY <1>4, <2>3, <2>4 DEF ReaderReads
<1>5. CASE ReaderSends
  <2>1. output' \in Seq(Data) /\ Len(output') = Len(output) + 1
    BY <1>5 DEF ReaderSends
  <2>2. Len(output') <= OutCap
    BY <1>5, <2>1, UdpAssumption DEF ReaderSends
  <2>. QED
    BY <1>5, <2>1, <2>2 DEF ReaderSends, Data
<1>6. CASE ReaderQuits
  BY <1>6 DEF ReaderQuits, Data
<1>7. CASE CloseCAS
  <2>1. PICK s \in {"init", "connected", "closed"} : cstate' = s
    BY <1>7, Zenon DEF CloseCAS
  <2>. QED
    BY <1>7, <2>1 DEF CloseCAS
<1>8. CASE CloseCleansUp \/ CloseReturns
  BY <1>8 DEF CloseCleansUp, CloseReturns
<1>9. CASE ReadTakes
  <2>1. output' \in Seq(Data) /\ Len(output') = Len(output) - 1
    BY <1>9 DEF ReadTakes
  <2>2. Len(output') <= OutCap
    BY <2>1, UdpAssumption
  <2>. QED
    BY <1>9, <2>1, <2>2 DEF ReadTakes
<1>. QED
  BY <1>1, <1>2, <1>3, <1>4, <1>5, <1>6, <1>7, <1>8, <1>9 DEF ReadLoop, Close

-----------------------------------------------------------------------------
(* The packets and the counters.                                           *)

\* A step that leaves the packets alone, and the decision Listen is about to
\* make, keeps what is said of them.
LEMMA PacketsStay ==
  ASSUME PacketInv, SlotInv, UNCHANGED packets, listen' = "admitting" <=> listen = "admitting"
  PROVE  PacketInv' /\ SlotInv'
<1>. USE DEF packets, history
<1>1. Holding' = Holding /\ Running' = Running
  BY DEF Holding, Running
<1>2. SlotInv'
  BY <1>1 DEF SlotInv
<1>3. \A d : HasPacket(d)' = HasPacket(d)
  BY DEF HasPacket
<1>4. PacketInv'
  BY <1>3 DEF PacketInv
<1>. QED
  BY <1>2, <1>4

LEMMA PacketTypes ==
  ASSUME ServerType
  PROVE  /\ \A d \in Data : /\ Cardinality(HasPacket(d)) \in Nat
                            /\ Copies(taken, d) \in Nat /\ Copies(refused, d) \in Nat
                            /\ Copies(skipped, d) \in Nat
         /\ Cardinality(Holding) \in Nat /\ Cardinality(Running) \in Nat
<1>1. \A d : HasPacket(d) \subseteq Goroutines
  BY DEF HasPacket
<1>2. Holding \subseteq Goroutines /\ Running \subseteq Goroutines
  BY DEF Holding, Running
<1>3. \A d : /\ Copies(taken, d) \in Nat /\ Copies(refused, d) \in Nat
             /\ Copies(skipped, d) \in Nat
  BY DEF ServerType, Counts, Copies
<1>. QED
  BY <1>1, <1>2, <1>3, GoroutineSets

\* The packet that is read comes into hand.
LEMMA ReadFromPackets ==
  ASSUME ServerType, NetworkType, PacketInv, SlotInv, ReadFrom
  PROVE  PacketInv' /\ SlotInv'
<1>1. PICK d \in DOMAIN requests : buf' = d /\ taken' = taken (+) SetToBag({d})
  BY DEF ReadFrom, BagToSet
<1>2. d \in Data
  BY DEF NetworkType, Data
<1>3. Holding' = Holding /\ Running' = Running
  BY DEF Holding, Running, ReadFrom
<1>4. SlotInv'
  BY <1>3 DEF SlotInv, ReadFrom
<1>5. ASSUME NEW e \in Data
      PROVE  Copies(taken', e) = Cardinality(HasPacket(e)') + Copies(refused', e) + Copies(skipped', e)
                                 + (IF listen' = "admitting" /\ buf' = e THEN 1 ELSE 0)
  <2>1. Copies(taken', e) = Copies(taken, e) + (IF e = d THEN 1 ELSE 0)
    BY <1>1, <1>2, PutIn DEF ServerType
  <2>2. Copies(taken, e) = Cardinality(HasPacket(e)) + Copies(refused, e) + Copies(skipped, e)
    BY PacketTypes DEF PacketInv, ReadFrom
  <2>3. HasPacket(e)' = HasPacket(e) /\ refused' = refused /\ skipped' = skipped /\ listen' = "admitting"
    BY DEF HasPacket, ReadFrom
  <2>. QED
    BY <1>1, <2>1, <2>2, <2>3, PacketTypes
<1>. QED
  BY <1>4, <1>5 DEF PacketInv

\* An empty packet is counted as read and as passed over.
LEMMA SkipPackets ==
  ASSUME ServerType, NetworkType, PacketInv, SlotInv, SkipEmpty
  PROVE  PacketInv' /\ SlotInv'
<1>1. PICK d \in DOMAIN requests : /\ taken' = taken (+) SetToBag({d})
                                   /\ skipped' = skipped (+) SetToBag({d})
  BY DEF SkipEmpty, BagToSet
<1>2. d \in Data
  BY DEF NetworkType, Data
<1>3. Holding' = Holding /\ Running' = Running
  BY DEF Holding, Running, SkipEmpty
<1>4. SlotInv'
  BY <1>3 DEF SlotInv, SkipEmpty
<1>5. ASSUME NEW e \in Data
      PROVE  Copies(taken', e) = Cardinality(HasPacket(e)') + Copies(refused', e) + Copies(skipped', e)
                                 + (IF listen' = "admitting" /\ buf' = e THEN 1 ELSE 0)
  <2>1. /\ Copies(taken', e) = Copies(taken, e) + (IF e = d THEN 1 ELSE 0)
        /\ Copies(skipped', e) = Copies(skipped, e) + (IF e = d THEN 1 ELSE 0)
    BY <1>1, <1>2, PutIn DEF ServerType
  <2>2. Copies(taken, e) = Cardinality(HasPacket(e)) + Copies(refused, e) + Copies(skipped, e)
    BY PacketTypes DEF PacketInv, SkipEmpty
  <2>3. HasPacket(e)' = HasPacket(e) /\ refused' = refused /\ listen' = "reading"
    BY DEF HasPacket, SkipEmpty, listening
  <2>. QED
    BY <2>1, <2>2, <2>3, PacketTypes
<1>. QED
  BY <1>4, <1>5 DEF PacketInv

\* The packet in hand is dropped.
LEMMA DropPackets ==
  ASSUME ServerType, PacketInv, SlotInv, DropPacket
  PROVE  PacketInv' /\ SlotInv'
<1>1. Holding' = Holding /\ Running' = Running
  BY DEF Holding, Running, DropPacket
<1>2. SlotInv'
  BY <1>1 DEF SlotInv, DropPacket
<1>3. ASSUME NEW e \in Data
      PROVE  Copies(taken', e) = Cardinality(HasPacket(e)') + Copies(refused', e) + Copies(skipped', e)
                                 + (IF listen' = "admitting" /\ buf' = e THEN 1 ELSE 0)
  <2>1. buf \in Data
    BY DEF ServerType
  <2>2. Copies(refused', e) = Copies(refused, e) + (IF e = buf THEN 1 ELSE 0)
    BY <2>1, PutIn DEF ServerType, DropPacket
  <2>3. Copies(taken, e) = Cardinality(HasPacket(e)) + Copies(refused, e) + Copies(skipped, e)
                           + (IF buf = e THEN 1 ELSE 0)
    BY DEF PacketInv, DropPacket
  <2>4. HasPacket(e)' = HasPacket(e) /\ taken' = taken /\ skipped' = skipped /\ listen' # "admitting"
    BY DEF HasPacket, DropPacket
  <2>. QED
    BY <2>2, <2>3, <2>4, PacketTypes
<1>. QED
  BY <1>2, <1>3 DEF PacketInv

\* The packet in hand goes to a free goroutine, and a slot with it.
LEMMA SpawnPackets ==
  ASSUME ServerType, RoomInv, PacketInv, SlotInv, Spawn
  PROVE  PacketInv' /\ SlotInv'
<1>1. PICK g \in Goroutines :
        gor[g].at = "none" /\ gor' = [gor EXCEPT ![g] = [at |-> "spawned", data |-> buf]]
  BY Chosen
<1>2. gor'[g].at = "spawned" /\ gor'[g].data = buf /\ \A h \in Goroutines : h # g => gor'[h] = gor[h]
  BY <1>1 DEF ServerType
<1>3. Holding' = Holding \cup {g} /\ g \notin Holding /\ Running' = Running
  BY <1>1, <1>2 DEF Holding, Running
<1>4. Cardinality(Holding') = Cardinality(Holding) + 1
  BY <1>3, OneMore DEF Holding
<1>5. SlotInv'
  <2>1. active' = Cardinality(Running')
    BY <1>3 DEF SlotInv, Spawn
  <2>2. ASSUME MaxConns > 0 PROVE sem' = Cardinality(Holding') /\ sem' <= MaxConns
    <3>1. sem < MaxConns /\ sem' = sem + 1
      BY <2>2, UdpAssumption DEF Spawn
    <3>. QED
      BY <1>4, <2>2, <3>1, UdpAssumption DEF SlotInv, ServerType
  <2>. QED
    BY <2>1, <2>2 DEF SlotInv
<1>6. ASSUME NEW e \in Data
      PROVE  Copies(taken', e) = Cardinality(HasPacket(e)') + Copies(refused', e) + Copies(skipped', e)
                                 + (IF listen' = "admitting" /\ buf' = e THEN 1 ELSE 0)
  <2>1. Copies(taken, e) = Cardinality(HasPacket(e)) + Copies(refused, e) + Copies(skipped, e)
                           + (IF buf = e THEN 1 ELSE 0)
    BY DEF PacketInv, Spawn
  <2>2. taken' = taken /\ refused' = refused /\ skipped' = skipped /\ listen' # "admitting"
    BY DEF Spawn
  <2>3. CASE e = buf
    <3>1. HasPacket(e)' = HasPacket(e) \cup {g} /\ g \notin HasPacket(e)
      BY <1>1, <1>2, <2>3 DEF HasPacket
    <3>2. Cardinality(HasPacket(e)') = Cardinality(HasPacket(e)) + 1
      BY <3>1, OneMore DEF HasPacket
    <3>. QED
      BY <2>1, <2>2, <2>3, <3>2, PacketTypes
  <2>4. CASE e # buf
    <3>1. HasPacket(e)' = HasPacket(e)
      BY <1>1, <1>2, <2>4 DEF HasPacket
    <3>. QED
      BY <2>1, <2>2, <2>4, <3>1, PacketTypes
  <2>. QED
    BY <2>3, <2>4
<1>. QED
  BY <1>5, <1>6 DEF PacketInv

\* A goroutine that moves keeps its packet; the counters follow it.
LEMMA HandlerPackets ==
  ASSUME ServerType, NetworkType, PacketInv, SlotInv, NEW g \in Goroutines,
         HandlePacket(g) \/ Answers(g) \/ HandlerReturns(g)
  PROVE  PacketInv' /\ SlotInv'
<1>1. ASSUME NEW place \in Places \ {"none"}, Moves(g, place), gor[g].at # "none"
      PROVE  PacketInv'
  <2>1. /\ gor'[g].at = place
        /\ \A h \in Goroutines : gor'[h].data = gor[h].data /\ (h # g => gor'[h] = gor[h])
    BY <1>1, MovesGoroutine
  <2>2. ASSUME NEW e \in Data PROVE HasPacket(e)' = HasPacket(e)
    BY <1>1, <2>1 DEF HasPacket
  <2>3. UNCHANGED <<taken, refused, skipped, listen, buf>>
    BY <1>1 DEF Moves, listening, history
  <2>. QED
    BY <2>2, <2>3 DEF PacketInv
<1>2. ASSUME NEW place \in Places, Moves(g, place)
      PROVE  gor'[g].at = place /\ \A h \in Goroutines \ {g} : gor'[h] = gor[h]
  BY <1>2, MovesGoroutine
<1>3. CASE gor[g].at = "spawned" /\ Moves(g, "running") /\ sem' = sem /\ active' = active + 1
  <2>1. Holding' = Holding /\ Running' = Running \cup {g} /\ g \notin Running
    BY <1>2, <1>3 DEF Holding, Running, Places
  <2>2. Cardinality(Running') = Cardinality(Running) + 1
    BY <2>1, OneMore DEF Running
  <2>3. SlotInv'
    BY <1>3, <2>1, <2>2 DEF SlotInv
  <2>. QED
    BY <1>1, <1>3, <2>3 DEF Places
<1>4. CASE /\ gor[g].at = "running" /\ sem' = sem /\ active' = active
           /\ Moves(g, "answered") \/ Moves(g, "running")
  <2>1. Holding' = Holding /\ Running' = Running
    BY <1>2, <1>4 DEF Holding, Running, Places
  <2>2. SlotInv'
    BY <1>4, <2>1 DEF SlotInv
  <2>. QED
    BY <1>1, <1>4, <2>2 DEF Places
<1>5. CASE gor[g].at \in {"running", "answered"} /\ Moves(g, "returned")
           /\ sem' = sem /\ active' = active - 1
  <2>1. Holding' = Holding /\ Running' = Running \ {g} /\ g \in Running
    BY <1>2, <1>5 DEF Holding, Running, Places
  <2>2. Cardinality(Running') = Cardinality(Running) - 1
    BY <2>1, OneLess DEF Running
  <2>3. SlotInv'
    BY <1>5, <2>1, <2>2 DEF SlotInv
  <2>. QED
    BY <1>1, <1>5, <2>3 DEF Places
<1>6. CASE gor[g].at = "returned" /\ Moves(g, "released") /\ active' = active
           /\ sem' = (IF MaxConns = 0 THEN sem ELSE sem - 1)
  <2>1. Holding' = Holding \ {g} /\ g \in Holding /\ Running' = Running
    BY <1>2, <1>6 DEF Holding, Running, Places
  <2>2. Cardinality(Holding') = Cardinality(Holding) - 1
    BY <2>1, OneLess DEF Holding
  <2>3. ASSUME MaxConns > 0 PROVE sem' = Cardinality(Holding') /\ sem' <= MaxConns
    BY <1>6, <2>2, <2>3, UdpAssumption DEF SlotInv, ServerType
  <2>4. SlotInv'
    BY <1>6, <2>1, <2>3 DEF SlotInv
  <2>. QED
    BY <1>1, <1>6, <2>4 DEF Places
<1>7. CASE gor[g].at = "released" /\ Moves(g, "done") /\ sem' = sem /\ active' = active
  <2>1. Holding' = Holding /\ Running' = Running
    BY <1>2, <1>7 DEF Holding, Running, Places
  <2>2. SlotInv'
    BY <1>7, <2>1 DEF SlotInv
  <2>. QED
    BY <1>1, <1>7, <2>2 DEF Places
<1>. QED
  BY <1>3, <1>4, <1>5, <1>6, <1>7, HandlerStep

-----------------------------------------------------------------------------
(* Listen and Close.                                                       *)

\* Listen outside its loop, and the parent's cancellation.
LEMMA ListenPhases ==
  ASSUME ServerType, ListenInv,
         \/ ListenCAS \/ ListenAdd \/ ListenBind \/ ListenBindFails \/ ListenSetUp
         \/ ReadFromFails \/ ListenLeave \/ ListenWait \/ ListenReturns \/ ParentCancelled
  PROVE  ListenInv'
<1>. USE DEF ListenInv, RoomInv, WaitGroupInv, SocketInv, StateInv, CloserInv, Counted, SetUp
<1>0. UNCHANGED gor /\ Busy' = Busy /\ UNCHANGED <<closer, early>>
  BY DEF Busy, ListenCAS, ListenAdd, ListenBind, ListenBindFails, ListenSetUp, ReadFromFails,
         ListenLeave, ListenWait, ListenReturns, ParentCancelled, packets
<1>1. CASE ListenCAS
  <2>1. CASE state = "init"
    BY <1>0, <1>1, <2>1 DEF ListenCAS
  <2>2. CASE state # "init"
    BY <1>0, <1>1, <2>2 DEF ListenCAS
  <2>. QED
    BY <2>1, <2>2
<1>2. CASE ListenAdd
  BY <1>0, <1>2 DEF ListenAdd
<1>3. CASE ListenBind
  BY <1>0, <1>3 DEF ListenBind
<1>4. CASE ListenBindFails
  BY <1>0, <1>4 DEF ListenBindFails
<1>5. CASE ListenSetUp
  BY <1>0, <1>5 DEF ListenSetUp
<1>6. CASE ReadFromFails
  BY <1>0, <1>6 DEF ReadFromFails
<1>7. CASE ListenLeave
  BY <1>0, <1>7 DEF ListenLeave, CloseConn
<1>8. CASE ListenWait
  BY <1>0, <1>8 DEF ListenWait
<1>9. CASE ListenReturns
  BY <1>0, <1>9 DEF ListenReturns
<1>10. CASE ParentCancelled
  BY <1>0, <1>10 DEF ParentCancelled
<1>. QED
  BY <1>1, <1>2, <1>3, <1>4, <1>5, <1>6, <1>7, <1>8, <1>9, <1>10

\* The loop of Listen.
LEMMA LoopPhases ==
  ASSUME ServerType, ListenInv, ReadFrom \/ SkipEmpty \/ DropPacket \/ Spawn
  PROVE  ListenInv'
<1>. USE DEF ListenInv, RoomInv, WaitGroupInv, SocketInv, StateInv, CloserInv, Counted, SetUp
<1>1. CASE ReadFrom
  BY <1>1 DEF ReadFrom
<1>2. CASE DropPacket
  BY <1>2 DEF DropPacket
<1>3. CASE Spawn
  BY <1>3 DEF Spawn
<1>4. CASE SkipEmpty
  BY <1>4 DEF SkipEmpty, listening
<1>. QED
  BY <1>1, <1>2, <1>3, <1>4

\* A step of handlePacket begins with a busy goroutine, so Listen is not past
\* its wait.
LEMMA HandlerPhases ==
  ASSUME ServerType, NetworkType, ListenInv, NEW g \in Goroutines,
         HandlePacket(g) \/ Answers(g) \/ HandlerReturns(g)
  PROVE  ListenInv'
<1>1. PICK place \in Places : Moves(g, place)
  BY HandlerStep DEF Places
<1>2. gor[g].at \in {"spawned", "running", "answered", "returned", "released"}
  BY HandlerStep
<1>3. \A h \in Goroutines \ {g} : gor'[h] = gor[h]
  BY <1>1, MovesGoroutine
<1>4. UNCHANGED <<state, listen, bound, conn, ctx, listenWG, closer, early>>
  BY <1>1 DEF Moves, listening
<1>5. g \in Busy
  BY <1>2 DEF Busy
<1>6. RoomInv'
  <2>1. ASSUME listen = "admitting" PROVE \E h \in Goroutines : gor'[h].at = "none"
    <3>1. PICK h \in Goroutines : gor[h].at = "none"
      BY <2>1 DEF ListenInv, RoomInv
    <3>2. h # g
      BY <1>2, <3>1
    <3>. QED
      BY <1>3, <3>1, <3>2
  <2>. QED
    BY <1>4, <2>1 DEF RoomInv
<1>7. StateInv'
  BY <1>4, <1>5 DEF ListenInv, StateInv
<1>8. WaitGroupInv' /\ SocketInv' /\ CloserInv'
  BY <1>4 DEF ListenInv, WaitGroupInv, SocketInv, CloserInv
<1>. QED
  BY <1>6, <1>7, <1>8 DEF ListenInv

LEMMA ClosePhases ==
  ASSUME ServerType, ListenInv, ServerClose
  PROVE  ListenInv'
<1>0. UNCHANGED gor /\ Busy' = Busy /\ UNCHANGED <<listen, listenWG>>
  BY DEF Busy, ServerClose, ServerCloseCAS, ServerCloseConn, ServerCloseCancel,
         ServerCloseReturns, packets, listening
<1>. USE DEF ListenInv, RoomInv, WaitGroupInv, SocketInv, StateInv, CloserInv, Counted, SetUp
<1>1. CASE ServerCloseCAS
  <2>1. CASE state = "serving"
    <3>1. closer' = "stopping" /\ state' = "closed"
          /\ (~early' => listen \notin {"adding", "binding", "bound"})
      BY <1>1, <2>1 DEF ServerCloseCAS
    <3>. QED
      BY <1>0, <1>1, <2>1, <3>1 DEF ServerCloseCAS
  <2>2. CASE state # "serving"
    <3>1. closer' = "nothing" /\ state' = "closed"
      BY <1>1, <2>2 DEF ServerCloseCAS
    <3>. QED
      BY <1>0, <1>1, <2>2, <3>1 DEF ServerCloseCAS
  <2>. QED
    BY <2>1, <2>2
<1>2. CASE ServerCloseConn
  BY <1>0, <1>2 DEF ServerCloseConn, CloseConn
<1>3. CASE ServerCloseCancel
  BY <1>0, <1>3 DEF ServerCloseCancel
<1>4. CASE ServerCloseReturns
  <2>1. listen \notin Counted
    BY <1>4 DEF ServerCloseReturns
  <2>. QED
    BY <1>0, <1>4, <2>1 DEF ServerCloseReturns, listening
<1>. QED
  BY <1>1, <1>2, <1>3, <1>4 DEF ServerClose

-----------------------------------------------------------------------------
(* The invariant, and what follows from it.                                *)

LEMMA InitUdp == Init => UdpInv
<1>. SUFFICES ASSUME Init PROVE UdpInv
  OBVIOUS
<1>1. ServerType /\ NetworkType /\ ClientType
  BY InitType
<1>2. Holding = {} /\ Running = {} /\ Busy = {} /\ \A d \in Data : HasPacket(d) = {}
  BY DEF Init, Holding, Running, Busy, HasPacket
<1>3. Cardinality({}) = 0
  BY FS_EmptySet
<1>4. SlotInv
  BY <1>2, <1>3, UdpAssumption DEF Init, SlotInv
<1>5. \A d : Copies(EmptyBag, d) = 0
  BY DEF Copies, EmptyBag, SetToBag
<1>6. PacketInv
  <2>1. taken = EmptyBag /\ refused = EmptyBag /\ skipped = EmptyBag /\ listen = "idle"
    BY DEF Init
  <2>2. \A d \in Data : Cardinality(HasPacket(d)) = 0
    BY <1>2, <1>3
  <2>3. \A d \in Data : Copies(taken, d) = 0 /\ Copies(refused, d) = 0 /\ Copies(skipped, d) = 0
    BY <1>5, <2>1
  <2>. QED
    BY <2>1, <2>2, <2>3 DEF PacketInv
<1>7. ListenInv
  BY <1>2 DEF Init, ListenInv, RoomInv, WaitGroupInv, SocketInv, StateInv, CloserInv, Counted
<1>. QED
  BY <1>1, <1>4, <1>6, <1>7 DEF UdpInv

\* A step that leaves the server alone.
LEMMA ServerStays ==
  ASSUME ServerType, PacketInv, SlotInv, ListenInv, UNCHANGED server
  PROVE  ServerType' /\ PacketInv' /\ SlotInv' /\ ListenInv'
<1>. USE DEF server, listening, packets, history
<1>1. ServerType'
  BY DEF ServerType
<1>2. PacketInv' /\ SlotInv'
  BY PacketsStay
<1>3. Busy' = Busy
  BY DEF Busy
<1>4. ListenInv'
  BY <1>3 DEF ListenInv, RoomInv, WaitGroupInv, SocketInv, StateInv, CloserInv
<1>. QED
  BY <1>1, <1>2, <1>4

LEMMA NextUdp == UdpInv /\ [Next]_vars => UdpInv'
<1>. SUFFICES ASSUME UdpInv, [Next]_vars PROVE UdpInv'
  OBVIOUS
<1>0. ServerType /\ NetworkType /\ ClientType /\ PacketInv /\ SlotInv /\ ListenInv /\ RoomInv
  BY DEF UdpInv, ListenInv
<1>1. CASE \/ ListenCAS \/ ListenAdd \/ ListenBind \/ ListenBindFails \/ ListenSetUp
           \/ ReadFromFails \/ ListenLeave \/ ListenWait \/ ListenReturns
           \/ ParentCancelled \/ ServerClose
  <2>1. ServerType' /\ UNCHANGED <<packets, network, client>>
    BY <1>0, <1>1, OutsideType
  <2>2. NetworkType' /\ ClientType'
    BY <1>0, <2>1 DEF NetworkType, ClientType, network, client
  <2>3. listen' = "admitting" <=> listen = "admitting"
    BY <1>1 DEF ListenCAS, ListenAdd, ListenBind, ListenBindFails, ListenSetUp, ReadFromFails,
                ListenLeave, ListenWait, ListenReturns, ParentCancelled, ServerClose,
                ServerCloseCAS, ServerCloseConn, ServerCloseCancel, ServerCloseReturns, listening
  <2>4. PacketInv' /\ SlotInv'
    BY <1>0, <2>1, <2>3, PacketsStay
  <2>5. ListenInv'
    BY <1>0, <1>1, ListenPhases, ClosePhases
  <2>. QED
    BY <2>1, <2>2, <2>4, <2>5 DEF UdpInv
<1>2. CASE ReadFrom \/ SkipEmpty \/ DropPacket \/ Spawn
  <2>1. ServerType' /\ NetworkType' /\ UNCHANGED client
    BY <1>0, <1>2, PacketType
  <2>2. ClientType'
    BY <1>0, <2>1 DEF ClientType, client
  <2>3. PacketInv' /\ SlotInv'
    BY <1>0, <1>2, ReadFromPackets, SkipPackets, DropPackets, SpawnPackets
  <2>4. ListenInv'
    BY <1>0, <1>2, LoopPhases
  <2>. QED
    BY <2>1, <2>2, <2>3, <2>4 DEF UdpInv
<1>3. ASSUME NEW g \in Goroutines, HandlePacket(g) \/ Answers(g) \/ HandlerReturns(g)
      PROVE  UdpInv'
  <2>1. ServerType' /\ NetworkType' /\ UNCHANGED client
    BY <1>0, <1>3, HandlerStep
  <2>2. ClientType'
    BY <1>0, <2>1 DEF ClientType, client
  <2>3. PacketInv' /\ SlotInv'
    BY <1>0, <1>3, HandlerPackets
  <2>4. ListenInv'
    BY <1>0, <1>3, HandlerPhases
  <2>. QED
    BY <2>1, <2>2, <2>3, <2>4 DEF UdpInv
<1>4. CASE Loses \/ Doubles \/ \E d \in Datagrams : Write(d)
  <2>1. NetworkType' /\ UNCHANGED <<server, client>>
    BY <1>0, <1>4, NetworkStep
  <2>2. ClientType'
    BY <1>0, <2>1 DEF ClientType, client
  <2>. QED
    BY <1>0, <2>1, <2>2, ServerStays DEF UdpInv
<1>5. CASE \/ Connect \/ ReadLoop \/ ContextCancelled \/ ContextFires \/ Close
           \/ ReadBegins \/ ReadTakes \/ ReadEnds
  <2>1. NetworkType' /\ ClientType' /\ UNCHANGED server
    BY <1>0, <1>5, ClientStep
  <2>. QED
    BY <1>0, <2>1, ServerStays DEF UdpInv
<1>6. CASE UNCHANGED vars
  <2>1. UNCHANGED server /\ UNCHANGED network /\ UNCHANGED client
    BY <1>6 DEF vars
  <2>2. NetworkType' /\ ClientType'
    BY <1>0, <2>1 DEF NetworkType, ClientType, network, client
  <2>. QED
    BY <1>0, <2>1, <2>2, ServerStays DEF UdpInv
<1>. QED
  BY <1>1, <1>2, <1>3, <1>4, <1>5, <1>6 DEF Next, Listen

\* Bags add up datagram by datagram, and agree when they do so in each.
LEMMA PutTogether ==
  ASSUME NEW A, NEW B, Counts(A), Counts(B)
  PROVE  /\ Counts(A (+) B)
         /\ \A d \in Data : Copies(A (+) B, d) = Copies(A, d) + Copies(B, d)
<1>. DEFINE C == A (+) B
<1>1. C = [e \in DOMAIN A \cup DOMAIN B |-> Copies(A, e) + Copies(B, e)]
  BY DEF (+), Copies
<1>2. (\A e \in DOMAIN A : A[e] \in Nat \ {0}) /\ (\A e \in DOMAIN B : B[e] \in Nat \ {0})
  BY DEF Counts
<1>. HIDE DEF C
<1>3. DOMAIN C = DOMAIN A \cup DOMAIN B /\ C = [e \in DOMAIN C |-> C[e]]
  BY <1>1
<1>4. \A e \in DOMAIN C : C[e] \in Nat \ {0}
  BY <1>1, <1>2 DEF Copies
<1>5. Counts(C)
  BY <1>3, <1>4 DEF Counts
<1>6. \A d \in Data : Copies(C, d) = Copies(A, d) + Copies(B, d)
  BY <1>1, <1>2 DEF Copies
<1>. QED
  BY <1>5, <1>6 DEF C

LEMMA SameBag ==
  ASSUME NEW A, NEW B, Counts(A), Counts(B), \A d \in Data : Copies(A, d) = Copies(B, d)
  PROVE  A = B
<1>1. A = [e \in DOMAIN A |-> A[e]] /\ B = [e \in DOMAIN B |-> B[e]]
  BY DEF Counts
<1>2. \A d \in Data : /\ d \in DOMAIN A <=> Copies(A, d) # 0
                      /\ d \in DOMAIN B <=> Copies(B, d) # 0
  BY DEF Counts, Copies
<1>3. DOMAIN A = DOMAIN B
  BY <1>2 DEF Counts
<1>4. \A d \in DOMAIN A : A[d] = B[d]
  BY <1>3 DEF Counts, Copies
<1>. QED
  BY <1>1, <1>3, <1>4

\* The packets served are those the goroutines have.
LEMMA ServedCounts ==
  ASSUME ServerType
  PROVE  Counts(Served) /\ \A d \in Data : Copies(Served, d) = Cardinality(HasPacket(d))
<1>1. \A d : {g \in Given : gor[g].data = d} = HasPacket(d)
  BY DEF HasPacket, Given
<1>2. DOMAIN Served \subseteq Data /\ DOMAIN Served = {gor[g].data : g \in Given}
  BY DEF ServerType, Served, Given
<1>3. \A d \in DOMAIN Served : Served[d] = Cardinality(HasPacket(d))
  BY <1>1 DEF Served
<1>4. \A d \in DOMAIN Served : HasPacket(d) # {}
  BY <1>2 DEF HasPacket, Given
<1>5. \A d \in DOMAIN Served : Cardinality(HasPacket(d)) \in Nat \ {0}
  <2>1. \A d : IsFiniteSet(HasPacket(d)) /\ Cardinality(HasPacket(d)) \in Nat
    BY GoroutineSets DEF HasPacket
  <2>. QED
    BY <1>4, <2>1, FS_EmptySet
<1>6. Served = [d \in DOMAIN Served |-> Served[d]]
  BY DEF Served
<1>7. Counts(Served)
  BY <1>2, <1>3, <1>5, <1>6 DEF Counts
<1>8. ASSUME NEW d \in Data PROVE Copies(Served, d) = Cardinality(HasPacket(d))
  <2>1. CASE d \in DOMAIN Served
    BY <1>3, <2>1 DEF Copies
  <2>2. CASE d \notin DOMAIN Served
    <3>1. HasPacket(d) = {}
      BY <1>2, <2>2 DEF HasPacket, Given
    <3>2. Cardinality(HasPacket(d)) = 0
      BY <3>1, FS_EmptySet
    <3>. QED
      BY <2>2, <3>2 DEF Copies
  <2>. QED
    BY <2>1, <2>2
<1>. QED
  BY <1>7, <1>8

LEMMA HandCounts ==
  ASSUME ServerType
  PROVE  /\ Counts(InHand)
         /\ \A d \in Data : Copies(InHand, d) = IF listen = "admitting" /\ buf = d THEN 1 ELSE 0
<1>1. CASE listen = "admitting"
  <2>1. InHand = [d \in {buf} |-> 1] /\ buf \in Data
    BY <1>1 DEF InHand, SetToBag, ServerType
  <2>. QED
    BY <1>1, <2>1 DEF Counts, Copies
<1>2. CASE listen # "admitting"
  <2>1. InHand = [d \in {} |-> 1]
    BY <1>2 DEF InHand, EmptyBag, SetToBag
  <2>. QED
    BY <1>2, <2>1 DEF Counts, Copies
<1>. QED
  BY <1>1, <1>2

\* The equation of bags, from the counts.
LEMMA BagsAgree ==
  ASSUME ServerType, PacketInv
  PROVE  taken = Served (+) refused (+) skipped (+) InHand
<1>. DEFINE A == Served (+) refused
            B == A (+) skipped
            C == B (+) InHand
<1>0. Counts(taken) /\ Counts(refused) /\ Counts(skipped)
  BY DEF ServerType
<1>1. Counts(A) /\ \A d \in Data : Copies(A, d) = Cardinality(HasPacket(d)) + Copies(refused, d)
  BY <1>0, ServedCounts, PutTogether
<1>. HIDE DEF A
<1>2. Counts(B) /\ \A d \in Data : Copies(B, d) = Copies(A, d) + Copies(skipped, d)
  BY <1>0, <1>1, PutTogether
<1>. HIDE DEF B
<1>3. Counts(C) /\ \A d \in Data : Copies(C, d) = Copies(B, d) + Copies(InHand, d)
  BY <1>2, HandCounts, PutTogether
<1>. HIDE DEF C
<1>4. \A d \in Data : Copies(taken, d) = Copies(C, d)
  BY <1>1, <1>2, <1>3, HandCounts DEF PacketInv
<1>5. taken = C
  BY <1>0, <1>3, <1>4, SameBag
<1>. QED
  BY <1>5 DEF A, B, C

LEMMA UdpFollows == UdpInv => PacketsHandled /\ NothingRemains
<1>. SUFFICES ASSUME UdpInv PROVE PacketsHandled /\ NothingRemains
  OBVIOUS
<1>0. ServerType /\ ClientType /\ PacketInv /\ SlotInv /\ ListenInv
  BY DEF UdpInv
<1>1. \A g \in Goroutines : gor[g].data \in Data
  BY <1>0 DEF ServerType
<1>2. listenWG \in {0, 1}
  BY <1>0 DEF ListenInv, WaitGroupInv
<1>3. TypeOK
  BY <1>0, <1>1, <1>2 DEF TypeOK, ServerType, ClientType, Data
<1>4. ASSUME MaxConns > 0 PROVE sem = Cardinality(Holding) /\ active <= sem /\ sem <= MaxConns
  <2>1. Running \subseteq Holding
    BY DEF Running, Holding
  <2>2. Holding \subseteq Goroutines
    BY DEF Holding
  <2>3. Cardinality(Running) <= Cardinality(Holding)
    BY <2>1, <2>2, GoroutineSets, FS_Subset
  <2>. QED
    BY <1>0, <1>4, <2>3 DEF SlotInv
<1>5. PacketsHandled
  BY <1>0, <1>3, <1>4, BagsAgree DEF PacketsHandled, ServerType
<1>6. NothingRemains
  BY <1>0 DEF NothingRemains, ListenInv, CloserInv, StateInv, SocketInv
<1>. QED
  BY <1>5, <1>6

\* Every packet the UDP server has read is, as it was read, in exactly one
\* goroutine, dropped at the limit, passed over because it is empty, or in
\* Listen's hand, and the semaphore of
\* Listen and handlePacket counts the goroutines that hold a slot, at most
\* MaxConns: for any datagrams, goroutines and limit.
THEOREM PacketsAreHandled == Spec => []PacketsHandled
<1>1. Init => UdpInv
  BY InitUdp
<1>2. UdpInv /\ [Next]_vars => UdpInv'
  BY NextUdp
<1>3. UdpInv => PacketsHandled
  BY UdpFollows
<1>. QED
  BY <1>1, <1>2, <1>3, PTL DEF Spec

\* A Listen of the UDP server that has returned, or a Close that found it set
\* up and has returned, leaves neither goroutine nor socket.
THEOREM StoppedServerLeavesNothing == Spec => []NothingRemains
<1>1. Init => UdpInv
  BY InitUdp
<1>2. UdpInv /\ [Next]_vars => UdpInv'
  BY NextUdp
<1>3. UdpInv => NothingRemains
  BY UdpFollows
<1>. QED
  BY <1>1, <1>2, <1>3, PTL DEF Spec
=============================================================================
