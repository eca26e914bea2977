---------------------------- MODULE HistoryProofs ----------------------------
(***************************************************************************)
(* Proofs about History for both implementations, any keys and shards, any *)
(* callers and any sizes.                                                  *)
(***************************************************************************)
EXTENDS History, FiniteSetTheorems, SequenceTheorems, TLAPS

-----------------------------------------------------------------------------
(* The parts of the invariant.                                             *)

\* What a buffer b, the records l pushed to it and its smallest capacity m
\* have to do with one another.
Keeps(b, l, m) ==
  /\ Len(b.items) <= b.cap /\ m <= b.cap
  /\ IsSuffix(b.items, l)
  /\ Len(b.items) = Len(l) \/ Len(b.items) >= m

\* Only the map starts without buffers.
MemInv ==
  /\ buf \in [Slots -> Buffers \cup {None}]
  /\ log \in [Slots -> Seq(Nat)] /\ low \in [Slots -> Nat]
  /\ \A s \in Slots : buf[s] = None => impl = "map" /\ log[s] = <<>>
  /\ \A s \in Slots : buf[s] # None => Keeps(buf[s], log[s], low[s])

ScalarInv ==
  /\ impl \in {"map", "sharded"}
  /\ asked \in Nat /\ maxSize \in Int /\ maxSize = Int32(asked)
  /\ stuck \subseteq Slots
  /\ ops \in 0..MaxOps /\ raced \in BOOLEAN /\ own \subseteq Slots

\* The calls.
MapOps     == {"Push", "List", "Clear", "SetSizeByKey"}
MapCalls   == [op : MapOps, pc : {"load", "store", "use"}, key : Keys, n : Nat, rec : Nat,
               size : Nat]
RangeCalls == [op : {"SetSize"}, pc : {"range"}, n : Nat \ {0}, todo : SUBSET Keys]
SizeCalls  == [op : {"SetSize"}, n : Nat \ {0}, todo : SUBSET Shards]
ClearCalls == [op : {"ClearAll"}, n : Nat, todo : SUBSET Shards]
BatchCalls == [op : {"BatchPush"}, rec : Nat, keys : Pairs, todo : SUBSET Shards]
Counting(r) == r \in [op : {"CountAll"}, n : {r.n}, todo : {r.todo}]

\* Whoever has come to use a buffer finds one there.
MapCallInv(c) ==
  \/ call[c] = Free
  \/ call[c] \in RangeCalls
  \/ /\ call[c] \in MapCalls
     /\ call[c].op = "SetSizeByKey" => call[c].n > 0
     /\ call[c].pc = "store" => call[c].size > 0
     /\ call[c].pc = "use" => buf[call[c].key] # None

ShardedCallInv(c) ==
  \/ call[c] = Free
  \/ call[c] \in SizeCalls \cup ClearCalls \cup BatchCalls
  \/ Counting(call[c])

CallInv ==
  /\ call = [c \in Callers |-> call[c]]
  /\ \A c \in Callers : IF impl = "map" THEN MapCallInv(c) ELSE ShardedCallInv(c)

-----------------------------------------------------------------------------
(* Sequences and buffers.                                                  *)

LEMMA SuffixMeans ==
  ASSUME NEW s \in Seq(Nat), NEW t \in Seq(Nat)
  PROVE  IsSuffix(s, t) <=> /\ Len(s) <= Len(t)
                            /\ \A k \in 1 .. Len(s) : s[k] = t[Len(t) - Len(s) + k]
<1>1. Len(s) \in Nat /\ Len(t) \in Nat
  OBVIOUS
<1>. DEFINE r == Reverse(s)
            u == Reverse(t)
<1>2. /\ r \in Seq(Nat) /\ Len(r) = Len(s) /\ \A i \in 1 .. Len(s) : r[i] = s[(Len(s) - i) + 1]
      /\ u \in Seq(Nat) /\ Len(u) = Len(t) /\ \A i \in 1 .. Len(t) : u[i] = t[(Len(t) - i) + 1]
  BY <1>1 DEF Reverse
<1>3. IsSuffix(s, t) <=> Len(r) <= Len(u) /\ SubSeq(r, 1, Len(r)) = SubSeq(u, 1, Len(r))
  BY DEF IsSuffix, IsPrefix
<1>. HIDE DEF r, u
<1>4. ASSUME Len(s) <= Len(t)
      PROVE  SubSeq(r, 1, Len(r)) = SubSeq(u, 1, Len(r)) <=> \A i \in 1 .. Len(s) : r[i] = u[i]
  <2>1. /\ Len(SubSeq(r, 1, Len(r))) = Len(s) /\ SubSeq(r, 1, Len(r)) \in Seq(Nat)
        /\ \A i \in 1 .. Len(s) : SubSeq(r, 1, Len(r))[i] = r[i]
    BY <1>1, <1>2
  <2>2. /\ Len(SubSeq(u, 1, Len(r))) = Len(s) /\ SubSeq(u, 1, Len(r)) \in Seq(Nat)
        /\ \A i \in 1 .. Len(s) : SubSeq(u, 1, Len(r))[i] = u[i]
    <3>1. u \in Seq(Nat) /\ 1 \in 1 .. Len(u) + 1 /\ Len(s) \in 0 .. Len(u) /\ Len(r) = Len(s)
      BY <1>1, <1>2, <1>4
    <3>. QED
      BY <1>1, <3>1
  <2>. QED
    BY <2>1, <2>2, SeqEqual
<1>5. ASSUME Len(s) <= Len(t)
      PROVE  (\A i \in 1 .. Len(s) : r[i] = u[i])
               <=> \A k \in 1 .. Len(s) : s[k] = t[Len(t) - Len(s) + k]
  <2>1. ASSUME \A i \in 1 .. Len(s) : r[i] = u[i], NEW k \in 1 .. Len(s)
        PROVE  s[k] = t[Len(t) - Len(s) + k]
    <3>0. Len(s) - k + 1 \in 1 .. Len(s)
      BY <1>1
    <3>1. PICK i \in 1 .. Len(s) : i = Len(s) - k + 1
      BY <3>0
    <3>2. i \in 1 .. Len(t) /\ (Len(s) - i) + 1 = k /\ (Len(t) - i) + 1 = Len(t) - Len(s) + k
      BY <1>1, <1>5, <3>1
    <3>. QED
      BY <1>2, <2>1, <3>2
  <2>2. ASSUME \A k \in 1 .. Len(s) : s[k] = t[Len(t) - Len(s) + k], NEW i \in 1 .. Len(s)
        PROVE  r[i] = u[i]
    <3>0. (Len(s) - i) + 1 \in 1 .. Len(s)
      BY <1>1
    <3>1. PICK k \in 1 .. Len(s) : k = (Len(s) - i) + 1
      BY <3>0
    <3>2. i \in 1 .. Len(t) /\ (Len(t) - i) + 1 = Len(t) - Len(s) + k
      BY <1>1, <1>5, <3>1
    <3>. QED
      BY <1>2, <2>2, <3>1, <3>2
  <2>. QED
    BY <2>1, <2>2
<1>. QED
  BY <1>2, <1>3, <1>4, <1>5

LEMMA LastOfProps ==
  ASSUME NEW s \in Seq(Nat), NEW n \in Nat
  PROVE  /\ LastOf(s, n) \in Seq(Nat)
         /\ Len(LastOf(s, n)) = IF Len(s) <= n THEN Len(s) ELSE n
         /\ IsSuffix(LastOf(s, n), s)
<1>1. Len(s) \in Nat
  OBVIOUS
<1>2. CASE Len(s) <= n
  <2>1. LastOf(s, n) = s
    BY <1>2 DEF LastOf
  <2>2. IsSuffix(s, s)
    BY <1>1, SuffixMeans
  <2>. QED
    BY <1>2, <2>1, <2>2
<1>3. CASE ~(Len(s) <= n)
  <2>1. LastOf(s, n) = SubSeq(s, Len(s) - n + 1, Len(s))
    BY <1>3 DEF LastOf
  <2>2. /\ LastOf(s, n) \in Seq(Nat) /\ Len(LastOf(s, n)) = n
        /\ \A k \in 1 .. n : LastOf(s, n)[k] = s[Len(s) - n + k]
    BY <1>1, <1>3, <2>1
  <2>3. n <= Len(s)
    BY <1>1, <1>3
  <2>4. IsSuffix(LastOf(s, n), s)
    BY <2>2, <2>3, SuffixMeans
  <2>. QED
    BY <1>3, <2>2, <2>4
<1>. QED
  BY <1>2, <1>3

LEMMA SuffixTrans ==
  ASSUME NEW r \in Seq(Nat), NEW s \in Seq(Nat), NEW t \in Seq(Nat), IsSuffix(r, s), IsSuffix(s, t)
  PROVE  IsSuffix(r, t)
<1>1. Len(r) \in Nat /\ Len(s) \in Nat /\ Len(t) \in Nat
  OBVIOUS
<1>2. /\ Len(r) <= Len(s) /\ \A k \in 1 .. Len(r) : r[k] = s[Len(s) - Len(r) + k]
      /\ Len(s) <= Len(t) /\ \A k \in 1 .. Len(s) : s[k] = t[Len(t) - Len(s) + k]
  BY SuffixMeans
<1>3. ASSUME NEW k \in 1 .. Len(r) PROVE r[k] = t[Len(t) - Len(r) + k]
  <2>0. Len(s) - Len(r) + k \in 1 .. Len(s)
    BY <1>1, <1>2
  <2>1. PICK j \in 1 .. Len(s) : j = Len(s) - Len(r) + k
    BY <2>0
  <2>2. Len(t) - Len(s) + j = Len(t) - Len(r) + k
    BY <1>1, <2>1
  <2>. QED
    BY <1>2, <2>1, <2>2
<1>. QED
  BY <1>1, <1>2, <1>3, SuffixMeans

LEMMA SuffixConcat ==
  ASSUME NEW s \in Seq(Nat), NEW t \in Seq(Nat), NEW rs \in Seq(Nat), IsSuffix(s, t)
  PROVE  IsSuffix(s \o rs, t \o rs)
<1>1. Len(s) \in Nat /\ Len(t) \in Nat /\ Len(rs) \in Nat
  OBVIOUS
<1>2. Len(s) <= Len(t) /\ \A k \in 1 .. Len(s) : s[k] = t[Len(t) - Len(s) + k]
  BY SuffixMeans
<1>3. /\ s \o rs \in Seq(Nat) /\ Len(s \o rs) = Len(s) + Len(rs)
      /\ t \o rs \in Seq(Nat) /\ Len(t \o rs) = Len(t) + Len(rs)
      /\ \A k \in 1 .. Len(s) : (s \o rs)[k] = s[k]
      /\ \A k \in 1 .. Len(rs) : (s \o rs)[Len(s) + k] = rs[k]
      /\ \A k \in 1 .. Len(t) : (t \o rs)[k] = t[k]
      /\ \A k \in 1 .. Len(rs) : (t \o rs)[Len(t) + k] = rs[k]
  OBVIOUS
<1>4. ASSUME NEW k \in 1 .. Len(s) + Len(rs)
      PROVE  (s \o rs)[k] = (t \o rs)[(Len(t) + Len(rs)) - (Len(s) + Len(rs)) + k]
  <2>1. CASE k <= Len(s)
    <3>0. Len(t) - Len(s) + k \in 1 .. Len(t)
      BY <1>1, <1>2, <2>1
    <3>1. PICK j \in 1 .. Len(t) : j = Len(t) - Len(s) + k
      BY <3>0
    <3>2. k \in 1 .. Len(s) /\ (Len(t) + Len(rs)) - (Len(s) + Len(rs)) + k = j
      BY <1>1, <2>1, <3>1
    <3>. QED
      BY <1>2, <1>3, <3>1, <3>2
  <2>2. CASE ~(k <= Len(s))
    <3>0. k - Len(s) \in 1 .. Len(rs) /\ k = Len(s) + (k - Len(s))
      BY <1>1, <2>2
    <3>1. PICK j \in 1 .. Len(rs) : k = Len(s) + j
      BY <3>0
    <3>2. (Len(t) + Len(rs)) - (Len(s) + Len(rs)) + k = Len(t) + j
      BY <1>1, <3>1
    <3>. QED
      BY <1>3, <3>1, <3>2
  <2>. QED
    BY <2>1, <2>2
<1>5. Len(s \o rs) <= Len(t \o rs)
  BY <1>1, <1>2, <1>3
<1>6. \A k \in 1 .. Len(s \o rs) :
        (s \o rs)[k] = (t \o rs)[Len(t \o rs) - Len(s \o rs) + k]
  BY <1>3, <1>4
<1>7. s \o rs \in Seq(Nat) /\ t \o rs \in Seq(Nat)
  BY <1>3
<1>. QED
  BY <1>5, <1>6, <1>7, SuffixMeans

LEMMA PushedKeeps ==
  ASSUME NEW b \in Buffers, NEW l \in Seq(Nat), NEW m \in Nat, NEW rs \in Seq(Nat), Keeps(b, l, m)
  PROVE  /\ Pushed(b, rs) \in Buffers /\ Pushed(b, rs).cap = b.cap
         /\ Keeps(Pushed(b, rs), l \o rs, m)
<1>1. /\ b.items \in Seq(Nat) /\ b.cap \in Nat \ {0} /\ b.cap \in Nat
      /\ Len(b.items) \in Nat /\ Len(l) \in Nat /\ Len(rs) \in Nat
  BY DEF Buffers
<1>. DEFINE a == b.items \o rs
<1>2. /\ a \in Seq(Nat) /\ Len(a) = Len(b.items) + Len(rs)
      /\ l \o rs \in Seq(Nat) /\ Len(l \o rs) = Len(l) + Len(rs)
  BY <1>1
<1>3. IsSuffix(a, l \o rs)
  BY <1>1, SuffixConcat DEF Keeps
<1>. HIDE DEF a
<1>4. PICK i \in Seq(Nat) : i = LastOf(a, b.cap)
  BY <1>1, <1>2, LastOfProps
<1>5. Len(i) = (IF Len(a) <= b.cap THEN Len(a) ELSE b.cap) /\ IsSuffix(i, a)
  BY <1>1, <1>2, <1>4, LastOfProps
<1>6. IsSuffix(i, l \o rs)
  BY <1>2, <1>3, <1>5, SuffixTrans
<1>7. /\ Pushed(b, rs) = [b EXCEPT !.items = i]
  BY <1>4 DEF Pushed, a
<1>8. /\ Pushed(b, rs) \in Buffers /\ Pushed(b, rs).cap = b.cap /\ Pushed(b, rs).items = i
  BY <1>7 DEF Buffers
<1>9. /\ Len(i) <= b.cap /\ m <= b.cap
      /\ Len(i) = Len(l \o rs) \/ Len(i) >= m
  <2>1. /\ Len(b.items) <= b.cap /\ m <= b.cap
        /\ Len(b.items) = Len(l) \/ Len(b.items) >= m
    BY DEF Keeps
  <2>2. Len(i) \in Nat
    OBVIOUS
  <2>3. CASE Len(a) <= b.cap
    <3>1. Len(i) = Len(b.items) + Len(rs) /\ Len(i) <= b.cap
      BY <1>2, <1>5, <2>3
    <3>2. ASSUME NEW x \in Nat, NEW y \in Nat, NEW z \in Nat, x = y \/ x >= m
          PROVE  x + z = y + z \/ x + z >= m
      BY <3>2
    <3>3. Len(i) = Len(l \o rs) \/ Len(i) >= m
      BY <1>1, <1>2, <2>1, <3>1, <3>2
    <3>. QED
      BY <2>1, <3>1, <3>3
  <2>4. CASE ~(Len(a) <= b.cap)
    <3>1. Len(i) = b.cap
      BY <1>5, <2>4
    <3>. QED
      BY <1>1, <2>1, <3>1
  <2>. QED
    BY <2>3, <2>4
<1>. QED
  BY <1>6, <1>8, <1>9 DEF Keeps

LEMMA ResizedKeeps ==
  ASSUME NEW b \in Buffers, NEW l \in Seq(Nat), NEW m \in Nat, NEW n \in Nat \ {0}, Keeps(b, l, m)
  PROVE  /\ Resized(b, n) \in Buffers /\ Resized(b, n).cap = n
         /\ Keeps(Resized(b, n), l, IF n < m THEN n ELSE m)
<1>1. /\ b.items \in Seq(Nat) /\ b.cap \in Nat \ {0}
      /\ Len(b.items) \in Nat /\ Len(l) \in Nat /\ n \in Nat
  BY DEF Buffers
<1>2. CASE n = b.cap
  <2>1. Resized(b, n) = b
    BY <1>2 DEF Resized
  <2>2. (IF n < m THEN n ELSE m) = m
    BY <1>1, <1>2 DEF Keeps
  <2>. QED
    BY <1>2, <2>1, <2>2
<1>3. CASE n # b.cap
  <2>1. PICK i \in Seq(Nat) : i = LastOf(b.items, n)
    BY <1>1, LastOfProps
  <2>2. Len(i) = (IF Len(b.items) <= n THEN Len(b.items) ELSE n) /\ IsSuffix(i, b.items)
    BY <1>1, <2>1, LastOfProps
  <2>3. IsSuffix(i, l)
    BY <1>1, <2>2, SuffixTrans DEF Keeps
  <2>4. PICK v \in BOOLEAN : v = (Len(i) = n)
    OBVIOUS
  <2>5. Resized(b, n) = [items |-> i, cap |-> n, brink |-> v]
    BY <1>3, <2>1, <2>4 DEF Resized
  <2>6. Resized(b, n) \in Buffers /\ Resized(b, n).cap = n /\ Resized(b, n).items = i
    BY <2>5 DEF Buffers
  <2>7. PICK w \in Nat : w = IF n < m THEN n ELSE m
    BY <1>1
  <2>8. /\ Len(i) <= n /\ w <= n
        /\ Len(i) = Len(l) \/ Len(i) >= w
    BY <1>1, <2>2, <2>7 DEF Keeps
  <2>9. Keeps(Resized(b, n), l, w)
    BY <2>3, <2>6, <2>8 DEF Keeps
  <2>. QED
    BY <2>6, <2>7, <2>9
<1>. QED
  BY <1>2, <1>3

LEMMA EmptySuffix == IsSuffix(<<>>, <<>>)
<1>0. <<>> \in Seq(Nat)
  OBVIOUS
<1>1. PICK e \in Seq(Nat) : e = <<>>
  BY <1>0, Zenon
<1>2. Len(e) = 0
  BY <1>1
<1>3. Len(e) <= Len(e) /\ 1 .. Len(e) = {}
  BY <1>2
<1>4. IsSuffix(e, e)
  BY <1>3, SuffixMeans
<1>. QED
  BY <1>1, <1>4

LEMMA EmptiedKeeps ==
  ASSUME NEW b \in Buffers
  PROVE  /\ Emptied(b) \in Buffers /\ Emptied(b).cap = b.cap
         /\ Keeps(Emptied(b), <<>>, b.cap)
<1>0. PICK e \in Buffers : e = [items |-> <<>>, cap |-> b.cap, brink |-> FALSE]
  <2>1. b.cap \in Nat \ {0} /\ <<>> \in Seq(Nat) /\ FALSE \in BOOLEAN
    BY DEF Buffers
  <2>. QED
    BY <2>1 DEF Buffers
<1>2. Emptied(b) = e
  BY <1>0 DEF Emptied
<1>1. Emptied(b) \in Buffers /\ Emptied(b).cap = b.cap /\ Emptied(b).items = <<>>
  BY <1>0, <1>2
<1>3. Len(<<>>) <= b.cap /\ b.cap <= b.cap
  BY DEF Buffers
<1>. QED
  BY <1>1, <1>3, EmptySuffix DEF Keeps

\* The conversion to int32 leaves sizes below 2^31 as they are.
LEMMA Int32Props ==
  ASSUME NEW n \in Nat
  PROVE  Int32(n) \in Int /\ (n < Half => Int32(n) = n)
<1>1. PICK m \in Nat \ {0} : m = 2 * Half /\ Half < m
  BY HistoryAssumption
<1>2. n % m \in Int /\ (n < m => n % m = n)
  OBVIOUS
<1>3. Int32(n) = IF n % m < Half THEN n % m ELSE (n % m) - m
  BY <1>1 DEF Int32
<1>4. Half \in Nat
  BY HistoryAssumption
<1>. QED
  BY <1>1, <1>2, <1>3, <1>4

LEMMA SizeOrPositive ==
  ASSUME NEW n \in Int
  PROVE  SizeOr(n) \in Nat \ {0} /\ (n > 0 => SizeOr(n) = n)
BY HistoryAssumption DEF SizeOr

LEMMA NewKeeps ==
  ASSUME NEW n \in Nat
  PROVE  /\ SizeOr(n) \in Nat \ {0} /\ (n > 0 => SizeOr(n) = n)
         /\ NewRingBuffer(n) \in Buffers /\ NewRingBuffer(n).cap = SizeOr(n)
         /\ Keeps(NewRingBuffer(n), <<>>, SizeOr(n))
<1>1. SizeOr(n) \in Nat \ {0} /\ (n > 0 => SizeOr(n) = n)
  BY HistoryAssumption DEF SizeOr
<1>2. /\ NewRingBuffer(n) \in Buffers /\ NewRingBuffer(n).cap = SizeOr(n)
      /\ NewRingBuffer(n).items = <<>>
  BY <1>1 DEF NewRingBuffer, Buffers
<1>3. Len(<<>>) <= SizeOr(n) /\ SizeOr(n) <= SizeOr(n)
  BY <1>1
<1>. QED
  BY <1>1, <1>2, <1>3, EmptySuffix DEF Keeps

-----------------------------------------------------------------------------
(* What the operations on buffers do to the memory.                        *)

\* Buffers stay where they are and keep their size.
SameCaps ==
  \A t \in Slots : /\ buf'[t] = None <=> buf[t] = None
                   /\ buf[t] # None => buf'[t].cap = buf[t].cap

LEMMA BufferThere ==
  ASSUME MemInv, NEW s \in Slots, buf[s] # None
  PROVE  buf[s] \in Buffers /\ log[s] \in Seq(Nat) /\ low[s] \in Nat /\ Keeps(buf[s], log[s], low[s])
BY DEF MemInv

LEMMA PushMem ==
  ASSUME MemInv, impl' = impl, NEW s \in Slots, NEW rs \in Seq(Nat), buf[s] # None, PushTo(s, rs)
  PROVE  MemInv' /\ SameCaps
<1>0. Slots' = Slots
  BY DEF Slots
<1>1. /\ buf' = [buf EXCEPT ![s] = Pushed(buf[s], rs)] /\ log' = [log EXCEPT ![s] = log[s] \o rs]
      /\ low' = low
  BY DEF PushTo
<1>2. /\ Pushed(buf[s], rs) \in Buffers /\ Pushed(buf[s], rs).cap = buf[s].cap
      /\ Keeps(Pushed(buf[s], rs), log[s] \o rs, low[s]) /\ log[s] \o rs \in Seq(Nat)
  BY BufferThere, PushedKeeps
<1>3. Pushed(buf[s], rs) # None
  BY <1>2, NoneAssumption
<1>4. /\ buf' \in [Slots -> Buffers \cup {None}] /\ log' \in [Slots -> Seq(Nat)]
      /\ low' \in [Slots -> Nat]
  BY <1>1, <1>2 DEF MemInv
<1>5. /\ buf'[s] = Pushed(buf[s], rs) /\ log'[s] = log[s] \o rs
      /\ \A t \in Slots \ {s} : buf'[t] = buf[t] /\ log'[t] = log[t]
  BY <1>1 DEF MemInv
<1>. HIDE DEF Slots
<1>6. /\ \A t \in Slots : buf'[t] = None => impl' = "map" /\ log'[t] = <<>>
      /\ \A t \in Slots : buf'[t] # None => Keeps(buf'[t], log'[t], low'[t])
  BY <1>1, <1>2, <1>3, <1>5 DEF MemInv
<1>7. SameCaps
  BY <1>2, <1>3, <1>5 DEF SameCaps
<1>8. MemInv'
  BY <1>0, <1>4, <1>6 DEF MemInv
<1>. QED
  BY <1>7, <1>8

LEMMA ResizeMem ==
  ASSUME MemInv, impl' = impl, NEW S, NEW n \in Nat \ {0},
         \A s \in S \cap Slots : buf[s] # None, ResizeTo(S, n)
  PROVE  /\ MemInv'
         /\ \A t \in Slots : /\ buf'[t] = None <=> buf[t] = None
                             /\ t \notin S => buf'[t] = buf[t]
                             /\ t \in S => buf'[t].cap = n
<1>0. Slots' = Slots
  BY DEF Slots
<1>1. /\ buf' = [s \in Slots |-> IF s \in S THEN Resized(buf[s], n) ELSE buf[s]]
      /\ low' = [s \in Slots |-> IF s \in S /\ n < low[s] THEN n ELSE low[s]]
      /\ log' = log
  BY DEF ResizeTo
<1>2. ASSUME NEW t \in Slots, t \in S
      PROVE  /\ buf'[t] \in Buffers /\ buf'[t].cap = n /\ buf'[t] # None /\ buf[t] # None
             /\ low'[t] \in Nat /\ Keeps(buf'[t], log'[t], low'[t])
  <2>1. buf[t] # None
    BY <1>2
  <2>2. /\ buf[t] \in Buffers /\ log[t] \in Seq(Nat) /\ low[t] \in Nat
        /\ Keeps(buf[t], log[t], low[t])
    BY <2>1, BufferThere
  <2>3. /\ buf'[t] = Resized(buf[t], n)
        /\ low'[t] = IF n < low[t] THEN n ELSE low[t]
    BY <1>1, <1>2
  <2>4. /\ Resized(buf[t], n) \in Buffers /\ Resized(buf[t], n).cap = n
        /\ Keeps(Resized(buf[t], n), log[t], IF n < low[t] THEN n ELSE low[t])
    BY <2>2, ResizedKeeps
  <2>5. low'[t] \in Nat
    BY <2>2, <2>3
  <2>. QED
    BY <1>1, <2>1, <2>3, <2>4, <2>5, NoneAssumption
<1>3. \A t \in Slots : t \notin S => buf'[t] = buf[t] /\ low'[t] = low[t]
  BY <1>1
<1>4. /\ buf' \in [Slots -> Buffers \cup {None}] /\ log' \in [Slots -> Seq(Nat)]
      /\ low' \in [Slots -> Nat]
  <2>1. \A t \in Slots : buf'[t] \in Buffers \cup {None} /\ low'[t] \in Nat
    BY <1>2, <1>3 DEF MemInv
  <2>2. buf' = [t \in Slots |-> buf'[t]] /\ low' = [t \in Slots |-> low'[t]]
    BY <1>1
  <2>3. buf' \in [Slots -> Buffers \cup {None}] /\ low' \in [Slots -> Nat]
    BY <2>1, <2>2
  <2>. QED
    BY <1>1, <2>3 DEF MemInv
<1>5. /\ \A t \in Slots : buf'[t] = None => impl' = "map" /\ log'[t] = <<>>
      /\ \A t \in Slots : buf'[t] # None => Keeps(buf'[t], log'[t], low'[t])
  BY <1>1, <1>2, <1>3 DEF MemInv
<1>6. MemInv'
  BY <1>0, <1>4, <1>5 DEF MemInv
<1>. QED
  BY <1>2, <1>3, <1>6

LEMMA ClearMem ==
  ASSUME MemInv, impl' = impl, NEW S, \A s \in S \cap Slots : buf[s] # None, ClearAt(S)
  PROVE  MemInv' /\ SameCaps
<1>0. Slots' = Slots
  BY DEF Slots
<1>1. /\ buf' = [s \in Slots |-> IF s \in S THEN Emptied(buf[s]) ELSE buf[s]]
      /\ log' = [s \in Slots |-> IF s \in S THEN <<>> ELSE log[s]]
      /\ low' = [s \in Slots |-> IF s \in S THEN buf[s].cap ELSE low[s]]
  BY DEF ClearAt
<1>2. ASSUME NEW t \in Slots, t \in S
      PROVE  /\ buf'[t] \in Buffers /\ buf'[t].cap = buf[t].cap /\ buf'[t] # None /\ buf[t] # None
             /\ low'[t] \in Nat /\ log'[t] = <<>> /\ Keeps(buf'[t], log'[t], low'[t])
  <2>1. buf[t] # None
    BY <1>2
  <2>2. buf[t] \in Buffers
    BY <2>1, BufferThere
  <2>3. buf'[t] = Emptied(buf[t]) /\ log'[t] = <<>> /\ low'[t] = buf[t].cap
    BY <1>1, <1>2
  <2>4. low'[t] \in Nat
    BY <2>2, <2>3 DEF Buffers
  <2>. QED
    BY <2>1, <2>2, <2>3, <2>4, EmptiedKeeps, NoneAssumption
<1>3. \A t \in Slots : t \notin S => buf'[t] = buf[t] /\ low'[t] = low[t] /\ log'[t] = log[t]
  BY <1>1
<1>4. /\ buf' \in [Slots -> Buffers \cup {None}] /\ log' \in [Slots -> Seq(Nat)]
      /\ low' \in [Slots -> Nat]
  <2>0. <<>> \in Seq(Nat)
    OBVIOUS
  <2>1. \A t \in Slots : buf'[t] \in Buffers \cup {None} /\ low'[t] \in Nat /\ log'[t] \in Seq(Nat)
    BY <1>2, <1>3, <2>0 DEF MemInv
  <2>2. /\ buf' = [t \in Slots |-> buf'[t]] /\ low' = [t \in Slots |-> low'[t]]
        /\ log' = [t \in Slots |-> log'[t]]
    BY <1>1
  <2>. QED
    BY <2>1, <2>2
<1>5. /\ \A t \in Slots : buf'[t] = None => impl' = "map" /\ log'[t] = <<>>
      /\ \A t \in Slots : buf'[t] # None => Keeps(buf'[t], log'[t], low'[t])
  BY <1>2, <1>3 DEF MemInv
<1>6. MemInv'
  BY <1>0, <1>4, <1>5 DEF MemInv
<1>7. SameCaps
  BY <1>2, <1>3 DEF SameCaps
<1>. QED
  BY <1>6, <1>7

\* getBuffer stores a new buffer.
LEMMA StoreMem ==
  ASSUME MemInv, impl' = impl, NEW k \in Slots, NEW n \in Nat \ {0}, buf[k] = None,
         buf' = [buf EXCEPT ![k] = NewRingBuffer(n)], low' = [low EXCEPT ![k] = n], log' = log
  PROVE  /\ MemInv' /\ buf'[k] # None /\ buf'[k].cap = n
         /\ \A t \in Slots \ {k} : buf'[t] = buf[t]
<1>0. Slots' = Slots
  BY DEF Slots
<1>1. /\ NewRingBuffer(n) \in Buffers /\ NewRingBuffer(n).cap = n
      /\ Keeps(NewRingBuffer(n), <<>>, n)
  <2>1. n \in Nat /\ n > 0
    OBVIOUS
  <2>. QED
    BY <2>1, NewKeeps
<1>2. /\ buf'[k] = NewRingBuffer(n) /\ low'[k] = n
      /\ \A t \in Slots \ {k} : buf'[t] = buf[t] /\ low'[t] = low[t]
  BY DEF MemInv
<1>3. NewRingBuffer(n) # None
  BY <1>1, NoneAssumption
<1>4. /\ buf' \in [Slots -> Buffers \cup {None}] /\ log' \in [Slots -> Seq(Nat)]
      /\ low' \in [Slots -> Nat]
  BY <1>1 DEF MemInv
<1>5. /\ \A t \in Slots : buf'[t] = None => impl' = "map" /\ log'[t] = <<>>
      /\ \A t \in Slots : buf'[t] # None => Keeps(buf'[t], log'[t], low'[t])
  BY <1>1, <1>2, <1>3 DEF MemInv
<1>6. MemInv'
  BY <1>0, <1>4, <1>5 DEF MemInv
<1>. QED
  BY <1>1, <1>2, <1>3, <1>6

LEMMA LookMem ==
  ASSUME MemInv, impl' = impl, UNCHANGED <<buf, log, low>>
  PROVE  MemInv' /\ SameCaps
BY DEF MemInv, SameCaps, Slots

-----------------------------------------------------------------------------
(* The calls.                                                              *)

LEMMA MapCallOf ==
  ASSUME CallInv, NEW c \in Callers, impl = "map", call[c] # Free,
         call[c].op \in MapOps \/ call[c].pc \in {"load", "store"}
  PROVE  /\ call[c] \in MapCalls
         /\ call[c].op = "SetSizeByKey" => call[c].n > 0
         /\ call[c].pc = "store" => call[c].size > 0
         /\ call[c].pc = "use" => buf[call[c].key] # None
<1>1. MapCallInv(c)
  BY DEF CallInv
<1>2. ASSUME call[c] \in RangeCalls PROVE FALSE
  <2>1. call[c].op = "SetSize" /\ call[c].pc = "range"
    BY <1>2 DEF RangeCalls
  <2>. QED
    BY <2>1 DEF MapOps
<1>. QED
  BY <1>1, <1>2 DEF MapCallInv

LEMMA RangeCallOf ==
  ASSUME CallInv, NEW c \in Callers, impl = "map", call[c].op = "SetSize"
  PROVE  call[c] \in RangeCalls
<1>1. MapCallInv(c)
  BY DEF CallInv
<1>2. call[c] # Free
  BY DEF Free
<1>3. call[c] \notin MapCalls
  BY DEF MapCalls, MapOps
<1>. QED
  BY <1>1, <1>2, <1>3 DEF MapCallInv

LEMMA ShardedCallOf ==
  ASSUME CallInv, NEW c \in Callers, impl = "sharded"
  PROVE  /\ call[c].op = "SetSize" => call[c] \in SizeCalls
         /\ call[c].op = "ClearAll" => call[c] \in ClearCalls
         /\ call[c].op = "BatchPush" => call[c] \in BatchCalls
         /\ call[c].op = "CountAll" => Counting(call[c])
<1>1. ShardedCallInv(c)
  BY DEF CallInv
<1>2. call[c] = Free => call[c].op = "none"
  BY DEF Free
<1>3. /\ call[c] \in SizeCalls => call[c].op = "SetSize"
      /\ call[c] \in ClearCalls => call[c].op = "ClearAll"
      /\ call[c] \in BatchCalls => call[c].op = "BatchPush"
  BY DEF SizeCalls, ClearCalls, BatchCalls
<1>4. Counting(call[c]) => call[c].op = "CountAll"
  BY DEF Counting
<1>. QED
  BY <1>1, <1>2, <1>3, <1>4 DEF ShardedCallInv

\* A group is a sequence of copies of the batch's record.
LEMMA GroupSeq ==
  ASSUME NEW c \in Callers, NEW s, call[c] \in BatchCalls
  PROVE  Group(c, s) \in Seq(Nat) /\ \A i \in 1 .. Len(Group(c, s)) : Group(c, s)[i] = call[c].rec
<1>1. call[c].rec \in Nat /\ call[c].keys \in Pairs
  BY DEF BatchCalls
<1>2. DOMAIN call[c].keys = 1 .. 2
  BY <1>1 DEF Pairs
<1>. DEFINE J == {j \in DOMAIN call[c].keys : Shard[call[c].keys[j]] = s}
<1>3. IsFiniteSet(J)
  <2>0. \A a, b \in Int : IsFiniteSet(a .. b)
    BY FS_Interval, Zenon
  <2>1. IsFiniteSet(1 .. 2)
    <3>1. 1 \in Int /\ 2 \in Int
      OBVIOUS
    <3>. QED
      BY <2>0, <3>1, Zenon
  <2>2. J \in SUBSET (1 .. 2)
    BY <1>2
  <2>. QED
    BY <2>1, <2>2, FS_Subset
<1>4. PICK k \in Nat : k = Cardinality(J)
  BY <1>3, FS_CardinalityType
<1>5. Group(c, s) = [i \in 1 .. k |-> call[c].rec]
  BY <1>4 DEF Group
<1>. QED
  BY <1>1, <1>5

\* A call of the map uses its key, a loop of the sharded history its shards.
LEMMA SlotsOf == /\ impl = "map" => Slots = Keys
                 /\ impl = "sharded" => Slots = Shards /\ \A k \in Keys : Shard[k] \in Slots
BY DEF Slots, Shards

LEMMA MapMem ==
  ASSUME ScalarInv, MemInv, CallInv, NEW c \in Callers, MapNext(c)
  PROVE  MemInv' /\ \A t \in Slots : buf[t] # None => buf'[t] # None
<1>1. ASSUME NEW k \in Keys, NEW op, NEW n, Enter(c, op, k, n)
      PROVE  MemInv' /\ SameCaps
  BY <1>1, LookMem DEF Enter, Begin
<1>2. CASE GetBuffer(c)
  BY <1>2, LookMem DEF GetBuffer, SameCaps
<1>3. CASE GetBufferStores(c)
  <2>1. /\ impl = "map" /\ impl' = impl /\ call[c] # Free /\ call[c].pc = "store" /\ log' = log
    BY <1>3 DEF GetBufferStores
  <2>2. call[c].key \in Slots /\ call[c].size \in Nat \ {0}
    BY <2>1, MapCallOf, SlotsOf DEF MapCalls
  <2>3. CASE buf[call[c].key] # None
    <3>1. UNCHANGED <<buf, log, low>>
      BY <1>3, <2>1, <2>3 DEF GetBufferStores
    <3>. QED
      BY <2>1, <3>1, LookMem DEF SameCaps
  <2>4. CASE buf[call[c].key] = None
    <3>1. /\ buf' = [buf EXCEPT ![call[c].key] = NewRingBuffer(call[c].size)]
          /\ low' = [low EXCEPT ![call[c].key] = call[c].size]
      BY <1>3, <2>4 DEF GetBufferStores
    <3>. QED
      BY <2>1, <2>2, <2>4, <3>1, StoreMem
  <2>. QED
    BY <2>3, <2>4
<1>4. ASSUME NEW op \in MapOps, Uses(c, op)
      PROVE  /\ impl' = impl /\ call[c].key \in Slots /\ buf[call[c].key] # None
             /\ call[c].rec \in Nat /\ call[c].n \in Nat
             /\ op = "SetSizeByKey" => call[c].n \in Nat \ {0}
  <2>1. impl = "map" /\ impl' = impl /\ call[c].op = op /\ call[c].pc = "use"
    BY <1>4 DEF Uses
  <2>2. call[c] # Free
    BY <1>4, <2>1 DEF Free, MapOps
  <2>. QED
    BY <2>1, <2>2, MapCallOf, SlotsOf DEF MapCalls
<1>5. CASE Push(c)
  <2>1. /\ impl' = impl /\ call[c].key \in Slots /\ buf[call[c].key] # None /\ call[c].rec \in Nat
    BY <1>4, <1>5 DEF Push, MapOps
  <2>2. <<call[c].rec>> \in Seq(Nat)
    BY <2>1
  <2>3. CASE PushTo(call[c].key, <<call[c].rec>>)
    BY <2>1, <2>2, <2>3, PushMem DEF SameCaps
  <2>4. CASE PushPanics(call[c].key)
    BY <2>1, <2>4, LookMem DEF PushPanics, SameCaps
  <2>. QED
    BY <1>5, <2>3, <2>4 DEF Push
<1>6. CASE ListReturns(c)
  <2>1. impl' = impl /\ UNCHANGED <<buf, log, low>>
    BY <1>6 DEF ListReturns, Uses, LooksOnly
  <2>. QED
    BY <2>1, LookMem DEF SameCaps
<1>7. CASE SetSizeByKey(c)
  <2>1. /\ impl' = impl /\ call[c].key \in Slots /\ buf[call[c].key] # None
        /\ call[c].n \in Nat \ {0}
    BY <1>4, <1>7 DEF SetSizeByKey, MapOps
  <2>2. ResizeTo({call[c].key}, call[c].n)
    BY <1>7 DEF SetSizeByKey
  <2>. QED
    BY <2>1, <2>2, ResizeMem
<1>8. CASE Clear(c)
  <2>1. impl' = impl /\ call[c].key \in Slots /\ buf[call[c].key] # None
    BY <1>4, <1>8 DEF Clear, MapOps
  <2>2. ClearAt({call[c].key})
    BY <1>8 DEF Clear
  <2>. QED
    BY <2>1, <2>2, ClearMem DEF SameCaps
<1>9. ASSUME NEW n \in Sizes, SetSize(c, n) PROVE MemInv' /\ SameCaps
  BY <1>9, LookMem DEF SetSize, Begin
<1>10. ASSUME NEW k \in Keys, SetSizeVisits(c, k)
       PROVE  MemInv' /\ \A t \in Slots : buf[t] # None => buf'[t] # None
  <2>1. impl = "map" /\ impl' = impl /\ call[c].op = "SetSize"
    BY <1>10 DEF SetSizeVisits
  <2>2. call[c].n \in Nat \ {0} /\ k \in Slots
    BY <2>1, RangeCallOf, SlotsOf DEF RangeCalls
  <2>3. CASE buf[k] # None
    <3>1. ResizeTo({k}, call[c].n)
      BY <1>10, <2>3 DEF SetSizeVisits
    <3>. QED
      BY <2>1, <2>2, <2>3, <3>1, ResizeMem
  <2>4. CASE buf[k] = None
    BY <1>10, <2>1, <2>4, LookMem DEF SetSizeVisits, LooksOnly, SameCaps
  <2>. QED
    BY <2>3, <2>4
<1>11. SameCaps => \A t \in Slots : buf[t] # None => buf'[t] # None
  BY DEF SameCaps
<1>. QED
  BY <1>1, <1>2, <1>3, <1>5, <1>6, <1>7, <1>8, <1>9, <1>10, <1>11 DEF MapNext

LEMMA ShardedMem ==
  ASSUME ScalarInv, MemInv, CallInv, NEW c \in Callers, ShardedNext(c)
  PROVE  MemInv' /\ \A t \in Slots : buf[t] # None => buf'[t] # None
<1>0. ASSUME impl = "sharded" PROVE \A t \in Slots : buf[t] # None
  BY <1>0 DEF MemInv
<1>1. ASSUME NEW k \in Keys, ShardedPush(c, k) PROVE MemInv' /\ SameCaps
  <2>1. impl = "sharded" /\ impl' = impl /\ PushTo(Shard[k], <<ops + 1>>)
    BY <1>1 DEF ShardedPush, Begin
  <2>2. Shard[k] \in Slots /\ buf[Shard[k]] # None
    BY <1>0, <2>1, SlotsOf
  <2>3. ops + 1 \in Nat
    BY HistoryAssumption DEF ScalarInv
  <2>4. <<ops + 1>> \in Seq(Nat)
    BY <2>3
  <2>. QED
    BY <2>1, <2>2, <2>4, PushMem
<1>2. ASSUME NEW k \in Keys, ShardedPushPanics(c, k) PROVE MemInv' /\ SameCaps
  BY <1>2, LookMem DEF ShardedPushPanics, PushPanics
<1>3. ASSUME NEW k \in Keys, ShardedClear(c, k) PROVE MemInv' /\ SameCaps
  <2>1. impl = "sharded" /\ impl' = impl /\ ClearAt({Shard[k]})
    BY <1>3 DEF ShardedClear, Begin
  <2>. QED
    BY <1>0, <2>1, ClearMem
<1>4. ASSUME NEW ks, BatchPush(c, ks) PROVE MemInv' /\ SameCaps
  BY <1>4, LookMem DEF BatchPush, Begin
<1>5. ASSUME NEW s \in Shards, BatchPushShard(c, s) PROVE MemInv' /\ SameCaps
  <2>1. impl = "sharded" /\ impl' = impl /\ call[c].op = "BatchPush" /\ PushTo(s, Group(c, s))
    BY <1>5 DEF BatchPushShard
  <2>2. call[c] \in BatchCalls /\ s \in Slots /\ buf[s] # None
    BY <1>0, <2>1, ShardedCallOf, SlotsOf
  <2>3. Group(c, s) \in Seq(Nat)
    BY <2>2, GroupSeq
  <2>. QED
    BY <2>1, <2>2, <2>3, PushMem
<1>6. ASSUME NEW s \in Shards, BatchPushPanics(c, s) PROVE MemInv' /\ SameCaps
  BY <1>6, LookMem DEF BatchPushPanics, PushPanics
<1>7. ASSUME (\E n \in Sizes : ShardedSetSize(c, n)) \/ ClearAll(c) \/ CountAll(c)
      PROVE  MemInv' /\ SameCaps
  <2>1. impl' = impl /\ UNCHANGED <<buf, log, low>>
    BY <1>7 DEF ShardedSetSize, ClearAll, CountAll, Begin
  <2>. QED
    BY <2>1, LookMem
<1>8. CASE SetSizeShard(c)
  <2>1. /\ impl = "sharded" /\ impl' = impl /\ call[c].op = "SetSize"
        /\ ResizeTo({NextShard(c)}, call[c].n)
    BY <1>8 DEF SetSizeShard, InLoop
  <2>2. call[c].n \in Nat \ {0}
    BY <2>1, ShardedCallOf DEF SizeCalls
  <2>. QED
    BY <1>0, <2>1, <2>2, ResizeMem
<1>9. ASSUME ClearShard(c) PROVE MemInv' /\ SameCaps
  <2>1. impl = "sharded" /\ impl' = impl /\ ClearAt({NextShard(c)})
    BY <1>9 DEF ClearShard, InLoop
  <2>. QED
    BY <1>0, <2>1, ClearMem
<1>10. ASSUME CountShard(c) PROVE MemInv' /\ SameCaps
  <2>1. impl' = impl /\ UNCHANGED <<buf, log, low>>
    BY <1>10 DEF CountShard, InLoop, LooksOnly
  <2>. QED
    BY <2>1, LookMem
<1>11. SameCaps => \A t \in Slots : buf[t] # None => buf'[t] # None
  BY DEF SameCaps
<1>. QED
  BY <1>1, <1>2, <1>3, <1>4, <1>5, <1>6, <1>7, <1>8, <1>9, <1>10, <1>11 DEF ShardedNext

LEMMA NextMem ==
  ASSUME ScalarInv, MemInv, CallInv, [Next]_vars
  PROVE  MemInv' /\ \A t \in Slots : buf[t] # None => buf'[t] # None
<1>1. ASSUME NEW c \in Callers, LoopReturns(c)
      PROVE  MemInv' /\ \A t \in Slots : buf[t] # None => buf'[t] # None
  BY <1>1, LookMem DEF LoopReturns, LooksOnly, SameCaps
<1>2. CASE UNCHANGED vars
  BY <1>2, LookMem DEF vars, SameCaps
<1>. QED
  BY <1>1, <1>2, MapMem, ShardedMem DEF Next

-----------------------------------------------------------------------------
(* The scalars and the calls.                                              *)

LEMMA BeginScalars ==
  ASSUME ScalarInv, NEW c \in Callers, NEW r, Begin(c, r)
  PROVE  /\ impl' = impl /\ stuck' = stuck
         /\ ops' \in 0 .. MaxOps /\ raced' \in BOOLEAN /\ ops' = ops + 1 /\ ops' \in Nat
<1>1. ops' = ops + 1 /\ ops < MaxOps /\ ops \in 0 .. MaxOps /\ MaxOps \in Nat
  BY HistoryAssumption DEF Begin, ScalarInv
<1>2. raced' \in BOOLEAN
  BY DEF Begin
<1>. QED
  BY <1>1, <1>2 DEF Begin

LEMMA NextScalars == ScalarInv /\ CallInv /\ [Next]_vars => ScalarInv'
<1>. SUFFICES ASSUME ScalarInv, CallInv, [Next]_vars PROVE ScalarInv'
  OBVIOUS
<1>1. ASSUME UNCHANGED <<impl, sizes, ops, stuck, raced>>, own' \subseteq Slots PROVE ScalarInv'
  BY <1>1 DEF ScalarInv, Slots, sizes, Int32
<1>2. ASSUME NEW c \in Callers, NEW r, Begin(c, r),
             UNCHANGED sizes \/ (asked' \in Nat /\ maxSize' = Int32(asked'))
      PROVE  ScalarInv'
  <2>1. asked' \in Nat /\ maxSize' \in Int /\ maxSize' = Int32(asked)'
    BY <1>2, Int32Props DEF ScalarInv, sizes, Int32
  <2>2. UNCHANGED <<impl, stuck, own>>
    BY <1>2 DEF Begin
  <2>3. ops' \in 0 .. MaxOps /\ raced' \in BOOLEAN
    BY <1>2, BeginScalars
  <2>. HIDE DEF Int32
  <2>. QED
    BY <2>1, <2>2, <2>3 DEF ScalarInv, Slots
<1>3. ASSUME UNCHANGED <<impl, sizes, marks>>, ops' \in 0 .. MaxOps,
             NEW s \in Slots, stuck' = stuck \cup {s}
      PROVE  ScalarInv'
  BY <1>3 DEF ScalarInv, Slots, sizes, marks, Int32
<1>4. Sizes \subseteq Nat /\ own \subseteq Slots
  BY HistoryAssumption DEF ScalarInv
<1>5. ASSUME NEW c \in Callers, MapNext(c) PROVE ScalarInv'
  <2>1. ASSUME NEW op, NEW k, NEW n, Enter(c, op, k, n) PROVE ScalarInv'
    BY <1>2, <1>4, <2>1 DEF Enter
  <2>2. ASSUME NEW n \in Sizes, SetSize(c, n) PROVE ScalarInv'
    BY <1>2, <1>4, <2>2 DEF SetSize
  <2>3. CASE GetBuffer(c) \/ GetBufferStores(c) \/ Push(c) \/ ListReturns(c) \/ Clear(c)
    BY <1>1, <1>4, <2>3 DEF GetBuffer, GetBufferStores, Push, ListReturns, Clear, Uses, marks
  <2>4. CASE \E k \in Keys : SetSizeVisits(c, k)
    BY <1>1, <1>4, <2>4 DEF SetSizeVisits
  <2>5. CASE SetSizeByKey(c)
    <3>1. impl = "map" /\ call[c].op = "SetSizeByKey" /\ call[c].pc = "use"
      BY <2>5 DEF SetSizeByKey, Uses
    <3>2. call[c].key \in Slots
      BY <3>1, MapCallOf, SlotsOf DEF MapCalls, MapOps, Free
    <3>. QED
      BY <1>1, <1>4, <2>5, <3>2 DEF SetSizeByKey, Uses
  <2>. QED
    BY <1>5, <2>1, <2>2, <2>3, <2>4, <2>5 DEF MapNext
<1>6. ASSUME NEW c \in Callers, ShardedNext(c) PROVE ScalarInv'
  <2>1. ASSUME NEW k \in Keys, ShardedPush(c, k) \/ ShardedClear(c, k) PROVE ScalarInv'
    BY <1>2, <1>4, <2>1 DEF ShardedPush, ShardedClear
  <2>2. ASSUME NEW k \in Keys, ShardedPushPanics(c, k) PROVE ScalarInv'
    <3>1. Shard[k] \in Slots
      BY <2>2, SlotsOf DEF ShardedPushPanics
    <3>2. ops' \in 0 .. MaxOps
      BY <2>2, HistoryAssumption DEF ShardedPushPanics, ScalarInv
    <3>. QED
      BY <1>3, <2>2, <3>1, <3>2 DEF ShardedPushPanics
  <2>3. ASSUME NEW ks, BatchPush(c, ks) PROVE ScalarInv'
    BY <1>2, <1>4, <2>3 DEF BatchPush
  <2>4. ASSUME NEW s \in Shards, BatchPushPanics(c, s) PROVE ScalarInv'
    <3>1. s \in Slots
      BY <2>4, SlotsOf DEF BatchPushPanics
    <3>2. ops' \in 0 .. MaxOps
      BY <2>4 DEF BatchPushPanics, ScalarInv
    <3>. QED
      BY <1>3, <2>4, <3>1, <3>2 DEF BatchPushPanics
  <2>5. ASSUME NEW n \in Sizes, ShardedSetSize(c, n) PROVE ScalarInv'
    BY <1>2, <1>4, <2>5 DEF ShardedSetSize
  <2>6. CASE ClearAll(c) \/ CountAll(c)
    BY <1>2, <1>4, <2>6 DEF ClearAll, CountAll
  <2>7. CASE SetSizeShard(c) \/ ClearShard(c) \/ CountShard(c) \/ \E s \in Shards : BatchPushShard(c, s)
    BY <1>1, <1>4, <2>7 DEF SetSizeShard, ClearShard, CountShard, InLoop, BatchPushShard, marks
  <2>. QED
    BY <1>6, <2>1, <2>2, <2>3, <2>4, <2>5, <2>6, <2>7 DEF ShardedNext
<1>7. CASE (\E c \in Callers : LoopReturns(c)) \/ UNCHANGED vars
  BY <1>1, <1>4, <1>7 DEF LoopReturns, vars, sizes, marks
<1>. QED
  BY <1>5, <1>6, <1>7 DEF Next

\* One caller moves on, the buffers stay.
LEMMA CallKept ==
  ASSUME CallInv, impl' = impl, NEW c \in Callers,
         \A t \in Slots : buf[t] # None => buf'[t] # None,
         call' = [d \in Callers |-> call'[d]], \A d \in Callers \ {c} : call'[d] = call[d],
         impl = "map" => MapCallInv(c)', impl # "map" => ShardedCallInv(c)'
  PROVE  CallInv'
<1>1. ASSUME NEW d \in Callers, d # c, impl = "map" PROVE MapCallInv(d)'
  <2>1. call'[d] = call[d] /\ MapCallInv(d)
    BY <1>1 DEF CallInv
  <2>2. call[d] \in MapCalls => call[d].key \in Slots
    BY <1>1, SlotsOf DEF MapCalls
  <2>. QED
    BY <2>1, <2>2 DEF MapCallInv
<1>2. ASSUME NEW d \in Callers, d # c, impl # "map" PROVE ShardedCallInv(d)'
  <2>1. call'[d] = call[d] /\ ShardedCallInv(d)
    BY <1>2 DEF CallInv
  <2>. QED
    BY <2>1 DEF ShardedCallInv
<1>. QED
  BY <1>1, <1>2 DEF CallInv

\* What is assigned to one caller is all that changes.
LEMMA CallAssigned ==
  ASSUME CallInv, NEW c \in Callers, NEW r, call' = [call EXCEPT ![c] = r]
  PROVE  /\ call' = [d \in Callers |-> call'[d]] /\ \A d \in Callers \ {c} : call'[d] = call[d]
         /\ call'[c] = r
BY DEF CallInv

LEMMA MapCallsKept ==
  ASSUME ScalarInv, MemInv, CallInv, NEW c \in Callers, MapNext(c)
  PROVE  CallInv'
<1>0. \A t \in Slots : buf[t] # None => buf'[t] # None
  BY MapMem
<1>. DEFINE Moves(r) == impl = "map" /\ impl' = impl /\ call' = [call EXCEPT ![c] = r]
<1>1. ASSUME NEW r, Moves(r), MapCallInv(c)' PROVE CallInv'
  BY <1>0, <1>1, CallAssigned, CallKept
<1>2. ASSUME NEW r, Moves(r), r = Free \/ r \in RangeCalls PROVE CallInv'
  <2>1. call'[c] = r
    BY <1>2, CallAssigned
  <2>. QED
    BY <1>1, <1>2, <2>1 DEF MapCallInv
<1>3. ASSUME NEW op, NEW k \in Keys, NEW n, Enter(c, op, k, n),
             op \in MapOps, n \in Nat, op = "SetSizeByKey" => n > 0
      PROVE  CallInv'
  <2>1. PICK m \in Nat : m = ops + 1
    <3>1. ops + 1 \in Nat
      BY HistoryAssumption DEF ScalarInv
    <3>. QED
      BY <3>1
  <2>2. PICK r : r = [op |-> op, pc |-> "load", key |-> k, n |-> n, rec |-> m, size |-> 0]
    OBVIOUS
  <2>3. Moves(r)
    BY <1>3, <2>1, <2>2 DEF Enter, Begin
  <2>4. call'[c] = r
    BY <2>3, CallAssigned
  <2>5. r \in MapCalls /\ r.op = op /\ r.n = n /\ r.pc = "load"
    BY <1>3, <2>2 DEF MapCalls
  <2>6. MapCallInv(c)'
    BY <1>3, <2>4, <2>5 DEF MapCallInv
  <2>. QED
    BY <1>1, <2>3, <2>6
<1>4. ASSUME GetBuffer(c) \/ GetBufferStores(c) PROVE CallInv'
  <2>1. impl = "map" /\ impl' = impl /\ call[c] # Free /\ call[c].pc \in {"load", "store"}
    BY <1>4 DEF GetBuffer, GetBufferStores
  <2>2. call[c] \in MapCalls /\ (call[c].op = "SetSizeByKey" => call[c].n > 0)
        /\ (call[c].pc = "store" => call[c].size > 0)
    BY <2>1, MapCallOf
  <2>3. call[c].key \in Slots
    BY <2>1, <2>2, SlotsOf DEF MapCalls
  <2>4. ASSUME call' = [call EXCEPT ![c].pc = "use"], buf'[call[c].key] # None PROVE CallInv'
    <3>1. PICK r : r = [call[c] EXCEPT !.pc = "use"]
      OBVIOUS
    <3>2. Moves(r)
      BY <2>1, <2>4, <3>1
    <3>3. /\ r \in MapCalls /\ r.pc = "use" /\ r.op = call[c].op /\ r.n = call[c].n
          /\ r.key = call[c].key
      BY <2>2, <3>1 DEF MapCalls
    <3>4. call'[c] = r
      BY <3>2, CallAssigned
    <3>5. MapCallInv(c)'
      BY <2>2, <2>4, <3>3, <3>4 DEF MapCallInv
    <3>. QED
      BY <1>1, <3>2, <3>5
  <2>5. CASE GetBufferStores(c)
    <3>1. buf'[call[c].key] # None
      <4>1. CASE buf[call[c].key] # None
        BY <1>0, <2>3, <4>1
      <4>2. CASE buf[call[c].key] = None
        <5>1. /\ buf' = [buf EXCEPT ![call[c].key] = NewRingBuffer(call[c].size)]
              /\ low' = [low EXCEPT ![call[c].key] = call[c].size] /\ log' = log
              /\ call[c].pc = "store"
          BY <2>5, <4>2 DEF GetBufferStores
        <5>2. call[c].size \in Nat \ {0}
          BY <2>2, <5>1 DEF MapCalls
        <5>. QED
          BY <2>1, <2>3, <4>2, <5>1, <5>2, StoreMem
      <4>. QED
        BY <4>1, <4>2
    <3>. QED
      BY <2>4, <2>5, <3>1 DEF GetBufferStores
  <2>6. CASE GetBuffer(c) /\ buf[call[c].key] # None
    BY <1>0, <2>3, <2>4, <2>6 DEF GetBuffer
  <2>7. CASE GetBuffer(c) /\ buf[call[c].key] = None
    <3>1. PICK z \in Nat \ {0} : z = SizeOr(maxSize)
      BY SizeOrPositive DEF ScalarInv
    <3>2. PICK r : r = [call[c] EXCEPT !.pc = "store", !.size = z]
      OBVIOUS
    <3>3. call' = [call EXCEPT ![c].pc = "store", ![c].size = SizeOr(maxSize)]
      BY <2>7 DEF GetBuffer
    <3>4. Moves(r)
      BY <2>1, <3>1, <3>2, <3>3 DEF CallInv
    <3>5. r \in MapCalls /\ r.pc = "store" /\ r.op = call[c].op /\ r.n = call[c].n /\ r.size = z
      BY <2>2, <3>2 DEF MapCalls
    <3>6. call'[c] = r
      BY <3>4, CallAssigned
    <3>7. MapCallInv(c)'
      BY <2>2, <3>5, <3>6 DEF MapCallInv
    <3>. QED
      BY <1>1, <3>4, <3>7
  <2>. QED
    BY <1>4, <2>5, <2>6, <2>7
<1>5. ASSUME Push(c) \/ ListReturns(c) \/ SetSizeByKey(c) \/ Clear(c) PROVE CallInv'
  <2>1. Moves(Free)
    BY <1>5 DEF Push, ListReturns, SetSizeByKey, Clear, Uses, Return
  <2>. QED
    BY <1>2, <2>1
<1>6. ASSUME NEW n \in Sizes, SetSize(c, n) PROVE CallInv'
  <2>1. PICK r : r = [op |-> "SetSize", pc |-> "range", n |-> n, todo |-> Keys]
    OBVIOUS
  <2>2. r \in RangeCalls
    BY <2>1, HistoryAssumption DEF RangeCalls
  <2>3. Moves(r)
    BY <1>6, <2>1 DEF SetSize, Begin
  <2>. QED
    BY <1>2, <2>2, <2>3
<1>7. ASSUME NEW k \in Keys, SetSizeVisits(c, k) PROVE CallInv'
  <2>1. impl = "map" /\ impl' = impl /\ call[c].op = "SetSize"
        /\ call' = [call EXCEPT ![c].todo = @ \ {k}]
    BY <1>7 DEF SetSizeVisits
  <2>2. call[c] \in RangeCalls
    BY <2>1, RangeCallOf
  <2>3. PICK r : r = [call[c] EXCEPT !.todo = @ \ {k}]
    OBVIOUS
  <2>4. r \in RangeCalls
    BY <2>2, <2>3 DEF RangeCalls
  <2>5. Moves(r)
    BY <2>1, <2>3
  <2>. QED
    BY <1>2, <2>4, <2>5
<1>. QED
  <2>1. \A op \in {"Push", "List", "Clear"} : op \in MapOps /\ 0 \in Nat /\ op # "SetSizeByKey"
    BY DEF MapOps
  <2>2. \A n \in Sizes : n \in Nat /\ n > 0
    BY HistoryAssumption
  <2>. QED
    BY <1>3, <1>4, <1>5, <1>6, <1>7, <2>1, <2>2 DEF MapNext, MapOps

LEMMA ShardedCallsKept ==
  ASSUME ScalarInv, MemInv, CallInv, NEW c \in Callers, ShardedNext(c)
  PROVE  CallInv'
<1>0. \A t \in Slots : buf[t] # None => buf'[t] # None
  BY ShardedMem
<1>. DEFINE Moves(r) == impl = "sharded" /\ impl' = impl /\ call' = [call EXCEPT ![c] = r]
<1>1. ASSUME NEW r, Moves(r), r = Free \/ r \in SizeCalls \cup ClearCalls \cup BatchCalls \/ Counting(r)
      PROVE  CallInv'
  <2>1. call'[c] = r
    BY <1>1, CallAssigned
  <2>2. ShardedCallInv(c)'
    BY <1>1, <2>1 DEF ShardedCallInv
  <2>. QED
    BY <1>0, <1>1, <2>2, CallAssigned, CallKept
<1>2. ASSUME NEW k \in Keys, ShardedPush(c, k) \/ ShardedClear(c, k) PROVE CallInv'
  BY <1>1, <1>2 DEF ShardedPush, ShardedClear, Begin
<1>3. ASSUME NEW k \in Keys, ShardedPushPanics(c, k) PROVE CallInv'
  <2>1. impl = "sharded" /\ impl' = impl /\ call' = call
    BY <1>3 DEF ShardedPushPanics
  <2>. QED
    BY <2>1 DEF CallInv, ShardedCallInv
<1>4. ASSUME NEW ks \in Pairs, BatchPush(c, ks) PROVE CallInv'
  <2>1. PICK m \in Nat : m = ops + 1
    <3>1. ops + 1 \in Nat
      BY HistoryAssumption DEF ScalarInv
    <3>. QED
      BY <3>1
  <2>2. {Shard[ks[i]] : i \in DOMAIN ks} \subseteq Shards
    <3>1. PICK j \in Keys, k \in Keys : ks = <<j, k>>
      BY DEF Pairs
    <3>2. \A i \in DOMAIN ks : ks[i] \in Keys
      BY <3>1
    <3>. QED
      BY <3>2 DEF Shards
  <2>3. PICK r : r = [op |-> "BatchPush", rec |-> m, keys |-> ks,
                      todo |-> {Shard[ks[i]] : i \in DOMAIN ks}]
    OBVIOUS
  <2>4. r \in BatchCalls
    BY <2>2, <2>3 DEF BatchCalls
  <2>5. Moves(r)
    BY <1>4, <2>1, <2>3 DEF BatchPush, Begin
  <2>. QED
    BY <1>1, <2>4, <2>5
<1>5. ASSUME NEW s \in Shards, BatchPushShard(c, s) PROVE CallInv'
  <2>1. impl = "sharded" /\ impl' = impl /\ call[c].op = "BatchPush"
        /\ call' = [call EXCEPT ![c].todo = @ \ {s}]
    BY <1>5 DEF BatchPushShard
  <2>2. call[c] \in BatchCalls
    BY <2>1, ShardedCallOf
  <2>3. PICK r : r = [call[c] EXCEPT !.todo = @ \ {s}]
    OBVIOUS
  <2>4. r \in BatchCalls
    BY <2>2, <2>3 DEF BatchCalls
  <2>5. Moves(r)
    BY <2>1, <2>3
  <2>. QED
    BY <1>1, <2>4, <2>5
<1>6. ASSUME NEW s \in Shards, BatchPushPanics(c, s) PROVE CallInv'
  BY <1>1, <1>6 DEF BatchPushPanics, Return
<1>7. ASSUME NEW n \in Sizes, ShardedSetSize(c, n) PROVE CallInv'
  <2>1. PICK r : r = [op |-> "SetSize", n |-> n, todo |-> Shards]
    OBVIOUS
  <2>2. r \in SizeCalls
    BY <2>1, HistoryAssumption DEF SizeCalls
  <2>3. Moves(r)
    BY <1>7, <2>1 DEF ShardedSetSize, Begin
  <2>. QED
    BY <1>1, <2>2, <2>3
<1>8. ASSUME ClearAll(c) PROVE CallInv'
  <2>1. PICK r : r = [op |-> "ClearAll", n |-> 0, todo |-> Shards]
    OBVIOUS
  <2>2. r \in ClearCalls
    BY <2>1 DEF ClearCalls
  <2>3. Moves(r)
    BY <1>8, <2>1 DEF ClearAll, Begin
  <2>. QED
    BY <1>1, <2>2, <2>3
<1>9. ASSUME CountAll(c) PROVE CallInv'
  <2>1. PICK r : r = [op |-> "CountAll", n |-> 0, todo |-> Shards]
    OBVIOUS
  <2>2. Counting(r)
    BY <2>1 DEF Counting
  <2>3. Moves(r)
    BY <1>9, <2>1 DEF CountAll, Begin
  <2>. QED
    BY <1>1, <2>2, <2>3
<1>10. ASSUME NEW op \in {"SetSize", "ClearAll", "CountAll"}, InLoop(c, op) PROVE CallInv'
  <2>1. PICK T, n : /\ T = call[c].todo \ {NextShard(c)}
                    /\ n = IF op = "CountAll" THEN call[c].n + Count(NextShard(c)) ELSE call[c].n
    OBVIOUS
  <2>2. /\ impl = "sharded" /\ impl' = impl /\ call[c].op = op
        /\ call' = [call EXCEPT ![c].todo = T, ![c].n = n]
    BY <1>10, <2>1 DEF InLoop
  <2>3. PICK r : r = [call[c] EXCEPT !.todo = T, !.n = n]
    OBVIOUS
  <2>4. Moves(r)
    BY <2>2, <2>3 DEF CallInv
  <2>5. CASE op = "SetSize"
    <3>1. call[c] \in SizeCalls
      BY <2>2, <2>5, ShardedCallOf
    <3>2. r \in SizeCalls
      BY <2>1, <2>3, <2>5, <3>1 DEF SizeCalls
    <3>. QED
      BY <1>1, <2>4, <3>2
  <2>6. CASE op = "ClearAll"
    <3>1. call[c] \in ClearCalls
      BY <2>2, <2>6, ShardedCallOf
    <3>2. r \in ClearCalls
      BY <2>1, <2>3, <2>6, <3>1 DEF ClearCalls
    <3>. QED
      BY <1>1, <2>4, <3>2
  <2>7. CASE op = "CountAll"
    <3>1. Counting(call[c])
      BY <2>2, <2>7, ShardedCallOf
    <3>2. r \in [op : {"CountAll"}, n : {n}, todo : {T}]
      BY <2>3, <3>1 DEF Counting
    <3>3. Counting(r)
      BY <3>2 DEF Counting
    <3>. QED
      BY <1>1, <2>4, <3>3
  <2>. QED
    BY <2>5, <2>6, <2>7
<1>. QED
  BY <1>2, <1>3, <1>4, <1>5, <1>6, <1>7, <1>8, <1>9, <1>10
     DEF ShardedNext, SetSizeShard, ClearShard, CountShard

LEMMA NextCalls == ScalarInv /\ MemInv /\ CallInv /\ [Next]_vars => CallInv'
<1>. SUFFICES ASSUME ScalarInv, MemInv, CallInv, [Next]_vars PROVE CallInv'
  OBVIOUS
<1>1. ASSUME NEW c \in Callers, LoopReturns(c) PROVE CallInv'
  <2>1. impl' = impl /\ buf' = buf /\ call' = [call EXCEPT ![c] = Free]
    BY <1>1 DEF LoopReturns, LooksOnly, Return
  <2>2. call'[c] = Free
    BY <2>1, CallAssigned
  <2>3. MapCallInv(c)' /\ ShardedCallInv(c)'
    BY <2>2 DEF MapCallInv, ShardedCallInv
  <2>. QED
    BY <2>1, <2>3, CallAssigned, CallKept
<1>2. CASE UNCHANGED vars
  BY <1>2 DEF vars, CallInv, MapCallInv, ShardedCallInv
<1>. QED
  BY <1>1, <1>2, MapCallsKept, ShardedCallsKept DEF Next

-----------------------------------------------------------------------------
(* What a buffer keeps.                                                    *)

LEMMA InitMem == Init => ScalarInv /\ MemInv /\ CallInv
<1>. SUFFICES ASSUME Init PROVE ScalarInv /\ MemInv /\ CallInv
  OBVIOUS
<1>1. impl \in {"map", "sharded"} /\ stuck = {} /\ own = {}
  BY DEF Init, New, NewSharded
<1>0. asked \in Nat /\ maxSize = Int32(asked) /\ maxSize \in Int
  BY HistoryAssumption, Int32Props DEF Init
<1>2. ops \in 0 .. MaxOps
  BY HistoryAssumption DEF Init
<1>3. raced \in BOOLEAN
  BY DEF Init
<1>4. CallInv
  <2>1. call = [c \in Callers |-> Free]
    BY DEF Init
  <2>. QED
    BY <2>1 DEF CallInv, MapCallInv, ShardedCallInv
<1>5. log = [s \in Slots |-> <<>>] /\ <<>> \in Seq(Nat)
  BY DEF Init
<1>6. MemInv
  <2>1. CASE New
    <3>1. /\ impl = "map" /\ buf = [s \in Slots |-> None] /\ low = [s \in Slots |-> 0]
      BY <2>1 DEF New
    <3>. QED
      BY <1>5, <3>1 DEF MemInv
  <2>2. CASE NewSharded
    <3>1. /\ buf = [s \in Slots |-> NewRingBuffer(FirstSize)]
          /\ low = [s \in Slots |-> SizeOr(FirstSize)]
      BY <2>2 DEF NewSharded
    <3>2. PICK b \in Buffers, n \in Nat : /\ b = NewRingBuffer(FirstSize) /\ n = SizeOr(FirstSize)
                                          /\ Keeps(b, <<>>, n)
      BY HistoryAssumption, NewKeeps
    <3>3. b # None
      BY NoneAssumption
    <3>4. buf = [s \in Slots |-> b] /\ low = [s \in Slots |-> n]
      BY <3>1, <3>2
    <3>. QED
      BY <1>5, <3>2, <3>3, <3>4 DEF MemInv
  <2>. QED
    BY <2>1, <2>2 DEF Init
<1>. QED
  BY <1>0, <1>1, <1>2, <1>3, <1>4, <1>6 DEF ScalarInv

LEMMA MemRecent == ScalarInv /\ MemInv => KeptIsRecent
BY DEF ScalarInv, MemInv, KeptIsRecent, TypeOK, Keeps

\* Base is what every other proof about the history stands on.
Base == ScalarInv /\ MemInv /\ CallInv

LEMMA NextBase == Base /\ [Next]_vars => Base'
BY NextScalars, NextMem, NextCalls DEF Base

LEMMA BaseHolds == Spec => []Base
<1>1. Init => Base
  BY InitMem DEF Base
<1>. QED
  BY <1>1, NextBase, PTL DEF Spec

\* In History and ShardedHistory alike, whatever the interleaving of getBuffer,
\* Push, SetSize, SetSizeByKey, BatchPush and Clear: a buffer holds exactly the
\* newest records pushed to it since it was last cleared, in the order of the
\* pushes, and no fewer than its smallest size since then.
THEOREM KeptHolds == Spec => []KeptIsRecent
<1>1. Base => KeptIsRecent
  BY MemRecent DEF Base
<1>. QED
  BY <1>1, BaseHolds, PTL

-----------------------------------------------------------------------------
(* Sizes.                                                                  *)

\* The sizes that a SetSize, or New, leaves behind.
GoodCap(n) ==
  \/ n = SizeOr(asked)
  \/ impl = "map" /\ asked >= Half /\ n = SizeOr(Int32(asked))

SizedFor(s) == s \in own \/ buf[s] = None \/ GoodCap(buf[s].cap)

AboutToStore(c) == impl = "map" /\ call[c] # Free /\ call[c].pc = "store"

\* As long as no two size changes have met: one SetSize runs at most, and for
\* the size that was asked for last; a buffer about to be stored has a size
\* that goes with it; and so has every buffer that the running SetSize need
\* not visit any more.
SizeInv ==
  ~raced =>
    /\ \A c \in Callers : call[c].op = "SetSize" =>
         call[c].n = asked /\ \A d \in Callers \ {c} : call[d].op # "SetSize"
    /\ \A c \in Callers : AboutToStore(c) => GoodCap(call[c].size)
    /\ \A s \in Slots : \/ SizedFor(s)
                        \/ \E c \in Callers : call[c].op = "SetSize" /\ s \in call[c].todo

\* A size read from maxSize is good.
LEMMA ReadSizeGood ==
  ASSUME Base, impl = "map"
  PROVE  GoodCap(SizeOr(maxSize))
<1>1. asked \in Nat /\ maxSize = Int32(asked) /\ Half \in Nat
  BY HistoryAssumption DEF Base, ScalarInv
<1>2. CASE asked < Half
  BY <1>1, <1>2, Int32Props DEF GoodCap
<1>3. CASE asked >= Half
  BY <1>1, <1>3 DEF GoodCap
<1>. QED
  BY <1>1, <1>2, <1>3

\* A call other than SetSize begins, goes on or ends.
LEMMA StepSizes ==
  ASSUME Base, SizeInv, UNCHANGED <<impl, asked>>, ~raced' => ~raced, NEW c \in Callers, NEW r,
         call' = [call EXCEPT ![c] = r], call[c].op # "SetSize", r.op # "SetSize",
         impl = "map" /\ r # Free /\ r.pc = "store" => GoodCap(r.size),
         ~raced => \A s \in Slots : SizedFor(s) => SizedFor(s)'
  PROVE  SizeInv'
<1>. SUFFICES ASSUME ~raced' PROVE SizeInv'
  BY DEF SizeInv
<1>1. call'[c] = r /\ \A d \in Callers \ {c} : call'[d] = call[d]
  BY CallAssigned DEF Base
<1>2. Slots' = Slots
  BY DEF Slots
<1>3. \A d \in Callers : call'[d].op = "SetSize" => d # c /\ call'[d] = call[d]
  BY <1>1
<1>4. ASSUME NEW d \in Callers, call'[d].op = "SetSize"
      PROVE  call'[d].n = asked' /\ \A e \in Callers \ {d} : call'[e].op # "SetSize"
  BY <1>1, <1>3, <1>4 DEF SizeInv
<1>5. ASSUME NEW d \in Callers, AboutToStore(d)' PROVE GoodCap(call[d].size)'
  <2>1. GoodCap(call'[d].size)
    BY <1>1, <1>5 DEF SizeInv, AboutToStore
  <2>. QED
    BY <2>1 DEF GoodCap, SizeOr, Int32
<1>6. ASSUME NEW s \in Slots
      PROVE  SizedFor(s)' \/ \E d \in Callers : call'[d].op = "SetSize" /\ s \in call'[d].todo
  <2>1. CASE SizedFor(s)
    BY <2>1
  <2>2. ASSUME NEW d \in Callers, call[d].op = "SetSize", s \in call[d].todo
        PROVE  call'[d].op = "SetSize" /\ s \in call'[d].todo
    BY <1>1, <2>2
  <2>. QED
    BY <2>1, <2>2 DEF SizeInv
<1>. QED
  BY <1>2, <1>4, <1>5, <1>6 DEF SizeInv

\* SetSize begins: no other runs, and nobody is about to store a buffer.
LEMMA SetSizeSizes ==
  ASSUME Base, SizeInv, NEW c \in Callers, NEW r, Begin(c, r),
         r.op = "SetSize", r.n = asked', Slots \subseteq r.todo, impl = "map" => r.pc = "range"
  PROVE  SizeInv'
<1>. SUFFICES ASSUME ~raced' PROVE SizeInv'
  BY DEF SizeInv
<1>1. /\ call[c] = Free /\ impl' = impl
      /\ \A d \in Callers : ~Sizing(d)
      /\ call' = [call EXCEPT ![c] = r]
  BY DEF Begin
<1>2. \A d \in Callers : call[d].op # "SetSize" /\ ~AboutToStore(d)
  BY <1>1 DEF Sizing, AboutToStore
<1>3. call'[c] = r /\ \A d \in Callers \ {c} : call'[d] = call[d]
  BY <1>1, CallAssigned DEF Base
<1>4. Slots' = Slots
  BY <1>1 DEF Slots
<1>5. \A d \in Callers : call'[d].op = "SetSize" => d = c
  BY <1>2, <1>3
<1>6. \A d \in Callers : ~AboutToStore(d)'
  BY <1>1, <1>2, <1>3 DEF AboutToStore
<1>7. \A s \in Slots : call'[c].op = "SetSize" /\ s \in call'[c].todo
  BY <1>3
<1>8. call'[c].n = asked'
  BY <1>3
<1>. HIDE DEF Slots
<1>. QED
  BY <1>4, <1>5, <1>6, <1>7, <1>8 DEF SizeInv

\* SetSize visits one buffer.
LEMMA VisitSizes ==
  ASSUME Base, SizeInv, UNCHANGED <<impl, asked, raced>>, NEW c \in Callers, NEW r, NEW k,
         call' = [call EXCEPT ![c] = r], call[c].op = "SetSize", r.op = "SetSize",
         r.n = call[c].n, r.todo = call[c].todo \ {k}, call[c].n \in Nat \ {0},
         impl = "map" => r.pc = "range",
         \A t \in Slots : t # k => buf'[t] = buf[t] /\ (t \in own => t \in own'),
         k \in Slots => buf'[k] = None \/ buf'[k].cap = call[c].n
  PROVE  SizeInv'
<1>. SUFFICES ASSUME ~raced' PROVE SizeInv'
  BY DEF SizeInv
<1>1. call'[c] = r /\ \A d \in Callers \ {c} : call'[d] = call[d]
  BY CallAssigned DEF Base
<1>2. call[c].n = asked /\ \A d \in Callers \ {c} : call[d].op # "SetSize"
  BY DEF SizeInv
<1>3. Slots' = Slots
  BY DEF Slots
<1>4. SizeOr(asked) = asked
  BY <1>2 DEF SizeOr
<1>5. ASSUME NEW s \in Slots, s = k \/ SizedFor(s) PROVE SizedFor(s)'
  <2>1. CASE s = k
    BY <1>2, <1>4, <2>1 DEF SizedFor, GoodCap, SizeOr
  <2>2. CASE s # k
    BY <1>5, <2>2 DEF SizedFor, GoodCap, SizeOr, Int32
  <2>. QED
    BY <2>1, <2>2
<1>6. ASSUME NEW s \in Slots
      PROVE  SizedFor(s)' \/ (call'[c].op = "SetSize" /\ s \in call'[c].todo)
  <2>1. SizedFor(s) \/ s \in call[c].todo
    BY <1>2 DEF SizeInv
  <2>. QED
    BY <1>1, <1>5, <2>1
<1>7. ASSUME NEW d \in Callers, AboutToStore(d)' PROVE GoodCap(call[d].size)'
  <2>1. d # c
    BY <1>1, <1>7 DEF AboutToStore
  <2>2. call'[d] = call[d] /\ AboutToStore(d)
    BY <1>1, <1>7, <2>1 DEF AboutToStore
  <2>3. GoodCap(call[d].size)
    BY <2>2 DEF SizeInv
  <2>. QED
    BY <2>2, <2>3 DEF GoodCap, SizeOr, Int32
<1>8. \A d \in Callers : call'[d].op = "SetSize" => d = c
  BY <1>1, <1>2
<1>9. call'[c].n = asked'
  BY <1>1, <1>2
<1>. HIDE DEF Slots
<1>. QED
  BY <1>3, <1>6, <1>7, <1>8, <1>9 DEF SizeInv

\* SetSize returns: it has visited every buffer.
LEMMA ReturnSizes ==
  ASSUME Base, SizeInv, UNCHANGED <<impl, asked, raced, own, buf>>, NEW c \in Callers,
         call' = [call EXCEPT ![c] = Free], call[c].op = "SetSize", call[c].todo = {}
  PROVE  SizeInv'
<1>. SUFFICES ASSUME ~raced' PROVE SizeInv'
  BY DEF SizeInv
<1>1. call'[c] = Free /\ \A d \in Callers \ {c} : call'[d] = call[d]
  BY CallAssigned DEF Base
<1>2. /\ \A d \in Callers \ {c} : call[d].op # "SetSize"
      /\ \A s \in Slots : SizedFor(s)
  BY DEF SizeInv
<1>3. Slots' = Slots /\ \A s \in Slots : SizedFor(s)'
  BY <1>2 DEF Slots, SizedFor, GoodCap, SizeOr, Int32
<1>4. \A d \in Callers : call'[d].op # "SetSize"
  BY <1>1, <1>2 DEF Free
<1>5. ASSUME NEW d \in Callers, AboutToStore(d)' PROVE GoodCap(call[d].size)'
  <2>1. call'[d] = call[d] /\ AboutToStore(d)
    BY <1>1, <1>5 DEF AboutToStore
  <2>2. GoodCap(call[d].size)
    BY <2>1 DEF SizeInv
  <2>. QED
    BY <2>1, <2>2 DEF GoodCap, SizeOr, Int32
<1>. QED
  BY <1>3, <1>4, <1>5 DEF SizeInv

LEMMA SameSized ==
  ASSUME SameCaps, UNCHANGED <<impl, asked>>, own \subseteq own'
  PROVE  \A s \in Slots : SizedFor(s) => SizedFor(s)'
BY DEF SameCaps, SizedFor, GoodCap, SizeOr, Int32

\* A call other than SetSize begins.
LEMMA BeginSizes ==
  ASSUME Base, SizeInv, SameCaps, asked' = asked, NEW c \in Callers, NEW r, Begin(c, r),
         r.op # "SetSize", r.op \in MapOps => r.pc = "load",
         r.op \in MapOps \/ impl = "sharded"
  PROVE  SizeInv'
<1>1. /\ UNCHANGED <<impl, own>> /\ (~raced' => ~raced) /\ call[c] = Free
      /\ call' = [call EXCEPT ![c] = r]
  BY DEF Begin
<1>2. Free.op # "SetSize" /\ (Free.op \notin MapOps)
  BY DEF Free, MapOps
<1>3. \A s \in Slots : SizedFor(s) => SizedFor(s)'
  BY <1>1, SameSized
<1>4. impl = "map" /\ r # Free /\ r.pc = "store" => FALSE
  OBVIOUS
<1>. QED
  BY <1>1, <1>2, <1>3, <1>4, StepSizes

LEMMA MapSizes ==
  ASSUME Base, SizeInv, NEW c \in Callers, MapNext(c)
  PROVE  SizeInv'
<1>. USE DEF Base
<1>0. Free.op = "none" /\ "none" \notin MapOps
  BY DEF Free, MapOps
<1>1. ASSUME NEW op \in MapOps, op # "SetSize", NEW k, NEW n, Enter(c, op, k, n) PROVE SizeInv'
  <2>1. PICK r : r = [op |-> op, pc |-> "load", key |-> k, n |-> n, rec |-> ops + 1, size |-> 0]
    OBVIOUS
  <2>2. r.op = op /\ r.pc = "load"
    BY <2>1
  <2>3. Begin(c, r) /\ UNCHANGED <<asked, buf>>
    BY <1>1, <2>1 DEF Enter, sizes
  <2>. QED
    BY <1>1, <2>2, <2>3, BeginSizes DEF SameCaps
<1>2. CASE GetBuffer(c)
  <2>1. /\ impl = "map" /\ call[c] # Free /\ call[c].pc = "load"
        /\ UNCHANGED <<impl, asked, raced, own, buf>>
    BY <1>2 DEF GetBuffer, sizes, marks
  <2>2. call[c] \in MapCalls
    BY <2>1, MapCallOf
  <2>3. PICK r : /\ call' = [call EXCEPT ![c] = r] /\ r.op = call[c].op
                 /\ r.pc = "store" => r.size = SizeOr(maxSize)
    <3>1. CASE buf[call[c].key] # None
      <4>1. PICK r : r = [call[c] EXCEPT !.pc = "use"]
        OBVIOUS
      <4>2. r.op = call[c].op /\ r.pc = "use"
        BY <2>2, <4>1 DEF MapCalls
      <4>3. call' = [call EXCEPT ![c] = r]
        BY <1>2, <3>1, <4>1 DEF GetBuffer
      <4>. QED
        BY <4>2, <4>3
    <3>2. CASE buf[call[c].key] = None
      <4>1. PICK z \in Nat : z = SizeOr(maxSize)
        BY SizeOrPositive DEF ScalarInv
      <4>2. PICK r : r = [call[c] EXCEPT !.pc = "store", !.size = z]
        OBVIOUS
      <4>3. r.op = call[c].op /\ r.size = z
        BY <2>2, <4>2 DEF MapCalls
      <4>4. call' = [call EXCEPT ![c].pc = "store", ![c].size = z]
        BY <1>2, <3>2, <4>1 DEF GetBuffer
      <4>5. call' = [call EXCEPT ![c] = r]
        BY <4>2, <4>4 DEF CallInv
      <4>. QED
        BY <4>1, <4>3, <4>5
    <3>. QED
      BY <3>1, <3>2
  <2>4. call[c].op # "SetSize"
    BY <2>2 DEF MapCalls, MapOps
  <2>5. SameCaps
    BY <2>1 DEF SameCaps
  <2>6. r.pc = "store" => GoodCap(r.size)
    BY <2>1, <2>3, ReadSizeGood
  <2>7. \A s \in Slots : SizedFor(s) => SizedFor(s)'
    BY <2>1, <2>5, SameSized
  <2>. QED
    BY <2>1, <2>3, <2>4, <2>6, <2>7, StepSizes
<1>3. CASE GetBufferStores(c)
  <2>1. /\ impl = "map" /\ call[c] # Free /\ call[c].pc = "store"
        /\ UNCHANGED <<impl, asked, raced, own, log>>
        /\ call' = [call EXCEPT ![c].pc = "use"]
    BY <1>3 DEF GetBufferStores, sizes, marks
  <2>2. call[c] \in MapCalls /\ call[c].size > 0
    BY <2>1, MapCallOf
  <2>3. PICK r : r = [call[c] EXCEPT !.pc = "use"]
    OBVIOUS
  <2>4. r.op = call[c].op /\ r.pc = "use" /\ call' = [call EXCEPT ![c] = r]
    BY <2>1, <2>2, <2>3 DEF MapCalls
  <2>5. call[c].op # "SetSize" /\ call[c].op \in MapOps /\ call[c].size \in Nat \ {0}
        /\ call[c].key \in Slots
    BY <2>1, <2>2, SlotsOf DEF MapCalls, MapOps
  <2>6. ASSUME ~raced, NEW s \in Slots, SizedFor(s)
        PROVE  SizedFor(s)'
    <3>1. GoodCap(call[c].size)
      BY <2>1, <2>6 DEF SizeInv, AboutToStore
    <3>2. CASE buf[call[c].key] # None
      <4>1. buf' = buf
        BY <1>3, <3>2 DEF GetBufferStores
      <4>. QED
        BY <2>1, <2>6, <4>1 DEF SizedFor, GoodCap, SizeOr, Int32
    <3>3. CASE buf[call[c].key] = None
      <4>1. /\ buf' = [buf EXCEPT ![call[c].key] = NewRingBuffer(call[c].size)]
            /\ low' = [low EXCEPT ![call[c].key] = call[c].size]
        BY <1>3, <3>3 DEF GetBufferStores
      <4>2. buf'[call[c].key].cap = call[c].size /\ \A t \in Slots \ {call[c].key} : buf'[t] = buf[t]
        BY <2>1, <2>5, <3>3, <4>1, StoreMem
      <4>. QED
        BY <2>1, <2>6, <3>1, <4>2 DEF SizedFor, GoodCap, SizeOr, Int32
    <3>. QED
      BY <3>2, <3>3
  <2>. QED
    BY <2>1, <2>4, <2>5, <2>6, StepSizes
<1>4. ASSUME NEW op \in MapOps, Uses(c, op)
      PROVE  /\ UNCHANGED <<impl, asked, raced>> /\ call' = [call EXCEPT ![c] = Free]
             /\ call[c] # Free /\ call[c].op = op /\ call[c].op # "SetSize"
             /\ call[c].key \in Slots /\ buf[call[c].key] # None /\ call[c].rec \in Nat
  <2>1. impl = "map" /\ call[c].op = op /\ call[c].pc = "use" /\ op # "SetSize"
    BY <1>4 DEF Uses, MapOps
  <2>2. call[c] # Free
    BY <1>0, <1>4, <2>1
  <2>3. call[c] \in MapCalls /\ buf[call[c].key] # None
    BY <2>1, <2>2, MapCallOf
  <2>. QED
    BY <1>4, <2>1, <2>2, <2>3, SlotsOf DEF Uses, Return, MapCalls, sizes
<1>5. ASSUME NEW op \in MapOps, Uses(c, op), \A s \in Slots : SizedFor(s) => SizedFor(s)'
      PROVE  SizeInv'
  BY <1>0, <1>4, <1>5, StepSizes
<1>20. ASSUME NEW op \in MapOps, Uses(c, op), SameCaps, UNCHANGED own PROVE SizeInv'
  BY <1>4, <1>5, <1>20, SameSized
<1>6. CASE Push(c)
  <2>1. Uses(c, "Push") /\ "Push" \in MapOps
    BY <1>6 DEF Push, MapOps
  <2>2. <<call[c].rec>> \in Seq(Nat)
    BY <1>4, <2>1
  <2>3. CASE PushTo(call[c].key, <<call[c].rec>>)
    BY <1>4, <1>6, <1>20, <2>1, <2>2, <2>3, PushMem DEF Push
  <2>4. CASE PushPanics(call[c].key)
    BY <1>6, <1>20, <2>1, <2>4 DEF Push, PushPanics, SameCaps
  <2>. QED
    BY <1>6, <2>3, <2>4 DEF Push
<1>7. CASE ListReturns(c)
  BY <1>7, <1>20 DEF ListReturns, LooksOnly, SameCaps, MapOps
<1>8. CASE Clear(c)
  <2>1. Uses(c, "Clear") /\ "Clear" \in MapOps /\ ClearAt({call[c].key})
    BY <1>8 DEF Clear, MapOps
  <2>2. impl' = impl /\ buf[call[c].key] # None
    BY <1>4, <2>1
  <2>3. SameCaps
    BY <2>1, <2>2, ClearMem
  <2>. QED
    BY <1>8, <1>20, <2>1, <2>3 DEF Clear
<1>9. CASE SetSizeByKey(c)
  <2>1. /\ Uses(c, "SetSizeByKey") /\ "SetSizeByKey" \in MapOps
        /\ ResizeTo({call[c].key}, call[c].n) /\ own' = own \cup {call[c].key}
        /\ call[c].op = "SetSizeByKey" /\ call[c].pc = "use" /\ impl = "map"
    BY <1>9 DEF SetSizeByKey, MapOps, Uses
  <2>2. impl' = impl /\ asked' = asked /\ buf[call[c].key] # None /\ call[c] # Free
    BY <1>4, <2>1
  <2>3. call[c].n \in Nat \ {0}
    BY <2>1, <2>2, MapCallOf DEF MapCalls
  <2>4. \A t \in Slots : t # call[c].key => buf'[t] = buf[t]
    BY <2>1, <2>2, <2>3, ResizeMem
  <2>5. \A s \in Slots : SizedFor(s) => SizedFor(s)'
    BY <2>1, <2>2, <2>4 DEF SizedFor, GoodCap, SizeOr, Int32
  <2>. QED
    BY <1>5, <2>1, <2>5
<1>10. ASSUME NEW n \in Sizes, SetSize(c, n) PROVE SizeInv'
  <2>1. PICK r : r = [op |-> "SetSize", pc |-> "range", n |-> n, todo |-> Keys]
    OBVIOUS
  <2>2. Begin(c, r) /\ impl = "map" /\ asked' = n
    BY <1>10, <2>1 DEF SetSize
  <2>3. r.op = "SetSize" /\ r.n = asked' /\ Slots \subseteq r.todo /\ r.pc = "range"
    BY <2>1, <2>2, SlotsOf
  <2>. QED
    BY <2>2, <2>3, SetSizeSizes
<1>11. ASSUME NEW k \in Keys, SetSizeVisits(c, k) PROVE SizeInv'
  <2>1. /\ impl = "map" /\ UNCHANGED <<impl, asked, raced>> /\ call[c].op = "SetSize"
        /\ call' = [call EXCEPT ![c].todo = @ \ {k}]
        /\ \A t : t # k /\ t \in own => t \in own'
    BY <1>11 DEF SetSizeVisits, sizes
  <2>2. call[c] \in RangeCalls
    BY <2>1, RangeCallOf
  <2>3. PICK r : r = [call[c] EXCEPT !.todo = @ \ {k}]
    OBVIOUS
  <2>4. /\ r.op = "SetSize" /\ r.n = call[c].n /\ r.todo = call[c].todo \ {k}
        /\ call[c].n \in Nat \ {0} /\ r.pc = "range"
    BY <2>2, <2>3 DEF RangeCalls
  <2>5. call' = [call EXCEPT ![c] = r]
    BY <2>1, <2>3
  <2>6. /\ \A t \in Slots : t # k => buf'[t] = buf[t]
        /\ k \in Slots => buf'[k] = None \/ buf'[k].cap = call[c].n
    <3>1. CASE buf[k] # None
      <4>1. ResizeTo({k}, call[c].n)
        BY <1>11, <3>1 DEF SetSizeVisits
      <4>. QED
        BY <2>1, <2>4, <3>1, <4>1, ResizeMem
    <3>2. CASE buf[k] = None
      BY <1>11, <3>2 DEF SetSizeVisits, LooksOnly
    <3>. QED
      BY <3>1, <3>2
  <2>7. \A t \in Slots : t # k => buf'[t] = buf[t] /\ (t \in own => t \in own')
    BY <2>1, <2>6
  <2>8. k \in Slots => buf'[k] = None \/ buf'[k].cap = call[c].n
    BY <2>6
  <2>9. UNCHANGED <<impl, asked, raced>> /\ call[c].op = "SetSize"
    BY <2>1
  <2>. HIDE DEF Base
  <2>. QED
    BY <2>4, <2>5, <2>7, <2>8, <2>9, VisitSizes
<1>. QED
  BY <1>1, <1>2, <1>3, <1>6, <1>7, <1>8, <1>9, <1>10, <1>11 DEF MapNext, MapOps

LEMMA ShardedSizes ==
  ASSUME Base, SizeInv, NEW c \in Callers, ShardedNext(c)
  PROVE  SizeInv'
<1>. USE DEF Base
<1>0. Free.op = "none" /\ "none" \notin MapOps
  BY DEF Free, MapOps
<1>1. ASSUME impl = "sharded" PROVE \A t \in Slots : buf[t] # None
  BY <1>1 DEF MemInv
<1>2. ASSUME NEW k \in Keys, ShardedPush(c, k) PROVE SizeInv'
  <2>1. impl = "sharded" /\ impl' = impl /\ PushTo(Shard[k], <<ops + 1>>) /\ Begin(c, Free)
        /\ asked' = asked
    BY <1>2 DEF ShardedPush, Begin, sizes
  <2>2. ops + 1 \in Nat
    BY HistoryAssumption DEF ScalarInv
  <2>3. <<ops + 1>> \in Seq(Nat) /\ Shard[k] \in Slots /\ buf[Shard[k]] # None
    BY <1>1, <2>1, <2>2, SlotsOf
  <2>4. SameCaps
    BY <2>1, <2>3, PushMem
  <2>. QED
    BY <1>0, <2>1, <2>4, BeginSizes
<1>3. ASSUME NEW k \in Keys, ShardedClear(c, k) PROVE SizeInv'
  <2>1. impl = "sharded" /\ impl' = impl /\ ClearAt({Shard[k]}) /\ Begin(c, Free)
        /\ asked' = asked
    BY <1>3 DEF ShardedClear, Begin, sizes
  <2>2. SameCaps
    BY <1>1, <2>1, ClearMem
  <2>. QED
    BY <1>0, <2>1, <2>2, BeginSizes
<1>4. ASSUME NEW k \in Keys, ShardedPushPanics(c, k) PROVE SizeInv'
  <2>1. UNCHANGED <<impl, asked, raced, own, call, buf>>
    BY <1>4 DEF ShardedPushPanics, PushPanics, sizes, marks
  <2>. QED
    BY <2>1 DEF SizeInv, SizedFor, AboutToStore, GoodCap, SizeOr, Int32, Slots
<1>5. ASSUME NEW r, Begin(c, r), r.op \in {"BatchPush", "ClearAll", "CountAll"},
             impl = "sharded", UNCHANGED <<asked, buf>>
      PROVE  SizeInv'
  <2>1. SameCaps
    BY <1>5 DEF SameCaps
  <2>2. r.op # "SetSize" /\ r.op \notin MapOps
    BY <1>5 DEF MapOps
  <2>. QED
    BY <1>5, <2>1, <2>2, BeginSizes
<1>6. ASSUME NEW ks, BatchPush(c, ks) PROVE SizeInv'
  <2>1. PICK r : r = [op |-> "BatchPush", rec |-> ops + 1, keys |-> ks,
                      todo |-> {Shard[ks[i]] : i \in DOMAIN ks}]
    OBVIOUS
  <2>2. r.op = "BatchPush"
    BY <2>1
  <2>3. Begin(c, r) /\ UNCHANGED <<asked, buf>> /\ impl = "sharded"
    BY <1>6, <2>1 DEF BatchPush, sizes
  <2>. QED
    BY <1>5, <2>2, <2>3
<1>7. ASSUME ClearAll(c) PROVE SizeInv'
  <2>1. PICK r : r = [op |-> "ClearAll", n |-> 0, todo |-> Shards]
    OBVIOUS
  <2>. QED
    BY <1>5, <1>7, <2>1 DEF ClearAll, sizes
<1>8. ASSUME CountAll(c) PROVE SizeInv'
  <2>1. PICK r : r = [op |-> "CountAll", n |-> 0, todo |-> Shards]
    OBVIOUS
  <2>. QED
    BY <1>5, <1>8, <2>1 DEF CountAll, sizes
<1>9. ASSUME NEW n \in Sizes, ShardedSetSize(c, n) PROVE SizeInv'
  <2>1. PICK r : r = [op |-> "SetSize", n |-> n, todo |-> Shards]
    OBVIOUS
  <2>2. Begin(c, r) /\ impl = "sharded" /\ asked' = n
    BY <1>9, <2>1 DEF ShardedSetSize
  <2>3. r.op = "SetSize" /\ r.n = asked' /\ Slots \subseteq r.todo
    BY <2>1, <2>2, SlotsOf
  <2>. QED
    BY <2>2, <2>3, SetSizeSizes
<1>10. ASSUME impl = "sharded", UNCHANGED <<impl, asked, raced, own>>, SameCaps,
              NEW r, call' = [call EXCEPT ![c] = r], call[c].op \in {"BatchPush", "ClearAll", "CountAll"}, r.op \in {"none", call[c].op}
       PROVE  SizeInv'
  <2>1. call[c].op # "SetSize" /\ r.op # "SetSize"
    BY <1>10
  <2>2. \A s \in Slots : SizedFor(s) => SizedFor(s)'
    BY <1>10, SameSized
  <2>. QED
    BY <1>10, <2>1, <2>2, StepSizes
<1>11. ASSUME NEW s \in Shards, BatchPushShard(c, s) PROVE SizeInv'
  <2>1. /\ impl = "sharded" /\ UNCHANGED <<impl, asked, raced, own>> /\ call[c].op = "BatchPush"
        /\ PushTo(s, Group(c, s)) /\ call' = [call EXCEPT ![c].todo = @ \ {s}]
    BY <1>11 DEF BatchPushShard, sizes, marks
  <2>2. call[c] \in BatchCalls /\ s \in Slots /\ buf[s] # None
    BY <1>1, <2>1, ShardedCallOf, SlotsOf
  <2>3. Group(c, s) \in Seq(Nat)
    BY <2>2, GroupSeq
  <2>4. SameCaps
    BY <2>1, <2>2, <2>3, PushMem
  <2>5. PICK r : r = [call[c] EXCEPT !.todo = @ \ {s}]
    OBVIOUS
  <2>6. r.op = call[c].op /\ call' = [call EXCEPT ![c] = r]
    BY <2>1, <2>2, <2>5 DEF BatchCalls
  <2>. QED
    BY <1>10, <2>1, <2>4, <2>6
<1>12. ASSUME NEW s \in Shards, BatchPushPanics(c, s) PROVE SizeInv'
  <2>1. /\ UNCHANGED <<impl, asked, raced, own, buf>> /\ call[c].op = "BatchPush"
        /\ call' = [call EXCEPT ![c] = Free] /\ impl = "sharded"
    BY <1>12 DEF BatchPushPanics, PushPanics, Return, sizes, marks
  <2>. QED
    BY <1>0, <1>10, <2>1 DEF SameCaps
<1>13. ASSUME NEW op \in {"SetSize", "ClearAll", "CountAll"}, InLoop(c, op)
       PROVE  /\ impl = "sharded" /\ UNCHANGED <<impl, asked, raced, own>> /\ call[c].op = op
              /\ \E r : /\ call' = [call EXCEPT ![c] = r] /\ r.op = op
                        /\ op # "CountAll" => r.n = call[c].n
                        /\ r.todo = call[c].todo \ {NextShard(c)}
  <2>1. PICK T, n : /\ T = call[c].todo \ {NextShard(c)}
                    /\ n = IF op = "CountAll" THEN call[c].n + Count(NextShard(c)) ELSE call[c].n
    OBVIOUS
  <2>2. /\ impl = "sharded" /\ UNCHANGED <<impl, asked, raced, own>> /\ call[c].op = op
        /\ call' = [call EXCEPT ![c].todo = T, ![c].n = n]
    BY <1>13, <2>1 DEF InLoop, sizes, marks
  <2>3. PICK r : r = [call[c] EXCEPT !.todo = T, !.n = n]
    OBVIOUS
  <2>4. call' = [call EXCEPT ![c] = r]
    BY <2>2, <2>3 DEF CallInv
  <2>5. call[c] \in SizeCalls \/ call[c] \in ClearCalls \/ Counting(call[c])
    BY <2>2, ShardedCallOf
  <2>6. r.op = op /\ r.n = n /\ r.todo = T
    BY <2>2, <2>3, <2>5 DEF SizeCalls, ClearCalls, Counting
  <2>. QED
    BY <2>1, <2>2, <2>4, <2>6
<1>14. CASE SetSizeShard(c)
  <2>1. InLoop(c, "SetSize") /\ ResizeTo({NextShard(c)}, call[c].n)
    BY <1>14 DEF SetSizeShard
  <2>2. impl = "sharded" /\ UNCHANGED <<impl, asked, raced, own>> /\ call[c].op = "SetSize"
    BY <1>13, <2>1
  <2>3. PICK r : /\ call' = [call EXCEPT ![c] = r] /\ r.op = "SetSize" /\ r.n = call[c].n
                 /\ r.todo = call[c].todo \ {NextShard(c)}
    BY <1>13, <2>1
  <2>4. call[c].n \in Nat \ {0}
    BY <2>2, ShardedCallOf DEF SizeCalls
  <2>5. \A t \in Slots : /\ t # NextShard(c) => buf'[t] = buf[t]
                         /\ t = NextShard(c) => buf'[t].cap = call[c].n
    BY <1>1, <2>1, <2>2, <2>4, ResizeMem
  <2>. QED
    BY <2>2, <2>3, <2>4, <2>5, VisitSizes
<1>15. CASE ClearShard(c)
  <2>1. InLoop(c, "ClearAll") /\ ClearAt({NextShard(c)})
    BY <1>15 DEF ClearShard
  <2>2. impl = "sharded" /\ UNCHANGED <<impl, asked, raced, own>> /\ call[c].op = "ClearAll"
    BY <1>13, <2>1
  <2>3. SameCaps
    BY <1>1, <2>1, <2>2, ClearMem
  <2>. QED
    BY <1>10, <1>13, <2>1, <2>2, <2>3
<1>16. CASE CountShard(c)
  <2>1. InLoop(c, "CountAll") /\ SameCaps
    BY <1>16 DEF CountShard, LooksOnly, SameCaps
  <2>. QED
    BY <1>10, <1>13, <2>1
<1>. QED
  BY <1>2, <1>3, <1>4, <1>6, <1>7, <1>8, <1>9, <1>11, <1>12, <1>14, <1>15, <1>16 DEF ShardedNext

LEMMA NextSizes == Base /\ SizeInv /\ [Next]_vars => SizeInv'
<1>. SUFFICES ASSUME Base, SizeInv, [Next]_vars PROVE SizeInv'
  OBVIOUS
<1>1. ASSUME NEW c \in Callers, LoopReturns(c) PROVE SizeInv'
  <2>1. /\ UNCHANGED <<impl, asked, raced, own, buf>> /\ call' = [call EXCEPT ![c] = Free]
        /\ call[c].todo = {}
        /\ call[c].op \in {"SetSize", "BatchPush", "ClearAll", "CountAll"}
    BY <1>1 DEF LoopReturns, LooksOnly, Return, sizes, marks
  <2>2. CASE call[c].op = "SetSize"
    BY <2>1, <2>2, ReturnSizes
  <2>3. CASE call[c].op # "SetSize"
    <3>1. Free.op # "SetSize"
      BY DEF Free
    <3>2. \A s \in Slots : SizedFor(s) => SizedFor(s)'
      BY <2>1, SameSized DEF SameCaps
    <3>. QED
      BY <2>1, <2>3, <3>1, <3>2, StepSizes
  <2>. QED
    BY <2>2, <2>3
<1>2. CASE UNCHANGED vars
  BY <1>2 DEF vars, SizeInv, SizedFor, AboutToStore, GoodCap, SizeOr, Int32, Slots
<1>. QED
  BY <1>1, <1>2, MapSizes, ShardedSizes DEF Next

\* When SetSize has returned, a buffer of either history has the size that was
\* asked for, whether SetSize found it or getBuffer created it meanwhile or
\* later, and whatever other callers pushed, listed and cleared: unless
\* SetSizeByKey resized it since, the size is beyond the int32 in which the map
\* keeps it, or two size changes met.
THEOREM SizesHold == Spec => []SizesAgree
<1>1. Init => SizeInv
  <2>. SUFFICES ASSUME Init PROVE SizeInv
    OBVIOUS
  <2>1. Free.op # "SetSize"
    BY DEF Free
  <2>2. \A c \in Callers : call[c].op # "SetSize" /\ ~AboutToStore(c)
    BY <2>1 DEF Init, AboutToStore
  <2>3. \A s \in Slots : SizedFor(s)
    <3>1. CASE New
      BY <3>1 DEF New, SizedFor
    <3>2. CASE NewSharded
      <4>1. NewRingBuffer(FirstSize).cap = SizeOr(FirstSize)
        BY DEF NewRingBuffer
      <4>. QED
        BY <3>2, <4>1 DEF NewSharded, SizedFor, Init, GoodCap
    <3>. QED
      BY <3>1, <3>2 DEF Init
  <2>. QED
    BY <2>1, <2>2, <2>3 DEF SizeInv
<1>2. SizeInv => SizesAgree
  BY DEF SizeInv, SizesAgree, SizedFor, GoodCap
<1>. QED
  BY <1>1, <1>2, BaseHolds, NextSizes, PTL DEF Spec

-----------------------------------------------------------------------------
(* Batches.                                                                *)

\* Equal records of a log stand next to each other.
Together(l) == \A i, j \in 1 .. Len(l) : i < j /\ l[i] = l[j] => l[i + 1] = l[i]

In(x, l) == \E i \in 1 .. Len(l) : l[i] = x

\* Calls r that carry a record, and the shards or keys s to which the record
\* may still go.
RecOps == MapOps \cup {"BatchPush"}
Pending(r, s) == r.op \in RecOps /\ (r.op = "BatchPush" => s \in r.todo)

\* A record belongs to one call only, and as long as its call has not reached
\* a buffer the record is not in there.
RecInv ==
  /\ \A s \in Slots : \A x \in Nat : In(x, log[s]) => x \in 1 .. ops
  /\ \A c \in Callers : call[c].op \in RecOps => call[c].rec \in 1 .. ops
  /\ \A c, d \in Callers :
       c # d /\ call[c].op \in RecOps /\ call[d].op \in RecOps => call[c].rec # call[d].rec
  /\ \A c \in Callers : \A s \in Slots : Pending(call[c], s) => ~In(call[c].rec, log[s])
  /\ \A s \in Slots : Together(log[s])

\* Copies of a new record keep a log together.
LEMMA TogetherAppend ==
  ASSUME NEW l \in Seq(Nat), NEW rs \in Seq(Nat), NEW x \in Nat,
         \A i \in 1 .. Len(rs) : rs[i] = x, ~In(x, l), Together(l)
  PROVE  /\ Together(l \o rs)
         /\ \A y : In(y, l \o rs) => In(y, l) \/ y = x
<1>1. /\ Len(l) \in Nat /\ Len(rs) \in Nat /\ Len(l \o rs) = Len(l) + Len(rs)
      /\ \A i \in 1 .. Len(l) : (l \o rs)[i] = l[i]
  OBVIOUS
<1>2. ASSUME NEW i \in 1 .. Len(l) + Len(rs), i > Len(l) PROVE (l \o rs)[i] = x
  <2>1. i - Len(l) \in 1 .. Len(rs) /\ (l \o rs)[i] = rs[i - Len(l)]
    BY <1>1, <1>2
  <2>. QED
    BY <2>1
<1>. DEFINE m == l \o rs
<1>3. m = l \o rs
  OBVIOUS
<1>. HIDE DEF m
<1>4. ASSUME NEW i \in 1 .. Len(m), NEW j \in 1 .. Len(m), i < j, m[i] = m[j]
      PROVE  m[i + 1] = m[i]
  <2>1. i \in 1 .. Len(l) + Len(rs) /\ j \in 1 .. Len(l) + Len(rs)
    BY <1>1, <1>3
  <2>2. CASE j <= Len(l)
    <3>1. i \in 1 .. Len(l) /\ j \in 1 .. Len(l) /\ i + 1 \in 1 .. Len(l)
      BY <1>1, <1>4, <2>1, <2>2
    <3>2. l[i] = l[j]
      BY <1>1, <1>3, <1>4, <3>1
    <3>3. l[i + 1] = l[i]
      BY <1>4, <3>1, <3>2 DEF Together
    <3>. QED
      BY <1>1, <1>3, <3>1, <3>3
  <2>3. CASE j > Len(l) /\ i <= Len(l)
    <3>1. m[j] = x /\ i \in 1 .. Len(l)
      BY <1>1, <1>2, <1>3, <2>1, <2>3
    <3>2. l[i] = x
      BY <1>1, <1>3, <1>4, <3>1
    <3>. QED
      BY <3>1, <3>2 DEF In
  <2>4. CASE j > Len(l) /\ i > Len(l)
    <3>1. i + 1 \in 1 .. Len(l) + Len(rs) /\ i + 1 > Len(l)
      BY <1>1, <1>4, <2>1, <2>4
    <3>. QED
      BY <1>2, <1>3, <2>1, <2>4, <3>1
  <2>. QED
    BY <1>1, <2>1, <2>2, <2>3, <2>4
<1>5. ASSUME NEW y, NEW i \in 1 .. Len(m), m[i] = y PROVE In(y, l) \/ y = x
  <2>1. i \in 1 .. Len(l) + Len(rs)
    BY <1>1, <1>3
  <2>2. CASE i > Len(l)
    BY <1>2, <1>3, <1>5, <2>1, <2>2
  <2>3. CASE ~(i > Len(l))
    <3>1. i \in 1 .. Len(l)
      BY <1>1, <2>1, <2>3
    <3>2. l[i] = y
      BY <1>1, <1>3, <1>5, <3>1
    <3>. QED
      BY <3>1, <3>2 DEF In
  <2>. QED
    BY <2>2, <2>3
<1>6. Together(m) /\ \A y : In(y, m) => In(y, l) \/ y = x
  BY <1>4, <1>5 DEF Together, In
<1>. QED
  BY <1>3, <1>6

\* The record of caller c's next call, r: none, that of the call before it, or
\* the one of a call that begins.
RecFrom(c, r) ==
  r.op \in RecOps => \/ call[c].op \in RecOps /\ r.rec = call[c].rec
                     \/ ops' = ops + 1 /\ r.rec = ops + 1

\* A step of c that leaves its call at r adds nothing to the log of s ...
LogQuiet(c, r, s) ==
  /\ log'[s] = log[s] \/ log'[s] = <<>>
  /\ Pending(r, s) => \/ Pending(call[c], s) /\ r.rec = call[c].rec
                      \/ r.rec = ops + 1

\* ... or copies of its record x.
LogGrows(c, r, s, x) ==
  /\ \E rs \in Seq(Nat) : log'[s] = log[s] \o rs /\ \A i \in 1 .. Len(rs) : rs[i] = x
  /\ \/ x = ops + 1 /\ ops' = ops + 1 /\ r.op \notin RecOps
     \/ x = call[c].rec /\ Pending(call[c], s) /\ ~Pending(r, s)

LEMMA RecStep ==
  ASSUME Base, RecInv, impl' = impl, ops' \in {ops, ops + 1}, NEW c \in Callers, NEW r,
         call' = [call EXCEPT ![c] = r], RecFrom(c, r),
         \A s \in Slots : LogQuiet(c, r, s) \/ \E x \in Nat : LogGrows(c, r, s, x)
  PROVE  RecInv'
<1>0. ops \in Nat /\ ops' \in Nat /\ ops <= ops'
  BY HistoryAssumption DEF Base, ScalarInv
<1>1. call'[c] = r /\ \A d \in Callers \ {c} : call'[d] = call[d]
  BY CallAssigned DEF Base
<1>2. Slots' = Slots /\ \A s \in Slots : log[s] \in Seq(Nat)
  BY DEF Slots, Base, MemInv
<1>3. \A d \in Callers : call'[d].op \in RecOps =>
        \/ call[d].op \in RecOps /\ call'[d].rec = call[d].rec /\ call[d].rec \in 1 .. ops
        \/ d = c /\ ops' = ops + 1 /\ call'[d].rec = ops + 1
  BY <1>1 DEF RecFrom, RecInv
<1>4. \A d \in Callers : call'[d].op \in RecOps => call'[d].rec \in 1 .. ops'
  BY <1>0, <1>3
<1>5. \A d, e \in Callers : d # e /\ call'[d].op \in RecOps /\ call'[e].op \in RecOps
        => call'[d].rec # call'[e].rec
  BY <1>0, <1>3 DEF RecInv
<1>6. ~ In(ops + 1, <<>>) /\ Together(<<>>) /\ \A x : ~In(x, <<>>)
  <2>1. Len(<<>>) = 0 /\ 1 .. 0 = {}
    OBVIOUS
  <2>. QED
    BY <2>1 DEF In, Together
<1>7. ASSUME NEW s \in Slots
      PROVE  /\ \A x \in Nat : In(x, log'[s]) => x \in 1 .. ops'
             /\ \A d \in Callers : Pending(call'[d], s) => ~In(call'[d].rec, log'[s])
             /\ Together(log'[s])
  <2>1. /\ \A x \in Nat : In(x, log[s]) => x \in 1 .. ops
        /\ \A d \in Callers : Pending(call[d], s) => ~In(call[d].rec, log[s])
        /\ Together(log[s]) /\ ops + 1 \in Nat /\ ~(ops + 1 \in 1 .. ops)
    BY <1>0 DEF RecInv
  <2>2. ~In(ops + 1, log[s])
    BY <2>1
  <2>3. CASE LogQuiet(c, r, s)
    <3>1. \A x : In(x, log'[s]) => In(x, log[s])
      BY <1>6, <2>3 DEF LogQuiet
    <3>2. Together(log'[s])
      BY <1>6, <2>1, <2>3 DEF LogQuiet
    <3>3. \A x \in Nat : In(x, log'[s]) => x \in 1 .. ops'
      BY <1>0, <2>1, <3>1
    <3>4. ASSUME NEW d \in Callers, Pending(call'[d], s) PROVE ~In(call'[d].rec, log'[s])
      <4>1. CASE d = c
        BY <1>1, <2>1, <2>2, <2>3, <3>1, <3>4, <4>1 DEF LogQuiet
      <4>2. CASE d # c
        BY <1>1, <2>1, <3>1, <3>4, <4>2
      <4>. QED
        BY <4>1, <4>2
    <3>. QED
      BY <3>2, <3>3, <3>4
  <2>4. ASSUME NEW x \in Nat, LogGrows(c, r, s, x)
        PROVE  /\ \A y \in Nat : In(y, log'[s]) => y \in 1 .. ops'
               /\ \A d \in Callers : Pending(call'[d], s) => ~In(call'[d].rec, log'[s])
               /\ Together(log'[s])
    <3>1. PICK rs \in Seq(Nat) : log'[s] = log[s] \o rs /\ \A i \in 1 .. Len(rs) : rs[i] = x
      BY <2>4 DEF LogGrows
    <3>2. ~In(x, log[s]) /\ ~Pending(r, s)
      <4>1. CASE x = ops + 1 /\ r.op \notin RecOps
        BY <2>2, <4>1 DEF Pending
      <4>2. CASE x = call[c].rec /\ Pending(call[c], s) /\ ~Pending(r, s)
        BY <2>1, <4>2
      <4>. QED
        BY <2>4, <4>1, <4>2 DEF LogGrows
    <3>3. Together(log'[s]) /\ \A y : In(y, log'[s]) => In(y, log[s]) \/ y = x
      BY <1>2, <2>1, <3>1, <3>2, TogetherAppend
    <3>4. \/ x = ops + 1 /\ ops' = ops + 1
          \/ x = call[c].rec /\ call[c].op \in RecOps
      BY <2>4 DEF LogGrows, Pending
    <3>5. x \in 1 .. ops'
      <4>1. ops + 1 \in 1 .. ops + 1 /\ \A y \in 1 .. ops : y \in 1 .. ops'
        BY <1>0
      <4>2. call[c].op \in RecOps => call[c].rec \in 1 .. ops
        BY DEF RecInv
      <4>. QED
        BY <3>4, <4>1, <4>2
    <3>6. \A y \in Nat : In(y, log'[s]) => y \in 1 .. ops'
      BY <1>0, <2>1, <3>3, <3>5
    <3>7. ASSUME NEW d \in Callers, Pending(call'[d], s) PROVE ~In(call'[d].rec, log'[s])
      <4>1. d # c /\ call'[d] = call[d] /\ Pending(call[d], s) /\ call[d].op \in RecOps
        BY <1>1, <3>2, <3>7 DEF Pending
      <4>2. call[d].rec \in 1 .. ops
        BY <4>1 DEF RecInv
      <4>3. call[d].rec # x
        BY <1>0, <3>4, <4>1, <4>2 DEF RecInv
      <4>. QED
        BY <2>1, <3>3, <4>1, <4>3
    <3>. QED
      BY <3>3, <3>6, <3>7
  <2>. QED
    BY <2>3, <2>4
<1>. QED
  BY <1>2, <1>4, <1>5, <1>7 DEF RecInv

\* Steps that push nothing: logs stay or are cleared.
LogsStay == \A s \in Slots : log'[s] = log[s] \/ log'[s] = <<>>

LEMMA StayLogs ==
  ASSUME NEW S, NEW n, LooksOnly \/ ResizeTo(S, n) \/ ClearAt(S) \/ log' = log
  PROVE  LogsStay
BY DEF LogsStay, LooksOnly, ResizeTo, ClearAt

LEMMA QuietRec ==
  ASSUME Base, RecInv, impl' = impl, ops' \in {ops, ops + 1}, NEW c \in Callers, NEW r,
         call' = [call EXCEPT ![c] = r], LogsStay,
         \/ r.op \notin RecOps
         \/ ops' = ops + 1 /\ r.rec = ops + 1
         \/ /\ r.op = call[c].op /\ r.rec = call[c].rec
            /\ r.op = "BatchPush" => r.todo \subseteq call[c].todo
  PROVE  RecInv'
<1>1. RecFrom(c, r)
  BY DEF RecFrom
<1>2. \A s \in Slots : LogQuiet(c, r, s)
  BY DEF LogQuiet, LogsStay, Pending
<1>. QED
  BY <1>1, <1>2, RecStep

\* A push to slot s; the logs of the other slots stay.
LEMMA PushRec ==
  ASSUME Base, RecInv, impl' = impl, ops' \in {ops, ops + 1}, NEW c \in Callers, NEW r,
         call' = [call EXCEPT ![c] = r], NEW s \in Slots, NEW rs \in Seq(Nat), NEW x \in Nat,
         PushTo(s, rs), \A i \in 1 .. Len(rs) : rs[i] = x,
         \/ x = ops + 1 /\ ops' = ops + 1 /\ r.op \notin RecOps
         \/ /\ x = call[c].rec /\ Pending(call[c], s) /\ ~Pending(r, s)
            /\ \/ r.op \notin RecOps
               \/ /\ r.op = call[c].op /\ r.rec = call[c].rec
                  /\ r.op = "BatchPush" => r.todo \subseteq call[c].todo
  PROVE  RecInv'
<1>1. log' = [log EXCEPT ![s] = log[s] \o rs]
  BY DEF PushTo
<1>2. log'[s] = log[s] \o rs /\ \A t \in Slots \ {s} : log'[t] = log[t]
  BY <1>1 DEF Base, MemInv
<1>3. RecFrom(c, r)
  BY DEF RecFrom
<1>4. LogGrows(c, r, s, x)
  BY <1>2 DEF LogGrows
<1>5. \A t \in Slots \ {s} : LogQuiet(c, r, t)
  BY <1>2 DEF LogQuiet, Pending
<1>. QED
  BY <1>3, <1>4, <1>5, RecStep

\* A push of the record that the call at hand carries.
LEMMA OwnPushRec ==
  ASSUME Base, RecInv, UNCHANGED <<impl, ops>>, NEW c \in Callers, NEW r,
         call' = [call EXCEPT ![c] = r], NEW s \in Slots, NEW rs \in Seq(Nat),
         PushTo(s, rs), call[c].rec \in Nat, \A i \in 1 .. Len(rs) : rs[i] = call[c].rec,
         Pending(call[c], s), ~Pending(r, s),
         r.op \in RecOps => /\ r.op = call[c].op /\ r.rec = call[c].rec
                            /\ r.op = "BatchPush" => r.todo \subseteq call[c].todo
  PROVE  RecInv'
<1>1. PICK x \in Nat : x = call[c].rec
  OBVIOUS
<1>2. \A i \in 1 .. Len(rs) : rs[i] = x
  BY <1>1
<1>3. ops' \in {ops, ops + 1} /\ impl' = impl
  OBVIOUS
<1>. QED
  BY <1>1, <1>2, <1>3, PushRec

LEMMA MapRec ==
  ASSUME Base, RecInv, NEW c \in Callers, MapNext(c)
  PROVE  RecInv'
<1>. USE DEF Base
<1>0. Free.op = "none" /\ "none" \notin RecOps /\ "SetSize" \notin RecOps
  BY DEF Free, RecOps, MapOps
<1>1. ASSUME NEW k \in Keys, NEW op, NEW n, Enter(c, op, k, n) PROVE RecInv'
  <2>1. PICK r : r = [op |-> op, pc |-> "load", key |-> k, n |-> n, rec |-> ops + 1, size |-> 0]
    OBVIOUS
  <2>2. Begin(c, r) /\ log' = log
    BY <1>1, <2>1 DEF Enter
  <2>3. r.rec = ops + 1
    BY <2>1
  <2>4. impl' = impl /\ ops' = ops + 1 /\ call' = [call EXCEPT ![c] = r] /\ LogsStay
    BY <2>2 DEF Begin, LogsStay
  <2>. QED
    BY <2>3, <2>4, QuietRec
<1>2. ASSUME NEW r, r.op = call[c].op, r.rec = call[c].rec, r.op # "BatchPush",
             UNCHANGED <<impl, ops, log>>, call' = [call EXCEPT ![c] = r]
      PROVE  RecInv'
  BY <1>2, QuietRec DEF LogsStay
<1>3. CASE GetBuffer(c)
  <2>1. impl = "map" /\ call[c] # Free /\ call[c].pc = "load" /\ UNCHANGED <<impl, ops, log>>
    BY <1>3 DEF GetBuffer
  <2>2. call[c] \in MapCalls
    BY <2>1, MapCallOf
  <2>3. CASE buf[call[c].key] # None
    <3>1. call' = [call EXCEPT ![c].pc = "use"]
      BY <1>3, <2>3 DEF GetBuffer
    <3>2. PICK r : r = [call[c] EXCEPT !.pc = "use"]
      OBVIOUS
    <3>3. r.op = call[c].op /\ r.rec = call[c].rec /\ r.op # "BatchPush"
      BY <2>2, <3>2 DEF MapCalls, MapOps
    <3>. QED
      BY <1>2, <2>1, <3>1, <3>2, <3>3
  <2>4. CASE buf[call[c].key] = None
    <3>1. PICK z : z = SizeOr(maxSize)
      OBVIOUS
    <3>2. call' = [call EXCEPT ![c].pc = "store", ![c].size = z]
      BY <1>3, <2>4, <3>1 DEF GetBuffer
    <3>3. PICK r : r = [call[c] EXCEPT !.pc = "store", !.size = z]
      OBVIOUS
    <3>4. r.op = call[c].op /\ r.rec = call[c].rec /\ r.op # "BatchPush"
      BY <2>2, <3>3 DEF MapCalls, MapOps
    <3>5. call' = [call EXCEPT ![c] = r]
      BY <3>2, <3>3 DEF CallInv
    <3>. QED
      BY <1>2, <2>1, <3>4, <3>5
  <2>. QED
    BY <2>3, <2>4
<1>4. CASE GetBufferStores(c)
  <2>1. /\ impl = "map" /\ call[c] # Free /\ call[c].pc = "store" /\ UNCHANGED <<impl, ops, log>>
        /\ call' = [call EXCEPT ![c].pc = "use"]
    BY <1>4 DEF GetBufferStores
  <2>2. call[c] \in MapCalls
    BY <2>1, MapCallOf
  <2>3. PICK r : r = [call[c] EXCEPT !.pc = "use"]
    OBVIOUS
  <2>4. r.op = call[c].op /\ r.rec = call[c].rec /\ r.op # "BatchPush"
    BY <2>2, <2>3 DEF MapCalls, MapOps
  <2>. QED
    BY <1>2, <2>1, <2>3, <2>4
<1>5. ASSUME NEW op, Uses(c, op) PROVE UNCHANGED <<impl, ops>> /\ call' = [call EXCEPT ![c] = Free]
  BY <1>5 DEF Uses, Return
<1>6. ASSUME NEW op, Uses(c, op), LogsStay PROVE RecInv'
  BY <1>0, <1>5, <1>6, QuietRec
<1>7. CASE Push(c)
  <2>1. Uses(c, "Push") /\ impl = "map" /\ call[c].op = "Push" /\ call[c].pc = "use"
    BY <1>7 DEF Push, Uses
  <2>2. call[c] # Free /\ "Push" \in MapOps
    BY <1>0, <2>1 DEF MapOps
  <2>3. call[c] \in MapCalls
    BY <2>1, <2>2, MapCallOf
  <2>4. call[c].key \in Slots /\ call[c].rec \in Nat
    BY <2>1, <2>3, SlotsOf DEF MapCalls
  <2>5. \A t : Pending(call[c], t) /\ ~Pending(Free, t)
    BY <1>0, <2>1, <2>2 DEF Pending, RecOps
  <2>6. CASE PushTo(call[c].key, <<call[c].rec>>)
    <3>0. <<call[c].rec>> \in Seq(Nat)
      BY <2>4
    <3>1. PICK rs \in Seq(Nat) : rs = <<call[c].rec>>
      BY <3>0, Zenon
    <3>2. \A i \in 1 .. Len(rs) : rs[i] = call[c].rec
      BY <3>1
    <3>3. UNCHANGED <<impl, ops>> /\ call' = [call EXCEPT ![c] = Free]
      BY <1>5, <2>1
    <3>4. PushTo(call[c].key, rs) /\ Pending(call[c], call[c].key) /\ ~Pending(Free, call[c].key)
      BY <2>5, <2>6, <3>1
    <3>. HIDE DEF Base
    <3>. QED
      BY <1>0, <2>4, <3>2, <3>3, <3>4, OwnPushRec
  <2>7. CASE PushPanics(call[c].key)
    BY <1>6, <2>1, <2>7 DEF PushPanics, LogsStay
  <2>. QED
    BY <1>7, <2>6, <2>7 DEF Push
<1>8. CASE ListReturns(c) \/ SetSizeByKey(c) \/ Clear(c)
  <2>1. LogsStay
    BY <1>8, StayLogs DEF ListReturns, SetSizeByKey, Clear
  <2>. QED
    BY <1>6, <1>8, <2>1 DEF ListReturns, SetSizeByKey, Clear
<1>9. ASSUME NEW n \in Sizes, SetSize(c, n) PROVE RecInv'
  <2>1. PICK r : r = [op |-> "SetSize", pc |-> "range", n |-> n, todo |-> Keys]
    OBVIOUS
  <2>2. Begin(c, r) /\ log' = log
    BY <1>9, <2>1 DEF SetSize
  <2>3. r.op \notin RecOps
    BY <1>0, <2>1
  <2>4. impl' = impl /\ ops' = ops + 1 /\ call' = [call EXCEPT ![c] = r] /\ LogsStay
    BY <2>2 DEF Begin, LogsStay
  <2>. QED
    BY <2>3, <2>4, QuietRec
<1>10. ASSUME NEW k \in Keys, SetSizeVisits(c, k) PROVE RecInv'
  <2>1. /\ impl = "map" /\ UNCHANGED <<impl, ops>> /\ call[c].op = "SetSize"
        /\ call' = [call EXCEPT ![c].todo = @ \ {k}]
    BY <1>10 DEF SetSizeVisits
  <2>2. call[c] \in RangeCalls
    BY <2>1, RangeCallOf
  <2>3. PICK r : r = [call[c] EXCEPT !.todo = @ \ {k}]
    OBVIOUS
  <2>4. r.op = "SetSize"
    BY <2>2, <2>3 DEF RangeCalls
  <2>5. LogsStay
    BY <1>10, StayLogs DEF SetSizeVisits
  <2>6. call' = [call EXCEPT ![c] = r]
    BY <2>1, <2>3
  <2>. QED
    BY <1>0, <2>1, <2>4, <2>5, <2>6, QuietRec
<1>. QED
  BY <1>1, <1>3, <1>4, <1>7, <1>8, <1>9, <1>10 DEF MapNext

LEMMA ShardedRec ==
  ASSUME Base, RecInv, NEW c \in Callers, ShardedNext(c)
  PROVE  RecInv'
<1>. USE DEF Base
<1>0. /\ Free.op = "none" /\ "none" \notin RecOps
      /\ \A op \in {"SetSize", "ClearAll", "CountAll"} : op \notin RecOps
  BY DEF Free, RecOps, MapOps
<1>1. ASSUME NEW r, Begin(c, r)
      PROVE  impl' = impl /\ ops' = ops + 1 /\ call' = [call EXCEPT ![c] = r]
  BY <1>1 DEF Begin
<1>2. ASSUME NEW k \in Keys, ShardedPush(c, k) PROVE RecInv'
  <2>1. impl = "sharded" /\ Begin(c, Free) /\ PushTo(Shard[k], <<ops + 1>>)
    BY <1>2 DEF ShardedPush
  <2>2. ops + 1 \in Nat
    BY HistoryAssumption DEF ScalarInv
  <2>3. <<ops + 1>> \in Seq(Nat) /\ Shard[k] \in Slots
    BY <2>1, <2>2, SlotsOf
  <2>4. PICK rs \in Seq(Nat) : rs = <<ops + 1>>
    BY <2>3, Zenon
  <2>5. \A i \in 1 .. Len(rs) : rs[i] = ops + 1
    BY <2>4
  <2>6. PushTo(Shard[k], rs)
    BY <2>1, <2>4
  <2>7. impl' = impl /\ ops' = ops + 1 /\ call' = [call EXCEPT ![c] = Free]
    BY <1>1, <2>1
  <2>. HIDE DEF Base
  <2>. QED
    BY <1>0, <2>2, <2>3, <2>5, <2>6, <2>7, PushRec
<1>3. ASSUME NEW k \in Keys, ShardedClear(c, k) PROVE RecInv'
  <2>1. Begin(c, Free) /\ LogsStay
    BY <1>3, StayLogs DEF ShardedClear
  <2>. QED
    BY <1>0, <1>1, <2>1, QuietRec
<1>4. ASSUME NEW k \in Keys, ShardedPushPanics(c, k) PROVE RecInv'
  <2>1. UNCHANGED <<impl, call, log>> /\ ops' = ops + 1 /\ call[c] = Free
    BY <1>4 DEF ShardedPushPanics, PushPanics
  <2>2. call' = [call EXCEPT ![c] = Free]
    BY <2>1 DEF CallInv
  <2>. QED
    BY <1>0, <2>1, <2>2, QuietRec DEF LogsStay
<1>5. ASSUME NEW ks, BatchPush(c, ks) PROVE RecInv'
  <2>1. PICK r : r = [op |-> "BatchPush", rec |-> ops + 1, keys |-> ks,
                      todo |-> {Shard[ks[i]] : i \in DOMAIN ks}]
    OBVIOUS
  <2>2. r.rec = ops + 1
    BY <2>1
  <2>3. Begin(c, r) /\ LogsStay
    BY <1>5, <2>1 DEF BatchPush, LogsStay
  <2>4. impl' = impl /\ ops' = ops + 1 /\ call' = [call EXCEPT ![c] = r]
    BY <1>1, <2>3
  <2>. QED
    BY <2>2, <2>3, <2>4, QuietRec
<1>6. ASSUME NEW op \in {"SetSize", "ClearAll", "CountAll"}, NEW n,
             Begin(c, [op |-> op, n |-> n, todo |-> Shards]), log' = log
      PROVE  RecInv'
  <2>1. PICK r : r = [op |-> op, n |-> n, todo |-> Shards]
    OBVIOUS
  <2>2. r.op \notin RecOps
    BY <1>0, <2>1
  <2>3. impl' = impl /\ ops' = ops + 1 /\ call' = [call EXCEPT ![c] = r] /\ LogsStay
    BY <1>1, <1>6, <2>1 DEF LogsStay
  <2>. QED
    BY <2>2, <2>3, QuietRec
<1>7. ASSUME NEW n \in Sizes, ShardedSetSize(c, n) PROVE RecInv'
  BY <1>6, <1>7 DEF ShardedSetSize
<1>8. CASE ClearAll(c) \/ CountAll(c)
  BY <1>6, <1>8 DEF ClearAll, CountAll
<1>9. ASSUME NEW s \in Shards, BatchPushShard(c, s) PROVE RecInv'
  <2>1. /\ impl = "sharded" /\ UNCHANGED <<impl, ops>> /\ call[c].op = "BatchPush"
        /\ s \in call[c].todo
        /\ PushTo(s, Group(c, s)) /\ call' = [call EXCEPT ![c].todo = @ \ {s}]
    BY <1>9 DEF BatchPushShard
  <2>2. call[c] \in BatchCalls /\ s \in Slots
    BY <2>1, ShardedCallOf, SlotsOf
  <2>3. PICK rs \in Seq(Nat) : rs = Group(c, s)
    BY <2>2, GroupSeq
  <2>4. \A i \in 1 .. Len(rs) : rs[i] = call[c].rec
    BY <2>2, <2>3, GroupSeq
  <2>5. PICK r : r = [call[c] EXCEPT !.todo = @ \ {s}]
    OBVIOUS
  <2>6. /\ r.op = "BatchPush" /\ r.rec = call[c].rec /\ r.todo = call[c].todo \ {s}
        /\ call[c].rec \in Nat
    BY <2>2, <2>5 DEF BatchCalls
  <2>7. call' = [call EXCEPT ![c] = r]
    BY <2>1, <2>5
  <2>8. Pending(call[c], s) /\ ~Pending(r, s) /\ r.todo \subseteq call[c].todo /\ PushTo(s, rs)
    BY <2>1, <2>3, <2>6 DEF Pending, RecOps
  <2>. HIDE DEF Base
  <2>. QED
    BY <2>1, <2>2, <2>4, <2>6, <2>7, <2>8, OwnPushRec
<1>10. ASSUME NEW s \in Shards, BatchPushPanics(c, s) PROVE RecInv'
  <2>1. UNCHANGED <<impl, ops, log>> /\ call' = [call EXCEPT ![c] = Free]
    BY <1>10 DEF BatchPushPanics, PushPanics, Return
  <2>. QED
    BY <1>0, <2>1, QuietRec DEF LogsStay
<1>11. ASSUME NEW op \in {"SetSize", "ClearAll", "CountAll"}, InLoop(c, op), LogsStay PROVE RecInv'
  <2>1. PICK T, n : /\ T = call[c].todo \ {NextShard(c)}
                    /\ n = IF op = "CountAll" THEN call[c].n + Count(NextShard(c)) ELSE call[c].n
    OBVIOUS
  <2>2. /\ impl = "sharded" /\ UNCHANGED <<impl, ops>> /\ call[c].op = op
        /\ call' = [call EXCEPT ![c].todo = T, ![c].n = n]
    BY <1>11, <2>1 DEF InLoop
  <2>3. PICK r : r = [call[c] EXCEPT !.todo = T, !.n = n]
    OBVIOUS
  <2>4. call' = [call EXCEPT ![c] = r]
    BY <2>2, <2>3 DEF CallInv
  <2>5. call[c] \in SizeCalls \/ call[c] \in ClearCalls \/ Counting(call[c])
    BY <2>2, ShardedCallOf
  <2>6. r.op = op
    BY <2>2, <2>3, <2>5 DEF SizeCalls, ClearCalls, Counting
  <2>. QED
    BY <1>0, <1>11, <2>2, <2>4, <2>6, QuietRec
<1>12. CASE SetSizeShard(c) \/ ClearShard(c) \/ CountShard(c)
  <2>1. LogsStay
    BY <1>12, StayLogs DEF SetSizeShard, ClearShard, CountShard
  <2>. QED
    BY <1>11, <1>12, <2>1 DEF SetSizeShard, ClearShard, CountShard
<1>. QED
  BY <1>2, <1>3, <1>4, <1>5, <1>7, <1>8, <1>9, <1>10, <1>12 DEF ShardedNext

LEMMA NextRec == Base /\ RecInv /\ [Next]_vars => RecInv'
<1>. SUFFICES ASSUME Base, RecInv, [Next]_vars PROVE RecInv'
  OBVIOUS
<1>1. ASSUME NEW c \in Callers, LoopReturns(c) PROVE RecInv'
  <2>1. UNCHANGED <<impl, ops, log>> /\ call' = [call EXCEPT ![c] = Free]
    BY <1>1 DEF LoopReturns, LooksOnly, Return
  <2>2. Free.op \notin RecOps
    BY DEF Free, RecOps, MapOps
  <2>. QED
    BY <2>1, <2>2, QuietRec DEF LogsStay
<1>2. CASE UNCHANGED vars
  BY <1>2 DEF vars, RecInv, Slots
<1>. QED
  BY <1>1, <1>2, MapRec, ShardedRec DEF Next

\* The records that one BatchPush brings to a shard stay next to each other,
\* whatever the other callers push at the same time: the group is stored under
\* one hold of the shard's lock, and no other call carries the same record.
THEOREM BatchesHold == Spec => []BatchTogether
<1>1. Init => RecInv
  <2>. SUFFICES ASSUME Init PROVE RecInv
    OBVIOUS
  <2>1. Free.op \notin RecOps
    BY DEF Free, RecOps, MapOps
  <2>2. \A c \in Callers : call[c].op \notin RecOps
    BY <2>1 DEF Init
  <2>3. Together(<<>>) /\ \A x : ~In(x, <<>>)
    <3>1. Len(<<>>) = 0 /\ 1 .. 0 = {}
      OBVIOUS
    <3>. QED
      BY <3>1 DEF In, Together
  <2>4. \A s \in Slots : log[s] = <<>>
    BY DEF Init
  <2>. QED
    BY <2>2, <2>3, <2>4 DEF RecInv, Pending
<1>2. Base /\ RecInv => BatchTogether
  <2>. SUFFICES ASSUME Base, RecInv, NEW s \in Slots PROVE
         \A i, j \in DOMAIN log[s] : i < j /\ log[s][i] = log[s][j] => log[s][i + 1] = log[s][i]
    BY DEF BatchTogether
  <2>1. log[s] \in Seq(Nat) /\ Together(log[s])
    BY DEF Base, MemInv, RecInv
  <2>2. DOMAIN log[s] = 1 .. Len(log[s])
    BY <2>1
  <2>. QED
    BY <2>1, <2>2 DEF Together
<1>. QED
  BY <1>1, <1>2, BaseHolds, NextRec, PTL DEF Spec
=============================================================================
