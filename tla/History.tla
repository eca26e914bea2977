------------------------------- MODULE History -------------------------------
(***************************************************************************)
(* The two keyed histories of push/history.  History keeps a sync.Map from *)
(* key to ring buffer and creates buffers on first use: getBuffer reads    *)
(* the size and stores the buffer in separate steps.  ShardedHistory keeps *)
(* a fixed array of buffers, shared by the keys that hash to them, each    *)
(* under a lock of its own.  impl says which one runs.                     *)
(*                                                                         *)
(* A buffer is a bounded history (RingBuffer refines BoundedHistory) with  *)
(* one blemish of the code: after a Resize that exactly fills the new      *)
(* array (brink) the next Push panics.  The panic passes a ShardedHistory  *)
(* without unlocking the shard.                                            *)
(***************************************************************************)
EXTENDS Integers, Sequences, SequencesExt, FiniteSets

CONSTANTS
  Keys,          \* keys of records
  Empty,         \* the key ""
  Shard,         \* Shard[k]: the shard that fnv32 assigns to k
  Callers,       \* goroutines that use the history
  Sizes,         \* arguments of SetSize and SetSizeByKey
  FirstSize,     \* argument of New
  DefaultSize,   \* stands for the code's 1024
  Half,          \* stands for 2^31: sizes are kept in an int32
  MaxOps,        \* bound on the calls made
  None

ASSUME HistoryAssumption ==
  /\ Empty \in Keys
  /\ Sizes \subseteq Nat \ {0}
  /\ FirstSize \in Nat /\ DefaultSize \in Nat \ {0} /\ MaxOps \in Nat
  /\ Half \in Nat \ {0}

\* A ring buffer: its contents, oldest first, its size, and whether tail is one
\* past the end.
Buffers == [items : Seq(Nat), cap : Nat \ {0}, brink : BOOLEAN]

ASSUME NoneAssumption == None \notin Buffers

VARIABLES
  impl,          \* "map": History, "sharded": ShardedHistory
  maxSize,       \* the size for new buffers, an atomic.Int32
  buf,           \* the buffers, by key or by shard
  call,          \* call[c]: what caller c is doing
  ops,           \* calls made; the n-th call pushes record n
  stuck,         \* shards whose lock a panic has left locked
  log, low,      \* history, by buffer since it was created or cleared: the
                 \* records pushed and the smallest capacity
  asked,         \* history: the argument that maxSize was stored from last
  raced,         \* history: a SetSize began during another one, or while a caller
                 \* had read the size for a buffer and not stored it
  own            \* history: keys that SetSizeByKey has resized since

vars == <<impl, maxSize, buf, call, ops, stuck, log, low, asked, raced, own>>
sizes == <<maxSize, asked>>
marks == <<raced, own>>

Free == [op |-> "none"]

Shards == {Shard[k] : k \in Keys}

Slots == IF impl = "map" THEN Keys ELSE Shards

-----------------------------------------------------------------------------
(* One buffer. *)

\* int32(n)
Int32(n) == LET m == n % (2 * Half) IN IF m < Half THEN m ELSE m - 2 * Half

SizeOr(n) == IF n > 0 THEN n ELSE DefaultSize

NewRingBuffer(n) == [items |-> <<>>, cap |-> SizeOr(n), brink |-> FALSE]

\* The last n elements of s, all of them if there are fewer.
LastOf(s, n) == IF Len(s) <= n THEN s ELSE SubSeq(s, Len(s) - n + 1, Len(s))

Pushed(b, rs) == [b EXCEPT !.items = LastOf(@ \o rs, b.cap)]

Resized(b, n) ==
  IF n = b.cap THEN b
  ELSE LET kept == LastOf(b.items, n)
       IN  [items |-> kept, cap |-> n, brink |-> Len(kept) = n]

Emptied(b) == [items |-> <<>>, cap |-> b.cap, brink |-> FALSE]

\* What a caller sees: everything for n = 0, otherwise the newest n.
List(s, n) == IF n = 0 THEN buf[s].items ELSE LastOf(buf[s].items, n)

Count(s) == Len(List(s, 0))

-----------------------------------------------------------------------------
(* Operations on the buffer at slot s.  They change the history variables  *)
(* along with it; a push at the brink panics and writes nothing.           *)

PushTo(s, rs) ==
  /\ ~buf[s].brink
  /\ buf' = [buf EXCEPT ![s] = Pushed(@, rs)]
  /\ log' = [log EXCEPT ![s] = @ \o rs]
  /\ UNCHANGED low

PushPanics(s) == buf[s].brink /\ UNCHANGED <<buf, log, low>>

ResizeTo(S, n) ==
  /\ buf' = [s \in Slots |-> IF s \in S THEN Resized(buf[s], n) ELSE buf[s]]
  /\ low' = [s \in Slots |-> IF s \in S /\ n < low[s] THEN n ELSE low[s]]
  /\ UNCHANGED log

ClearAt(S) ==
  /\ buf' = [s \in Slots |-> IF s \in S THEN Emptied(buf[s]) ELSE buf[s]]
  /\ log' = [s \in Slots |-> IF s \in S THEN <<>> ELSE log[s]]
  /\ low' = [s \in Slots |-> IF s \in S THEN buf[s].cap ELSE low[s]]

LooksOnly == UNCHANGED <<buf, log, low>>

-----------------------------------------------------------------------------
(* Calls. *)

Return(c) == call' = [call EXCEPT ![c] = Free]

\* Caller d sets all sizes, or has read the size for a buffer it will store.
Sizing(d) == call[d].op = "SetSize" \/ (impl = "map" /\ call[d] # Free /\ call[d].pc = "store")

\* A call begins; the record it pushes is its number.
Begin(c, r) ==
  /\ call[c] = Free
  /\ ops < MaxOps /\ ops' = ops + 1
  /\ call' = [call EXCEPT ![c] = r]
  /\ raced' = (raced \/ (r.op = "SetSize" /\ \E d \in Callers : Sizing(d)))
  /\ UNCHANGED <<impl, stuck, own>>

-----------------------------------------------------------------------------
(* History. *)

\* Push, List, SetSizeByKey and Clear begin with getBuffer; the last two
\* ignore the empty key.
Enter(c, op, k, n) ==
  /\ impl = "map"
  /\ op \in {"SetSizeByKey", "Clear"} => k # Empty
  /\ Begin(c, [op |-> op, pc |-> "load", key |-> k, n |-> n, rec |-> ops + 1, size |-> 0])
  /\ UNCHANGED <<sizes, buf, log, low>>

\* getBuffer finds the buffer, or reads the size for a new one ...
GetBuffer(c) ==
  /\ impl = "map" /\ call[c] # Free
  /\ call[c].pc = "load"
  /\ IF buf[call[c].key] # None
     THEN call' = [call EXCEPT ![c].pc = "use"]
     ELSE call' = [call EXCEPT ![c].pc = "store", ![c].size = SizeOr(maxSize)]
  /\ UNCHANGED <<impl, sizes, buf, ops, stuck, log, low, marks>>

\* Mutant of GetBufferStores: Store instead of LoadOrStore.
GetBufferOverwrites(c) ==
  /\ impl = "map" /\ call[c] # Free
  /\ call[c].pc = "store"
  /\ buf' = [buf EXCEPT ![call[c].key] = NewRingBuffer(call[c].size)]
  /\ low' = [low EXCEPT ![call[c].key] = call[c].size]
  /\ call' = [call EXCEPT ![c].pc = "use"]
  /\ UNCHANGED <<impl, sizes, ops, stuck, log, marks>>

\* ... and stores it, unless another caller has stored one meanwhile.
GetBufferStores(c) ==
  /\ impl = "map" /\ call[c] # Free
  /\ call[c].pc = "store"
  /\ IF buf[call[c].key] # None
     THEN UNCHANGED <<buf, low>>
     ELSE /\ buf' = [buf EXCEPT ![call[c].key] = NewRingBuffer(call[c].size)]
          /\ low' = [low EXCEPT ![call[c].key] = call[c].size]
  /\ call' = [call EXCEPT ![c].pc = "use"]
  /\ UNCHANGED <<impl, sizes, ops, stuck, log, marks>>

\* With the buffer in hand.
Uses(c, op) ==
  /\ impl = "map" /\ call[c].op = op
  /\ call[c].pc = "use"
  /\ Return(c)
  /\ UNCHANGED <<impl, sizes, ops, stuck, raced>>

Push(c) ==
  /\ Uses(c, "Push")
  /\ PushTo(call[c].key, <<call[c].rec>>) \/ PushPanics(call[c].key)
  /\ UNCHANGED own
ListReturns(c) == Uses(c, "List") /\ LooksOnly /\ UNCHANGED own
SetSizeByKey(c) ==
  /\ Uses(c, "SetSizeByKey")
  /\ ResizeTo({call[c].key}, call[c].n)
  /\ own' = own \cup {call[c].key}
Clear(c) == Uses(c, "Clear") /\ ClearAt({call[c].key}) /\ UNCHANGED own

\* Mutant of SetSize: the size for new buffers is forgotten.
SetSizeForgets(c, n) ==
  /\ impl = "map"
  /\ Begin(c, [op |-> "SetSize", pc |-> "range", n |-> n, todo |-> Keys])
  /\ asked' = n
  /\ UNCHANGED <<maxSize, buf, log, low>>

\* SetSize stores the size for new buffers, an int32, then visits the old ones.
SetSize(c, n) ==
  /\ impl = "map"
  /\ Begin(c, [op |-> "SetSize", pc |-> "range", n |-> n, todo |-> Keys])
  /\ maxSize' = Int32(n) /\ asked' = n
  /\ UNCHANGED <<buf, log, low>>

SetSizeVisits(c, k) ==
  /\ impl = "map" /\ call[c].op = "SetSize"
  /\ k \in call[c].todo
  /\ IF buf[k] # None
     THEN ResizeTo({k}, call[c].n) /\ own' = own \ {k}
     ELSE LooksOnly /\ UNCHANGED own
  /\ call' = [call EXCEPT ![c].todo = @ \ {k}]
  /\ UNCHANGED <<impl, sizes, ops, stuck, raced>>

-----------------------------------------------------------------------------
(* ShardedHistory. *)

\* getShard: no shard for the empty key; a shard whose lock is held for ever
\* blocks the caller.
Locks(k) == k # Empty /\ Shard[k] \notin stuck

\* Push and Clear of one key, under the lock of its shard.
ShardedPush(c, k) ==
  /\ impl = "sharded" /\ Locks(k)
  /\ Begin(c, Free)
  /\ PushTo(Shard[k], <<ops + 1>>)
  /\ UNCHANGED sizes

\* The panic leaves between Lock and Unlock.
ShardedPushPanics(c, k) ==
  /\ impl = "sharded" /\ Locks(k)
  /\ call[c] = Free /\ ops < MaxOps /\ ops' = ops + 1
  /\ PushPanics(Shard[k])
  /\ stuck' = stuck \cup {Shard[k]}
  /\ UNCHANGED <<impl, sizes, call, marks>>

ShardedClear(c, k) ==
  /\ impl = "sharded" /\ Locks(k)
  /\ Begin(c, Free)
  /\ ClearAt({Shard[k]})
  /\ UNCHANGED sizes

\* BatchPush groups the records by shard, in their order and without looking
\* for empty keys, and then pushes group after group in any order.
BatchPush(c, ks) ==
  /\ impl = "sharded"
  /\ Begin(c, [op |-> "BatchPush", rec |-> ops + 1, keys |-> ks, todo |-> {Shard[ks[i]] : i \in DOMAIN ks}])
  /\ UNCHANGED <<sizes, buf, log, low>>

\* The records of a batch that belong to shard s.
Group(c, s) ==
  [i \in 1..Cardinality({j \in DOMAIN call[c].keys : Shard[call[c].keys[j]] = s}) |-> call[c].rec]

\* Mutant of BatchPushShard: the lock is taken for every record.
BatchPushOneByOne(c, s) ==
  /\ impl = "sharded" /\ call[c].op = "BatchPush"
  /\ s \in call[c].todo \ stuck
  /\ PushTo(s, <<call[c].rec>>)
  /\ call' = IF Len(Group(c, s)) = 1
             THEN [call EXCEPT ![c].todo = @ \ {s}]
             ELSE [call EXCEPT ![c].keys = RemoveAt(@, CHOOSE i \in DOMAIN @ : Shard[@[i]] = s)]
  /\ UNCHANGED <<impl, sizes, ops, stuck, marks>>

BatchPushShard(c, s) ==
  /\ impl = "sharded" /\ call[c].op = "BatchPush"
  /\ s \in call[c].todo \ stuck
  /\ PushTo(s, Group(c, s))
  /\ call' = [call EXCEPT ![c].todo = @ \ {s}]
  /\ UNCHANGED <<impl, sizes, ops, stuck, marks>>

BatchPushPanics(c, s) ==
  /\ impl = "sharded" /\ call[c].op = "BatchPush"
  /\ s \in call[c].todo \ stuck
  /\ PushPanics(s)
  /\ stuck' = stuck \cup {s}
  /\ Return(c)
  /\ UNCHANGED <<impl, sizes, ops, marks>>

\* SetSize, ClearAll and CountAll take the locks one after the other.
ShardedSetSize(c, n) ==
  /\ impl = "sharded"
  /\ Begin(c, [op |-> "SetSize", n |-> n, todo |-> Shards])
  /\ maxSize' = Int32(n) /\ asked' = n
  /\ UNCHANGED <<buf, log, low>>

ClearAll(c) ==
  /\ impl = "sharded"
  /\ Begin(c, [op |-> "ClearAll", n |-> 0, todo |-> Shards])
  /\ UNCHANGED <<sizes, buf, log, low>>

CountAll(c) ==
  /\ impl = "sharded"
  /\ Begin(c, [op |-> "CountAll", n |-> 0, todo |-> Shards])
  /\ UNCHANGED <<sizes, buf, log, low>>

NextShard(c) == CHOOSE s \in call[c].todo : \A t \in call[c].todo : s <= t

InLoop(c, op) ==
  /\ impl = "sharded" /\ call[c].op = op
  /\ call[c].todo # {}
  /\ NextShard(c) \notin stuck
  /\ call' = [call EXCEPT ![c].todo = @ \ {NextShard(c)},
                          ![c].n = IF op = "CountAll" THEN @ + Count(NextShard(c)) ELSE @]
  /\ UNCHANGED <<impl, sizes, ops, stuck, marks>>

SetSizeShard(c) == InLoop(c, "SetSize") /\ ResizeTo({NextShard(c)}, call[c].n)
ClearShard(c) == InLoop(c, "ClearAll") /\ ClearAt({NextShard(c)})
CountShard(c) == InLoop(c, "CountAll") /\ LooksOnly

\* The loops over keys or shards end.
LoopReturns(c) ==
  /\ call[c].op \in {"SetSize", "BatchPush", "ClearAll", "CountAll"}
  /\ call[c].todo = {}
  /\ Return(c) /\ LooksOnly
  /\ UNCHANGED <<impl, sizes, ops, stuck, marks>>

-----------------------------------------------------------------------------

New ==
  /\ impl = "map"
  /\ buf = [s \in Slots |-> None]
  /\ low = [s \in Slots |-> 0]

NewSharded ==
  /\ impl = "sharded"
  /\ buf = [s \in Slots |-> NewRingBuffer(FirstSize)]
  /\ low = [s \in Slots |-> SizeOr(FirstSize)]

Init ==
  /\ New \/ NewSharded
  /\ maxSize = Int32(FirstSize) /\ asked = FirstSize
  /\ log = [s \in Slots |-> <<>>]
  /\ call = [c \in Callers |-> Free]
  /\ ops = 0 /\ stuck = {} /\ raced = FALSE /\ own = {}

\* Two records, of which a batch consists.
Pairs == {<<j, k>> : j, k \in Keys}

MapNext(c) ==
  \/ \E k \in Keys :
       \/ \E op \in {"Push", "List", "Clear"} : Enter(c, op, k, 0)
       \/ \E n \in Sizes : Enter(c, "SetSizeByKey", k, n)
       \/ SetSizeVisits(c, k)
  \/ GetBuffer(c) \/ GetBufferStores(c)
  \/ Push(c) \/ ListReturns(c) \/ SetSizeByKey(c) \/ Clear(c)
  \/ \E n \in Sizes : SetSize(c, n)

ShardedNext(c) ==
  \/ \E k \in Keys : ShardedPush(c, k) \/ ShardedPushPanics(c, k) \/ ShardedClear(c, k)
  \/ \E ks \in Pairs : BatchPush(c, ks)
  \/ \E s \in Shards : BatchPushShard(c, s) \/ BatchPushPanics(c, s)
  \/ \E n \in Sizes : ShardedSetSize(c, n)
  \/ ClearAll(c) \/ CountAll(c)
  \/ SetSizeShard(c) \/ ClearShard(c) \/ CountShard(c)

Next == \E c \in Callers : MapNext(c) \/ ShardedNext(c) \/ LoopReturns(c)

Spec == Init /\ [][Next]_vars

-----------------------------------------------------------------------------

\* Types.
TypeOK ==
  /\ impl \in {"map", "sharded"} /\ maxSize \in Int /\ asked \in Nat
  /\ buf \in [Slots -> Buffers \cup {None}]
  /\ \A s \in Slots : buf[s] = None \/ Len(buf[s].items) <= buf[s].cap
  /\ log \in [Slots -> Seq(Nat)] /\ low \in [Slots -> Nat]
  /\ stuck \subseteq Slots
  /\ ops \in 0..MaxOps /\ raced \in BOOLEAN /\ own \subseteq Slots

\* A buffer holds the newest records pushed to it since it was last cleared,
\* in the order of the pushes, and never fewer than its smallest capacity
\* allows, also when several callers create, resize and clear it at once: no
\* push goes to a buffer that the map does not keep.
KeptIsRecent ==
  /\ TypeOK
  /\ \A s \in Slots :
       IF buf[s] = None THEN log[s] = <<>>
       ELSE /\ IsSuffix(buf[s].items, log[s])
            /\ Len(buf[s].items) = Len(log[s]) \/ Len(buf[s].items) >= low[s]

\* After SetSize every buffer has the size that was asked for, also one that
\* other callers create, clear or fill while SetSize goes through the buffers,
\* or later; except that the map gives new buffers the int32 of a size beyond
\* 2^31, and that a SetSize may begin during another one, or between the two
\* steps in which a buffer is created (raced).  SetSizeByKey gives a size of
\* its own until the next SetSize.
SizesAgree ==
  ~raced /\ (\A c \in Callers : call[c].op # "SetSize") =>
    \A s \in Slots \ own : buf[s] # None =>
      \/ buf[s].cap = SizeOr(asked)
      \/ impl = "map" /\ asked >= Half /\ buf[s].cap = SizeOr(Int32(asked))

\* What the comments of SetSize say: it "Updates maxSize config for new buffer
\* creation" and "Affects all buffers".  The code breaks it in both cases that
\* SizesAgree excepts.
AllResized ==
  (\A c \in Callers : call[c] = Free) =>
    \A s \in Slots \ own : buf[s] # None => buf[s].cap = SizeOr(asked)

\* The records of one BatchPush that share a shard are stored next to each
\* other: no push of another caller falls between them.
BatchTogether ==
  \A s \in Slots : \A i, j \in DOMAIN log[s] :
    i < j /\ log[s][i] = log[s][j] => log[s][i + 1] = log[s][i]
=============================================================================
