------------------------------- MODULE Metrics -------------------------------
(***************************************************************************)
(* The two metric collectors of push/metrics.  Metrics keeps a sync.Map    *)
(* from name to *metric: an operation first loads the pointer and then     *)
(* locks the metric it found, so that a Register in between leaves it with *)
(* a metric the map no longer knows.  ShardedMetrics keeps one map and one *)
(* lock per shard: an operation on a name is atomic, an operation on all   *)
(* metrics locks one shard after the other.  impl says which one runs.     *)
(* Counters are small integers instead of float64.                         *)
(***************************************************************************)
EXTENDS Integers, Sequences, FiniteSets

CONSTANTS
  Names,          \* metric names
  Shard,          \* Shard[n]: the shard that fnv32 assigns to n
  Callers,        \* goroutines that use the collector
  MaxOps,         \* bound on the calls made
  InitVal, Step, MinVal, MaxVal,   \* arguments of every Register
  Values,         \* arguments of Set
  Deltas          \* arguments of IncBy

ASSUME MetricsAssumption ==
  /\ MaxOps \in Nat
  /\ {InitVal, Step, MinVal, MaxVal} \cup Values \cup Deltas \subseteq Int
  /\ MinVal <= InitVal /\ InitVal <= MaxVal

VARIABLES
  impl,           \* "map": Metrics, "sharded": ShardedMetrics
  heap,           \* the metrics allocated so far; a pointer is an index
  metricOf,       \* metricOf[n]: the metric registered for n, 0: none
  call,           \* call[c]: what caller c is doing
  ops,            \* calls made
  changed, told   \* history, per name since it was reset: the changes that
                  \* updates made, and the deltas that Flush returned

metricsVars == <<impl, heap, metricOf, call, ops, changed, told>>

UpdateOps == {"Set", "Inc", "Dec", "IncBy"}
RangeOps == {"Flush", "FlushAndReset", "Snapshot", "Clear", "Count", "Keys"}

\* A caller between two calls.
Free == [op |-> "none"]

Registered == {n \in Names : metricOf[n] # 0}

Shards == {Shard[n] : n \in Names}

-----------------------------------------------------------------------------
(* One metric. *)

NewMetric(n) == [name |-> n, accum |-> InitVal, sent |-> InitVal]

Least(a, b) == IF a < b THEN a ELSE b
Greatest(a, b) == IF a > b THEN a ELSE b

\* The value an update gives to accum: Set is not clamped at all, IncBy only
\* from above, whatever the sign of its argument.
Updated(op, m, v) ==
  CASE op = "Set"   -> v
    [] op = "Inc"   -> Least(m.accum + Step, MaxVal)
    [] op = "Dec"   -> Greatest(m.accum - Step, MinVal)
    [] op = "IncBy" -> Least(m.accum + v, MaxVal)

Update(o, op, v) ==
  /\ heap' = [heap EXCEPT ![o].accum = Updated(op, heap[o], v)]
  /\ changed' = [changed EXCEPT ![heap[o].name] = @ + heap'[o].accum - heap[o].accum]
  /\ UNCHANGED told

Delta(o) == heap[o].accum - heap[o].sent

\* The metrics of O that are called n.
Called(O, n) == {o \in O : heap[o].name = n}

\* What an operation on all metrics does to the set O of metrics it holds
\* locked, one for a name: report and mark as sent, go back to the initial
\* value, or look.
Mark(O) ==
  /\ heap' = [o \in DOMAIN heap |-> IF o \in O THEN [heap[o] EXCEPT !.sent = heap[o].accum] ELSE heap[o]]
  /\ told' = [n \in Names |-> IF Called(O, n) # {} THEN told[n] + Delta(CHOOSE o \in Called(O, n) : TRUE)
                              ELSE told[n]]
  /\ UNCHANGED changed

\* Mutant of ResetTo: the value goes back, the mark of what was sent does not.
ResetKeepsSent(O) ==
  /\ heap' = [o \in DOMAIN heap |-> IF o \in O THEN [heap[o] EXCEPT !.accum = InitVal] ELSE heap[o]]
  /\ changed' = [n \in Names |-> IF Called(O, n) # {} THEN 0 ELSE changed[n]]
  /\ told' = [n \in Names |-> IF Called(O, n) # {} THEN 0 ELSE told[n]]

ResetTo(O) ==
  /\ heap' = [o \in DOMAIN heap |-> IF o \in O THEN NewMetric(heap[o].name) ELSE heap[o]]
  /\ changed' = [n \in Names |-> IF Called(O, n) # {} THEN 0 ELSE changed[n]]
  /\ told' = [n \in Names |-> IF Called(O, n) # {} THEN 0 ELSE told[n]]

Look == UNCHANGED <<heap, changed, told>>

-----------------------------------------------------------------------------
(* Calls. *)

Starts(c) == call[c] = Free /\ ops < MaxOps /\ ops' = ops + 1

Return(c) == call' = [call EXCEPT ![c] = Free]

\* Register stores a new metric, whether or not the name has one already.
Register(n) ==
  /\ heap' = Append(heap, NewMetric(n))
  /\ metricOf' = [metricOf EXCEPT ![n] = Len(heap')]
  /\ UNCHANGED <<changed, told>>

\* Metrics.Register: one Store of the sync.Map.
MapRegister(c, n) ==
  /\ impl = "map" /\ Starts(c) /\ Register(n) /\ UNCHANGED <<impl, call>>

\* An update of a name: the Load, which does nothing more if it is unknown ...
Load(c, op, n) ==
  /\ impl = "map" /\ Starts(c)
  /\ metricOf[n] # 0
  /\ call' = [call EXCEPT ![c] = [op |-> op, obj |-> metricOf[n]]]
  /\ UNCHANGED <<impl, heap, metricOf, changed, told>>

\* ... and the change under the lock of the metric that was found.
Locked(c, op, v) ==
  /\ impl = "map"
  /\ call[c].op = op
  /\ Update(call[c].obj, op, v)
  /\ Return(c) /\ UNCHANGED <<impl, metricOf, ops>>

Set(c, v) == Locked(c, "Set", v)
Inc(c) == Locked(c, "Inc", 0)
Dec(c) == Locked(c, "Dec", 0)
IncBy(c, v) == Locked(c, "IncBy", v)

\* The readers return accum, or its distance from what was sent.
Get(n) == IF metricOf[n] = 0 THEN 0 ELSE heap[metricOf[n]].accum
GetDelta(n) == IF metricOf[n] = 0 THEN 0 ELSE Delta(metricOf[n])

\* Range of the sync.Map visits every name at most once, in any order.
RangeBegins(c, op) ==
  /\ impl = "map" /\ Starts(c)
  /\ call' = [call EXCEPT ![c] = [op |-> op, todo |-> Names, obj |-> 0]]
  /\ UNCHANGED <<impl, heap, metricOf, changed, told>>

Ranging(c, op) == impl = "map" /\ call[c].op = op

\* The next turn of the Range: loads the pointer, skips an unknown name.
RangeVisits(c, n) ==
  /\ impl = "map" /\ call[c].op \in RangeOps
  /\ call[c].obj = 0
  /\ n \in call[c].todo
  /\ call' = [call EXCEPT ![c].todo = @ \ {n}, ![c].obj = metricOf[n]]
  /\ UNCHANGED <<impl, heap, metricOf, ops, changed, told>>

\* The body of the loop, on the metric that was visited, under its lock.
Body(c, op, Effect(_)) ==
  /\ Ranging(c, op)
  /\ call[c].obj # 0
  /\ Effect({call[c].obj})
  /\ call' = [call EXCEPT ![c].obj = 0]
  /\ UNCHANGED <<impl, metricOf, ops>>

Flush(c) == Body(c, "Flush", Mark)
FlushAndReset(c) == Body(c, "FlushAndReset", ResetTo)
MapClear(c) == Body(c, "Clear", ResetTo)
Snapshot(c) == Body(c, "Snapshot", LAMBDA O : Look)
Count(c) == Body(c, "Count", LAMBDA O : Look)
Keys(c) == Body(c, "Keys", LAMBDA O : Look)

RangeReturns(c) ==
  /\ impl = "map" /\ call[c].op \in RangeOps
  /\ call[c].todo = {} /\ call[c].obj = 0
  /\ Return(c) /\ UNCHANGED <<impl, heap, metricOf, ops, changed, told>>

-----------------------------------------------------------------------------
(* ShardedMetrics: the same operations under the lock of a shard. *)

ShardedRegister(c, n) ==
  /\ impl = "sharded" /\ Starts(c) /\ Register(n) /\ UNCHANGED <<impl, call>>

ShardLocked(c, n, op, v) ==
  /\ impl = "sharded" /\ Starts(c)
  /\ metricOf[n] # 0
  /\ Update(metricOf[n], op, v)
  /\ UNCHANGED <<impl, metricOf, call>>

ShardedSet(c, n, v) == ShardLocked(c, n, "Set", v)
ShardedInc(c, n) == ShardLocked(c, n, "Inc", 0)
ShardedDec(c, n) == ShardLocked(c, n, "Dec", 0)
ShardedIncBy(c, n, v) == ShardLocked(c, n, "IncBy", v)

\* An operation on all metrics goes through the shards in their order.
ShardsBegin(c, op) ==
  /\ impl = "sharded" /\ Starts(c)
  /\ call' = [call EXCEPT ![c] = [op |-> op, todo |-> Shards, obj |-> 0]]
  /\ UNCHANGED <<impl, heap, metricOf, changed, told>>

NextShard(c) == CHOOSE s \in call[c].todo : \A t \in call[c].todo : s <= t

\* The metrics of the shard whose lock is held.
Held(c) == {n \in Registered : Shard[n] = NextShard(c)}

ShardBody(c, op, Effect(_)) ==
  /\ impl = "sharded" /\ call[c].op = op
  /\ call[c].todo # {}
  /\ Effect({metricOf[n] : n \in Held(c)})
  /\ call' = [call EXCEPT ![c].todo = @ \ {NextShard(c)}]
  /\ UNCHANGED <<impl, metricOf, ops>>

ShardedFlush(c) == ShardBody(c, "Flush", Mark)
ShardedFlushAndReset(c) == ShardBody(c, "FlushAndReset", ResetTo)
ShardedClear(c) == ShardBody(c, "Clear", ResetTo)
ShardedSnapshot(c) == ShardBody(c, "Snapshot", LAMBDA O : Look)
ShardedCount(c) == ShardBody(c, "Count", LAMBDA O : Look)
ShardedKeys(c) == ShardBody(c, "Keys", LAMBDA O : Look)

ShardsReturn(c) ==
  /\ impl = "sharded" /\ call[c].op \in RangeOps
  /\ call[c].todo = {}
  /\ Return(c) /\ UNCHANGED <<impl, heap, metricOf, ops, changed, told>>

-----------------------------------------------------------------------------

\* New and NewSharded: nothing is registered.
NewMetrics ==
  /\ impl \in {"map", "sharded"}
  /\ heap = <<>>
  /\ changed = [n \in Names |-> 0] /\ told = [n \in Names |-> 0]
  /\ metricOf = [n \in Names |-> 0]
  /\ call = [c \in Callers |-> Free]
  /\ ops = 0

MapNext(c) ==
  \/ \E n \in Names : MapRegister(c, n) \/ RangeVisits(c, n)
  \/ \E n \in Names, op \in UpdateOps : Load(c, op, n)
  \/ \E v \in Values : Set(c, v)
  \/ Inc(c) \/ Dec(c)
  \/ \E v \in Deltas : IncBy(c, v)
  \/ \E op \in RangeOps : RangeBegins(c, op)
  \/ Flush(c) \/ FlushAndReset(c) \/ MapClear(c) \/ Snapshot(c) \/ Count(c) \/ Keys(c)
  \/ RangeReturns(c)

ShardedNext(c) ==
  \/ \E n \in Names : ShardedRegister(c, n) \/ ShardedInc(c, n) \/ ShardedDec(c, n)
  \/ \E n \in Names, v \in Values : ShardedSet(c, n, v)
  \/ \E n \in Names, v \in Deltas : ShardedIncBy(c, n, v)
  \/ \E op \in RangeOps : ShardsBegin(c, op)
  \/ ShardedFlush(c) \/ ShardedFlushAndReset(c) \/ ShardedClear(c)
  \/ ShardedSnapshot(c) \/ ShardedCount(c) \/ ShardedKeys(c)
  \/ ShardsReturn(c)

MetricsNext == \E c \in Callers : MapNext(c) \/ ShardedNext(c)

MetricsSpec == NewMetrics /\ [][MetricsNext]_metricsVars

-----------------------------------------------------------------------------

\* Types.
MetricsTypeOK ==
  /\ impl \in {"map", "sharded"}
  /\ heap \in Seq([name : Names, accum : Int, sent : Int])
  /\ metricOf \in [Names -> 0..Len(heap)]
  /\ changed \in [Names -> Int] /\ told \in [Names -> Int]
  /\ \A c \in Callers : call[c].op \in {"none"} \cup UpdateOps \cup RangeOps
  /\ ops \in 0..MaxOps

\* What callers see of name n is complete: the deltas that Flush returned and
\* the one still pending add up to the changes made under that name since it
\* was reset, and so does its value.
Balanced(n) == told[n] + GetDelta(n) = changed[n] /\ Get(n) = InitVal + changed[n]

RegisteredOnce(n) == \A o \in DOMAIN heap : heap[o].name = n => o = metricOf[n]

\* However updates, flushes and resets of all callers overlap, also with the
\* Register of their name, no change to a name is lost or reported twice as
\* long as the name is registered once.
Balance ==
  /\ MetricsTypeOK
  /\ \A n \in Registered : RegisteredOnce(n) => Balanced(n)

\* What the comments of Register say, and what is not so: a Register of a name
\* that has a metric overwrites nothing, so that names are balanced whatever
\* is registered.
NothingOverwritten == \A n \in Registered : Balanced(n)

\* A Flush or FlushAndReset of ShardedMetrics that has been through a shard
\* and has another to go to.
BetweenShards(c) ==
  /\ impl = "sharded" /\ call[c].op \in {"Flush", "FlushAndReset"}
  /\ call[c].todo # {} /\ call[c].todo # Shards

\* What the package comment says of Flush, and what is not so: it holds the
\* locks of all shards, so that nobody changes a metric in the midst of it.
FlushHoldsShards ==
  [][\A c \in Callers : BetweenShards(c) /\ call'[c] = call[c] => UNCHANGED heap]_metricsVars
=============================================================================
