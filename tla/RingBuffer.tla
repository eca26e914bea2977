----------------------------- MODULE RingBuffer -----------------------------
(***************************************************************************)
(* The ring buffer behind History and ShardedHistory                       *)
(* (push/history/ringbuffer.go; pkg/ringbuffer/ringbuffer.go is the same   *)
(* code).  Every method holds rb.mu from its first access to its return,   *)
(* so each one is a single action.  Slots are numbered from 0 as in Go.    *)
(***************************************************************************)
EXTENDS Integers, Sequences

CONSTANTS Items,        \* values pushed
          Zero,         \* Go's zero value of the element type
          Requests,     \* arguments given to NewRingBuffer and Resize
          DefaultSize   \* the capacity NewRingBuffer uses for size <= 0

ASSUME SizeAssumption == /\ Requests \subseteq Int
                         /\ DefaultSize \in Nat \ {0}
                         /\ Zero \notin Items

VARIABLES data,      \* the slots
          size,      \* their number
          head,      \* slot of the oldest element
          tail,      \* slot the next element is written to
          count,     \* number of stored elements
          panicked   \* a call has indexed a slot that does not exist

ringVars == <<data, size, head, tail, count, panicked>>

Slots == 0 .. size - 1

\* make([]T, n)
Fresh(n) == [i \in 0 .. n - 1 |-> Zero]

\* The capacity NewRingBuffer settles on.
Capacity(n) == IF n <= 0 THEN DefaultSize ELSE n

NewRingBuffer(n) ==
  /\ size = Capacity(n)
  /\ data = Fresh(Capacity(n))
  /\ head = 0 /\ tail = 0 /\ count = 0
  /\ panicked = FALSE

-----------------------------------------------------------------------------
(* Reading.                                                                *)

\* data[lo:hi]
Slice(lo, hi) == [k \in 1 .. hi - lo |-> data[lo + k - 1]]

\* copy into a new slice of n elements: what is not copied stays zero.
CopyTo(n, src) == [k \in 1 .. n |-> IF k <= Len(src) THEN src[k] ELSE Zero]

\* GetAll and getAllUnsafe share this text: one piece when the contents do
\* not wrap, the two pieces around the end of the array when they do.
GetAll ==
  IF count = 0 THEN <<>>
  ELSE CopyTo(count, IF head < tail
                     THEN Slice(head, tail)
                     ELSE Slice(head, size) \o Slice(0, tail))

\* Mutant of GetLast: walks back without the "+ size" and stops at slot 0.
GetLastNoWrap(n) ==
  IF n <= 0 \/ count = 0 THEN <<>>
  ELSE LET m     == IF n >= count THEN count ELSE n
           start == IF tail >= m THEN tail - m ELSE 0
       IN  CopyTo(m, IF start + m <= size THEN Slice(start, start + m)
                                          ELSE Slice(start, size))

GetLast(n) ==
  IF n <= 0 \/ count = 0 THEN <<>>
  ELSE LET m     == IF n >= count THEN count ELSE n
           start == (tail - m + size) % size
       IN  CopyTo(m, IF start + m <= size
                     THEN Slice(start, start + m)
                     ELSE Slice(start, size) \o Slice(0, m - (size - start)))

-----------------------------------------------------------------------------
(* Writing.                                                                *)

\* Mutant of Push: overwrites without moving head.
PushKeepsHead(item) ==
  /\ tail \in Slots
  /\ data' = [data EXCEPT ![tail] = item]
  /\ tail' = (tail + 1) % size
  /\ count' = IF count < size THEN count + 1 ELSE count
  /\ UNCHANGED <<size, head, panicked>>

Push(item) ==
  /\ tail \in Slots
  /\ data' = [data EXCEPT ![tail] = item]
  /\ tail' = (tail + 1) % size
  /\ IF count < size
     THEN count' = count + 1 /\ UNCHANGED head
     ELSE head' = (head + 1) % size /\ UNCHANGED count
  /\ UNCHANGED <<size, panicked>>

\* rb.data[rb.tail] is out of range: the panic leaves through the deferred
\* Unlock before anything is written.
PushPanics ==
  /\ tail \notin Slots
  /\ panicked' = TRUE
  /\ UNCHANGED <<data, size, head, tail, count>>

\* Mutant of Resize: shrinking keeps the oldest records.
ResizeKeepsOldest(n) ==
  /\ n > 0
  /\ n # size
  /\ LET all  == GetAll
         kept == IF Len(all) > n THEN SubSeq(all, 1, n) ELSE all
     IN  /\ data' = [i \in 0 .. n - 1 |-> IF i < Len(kept) THEN kept[i + 1]
                                                           ELSE Zero]
         /\ count' = Len(kept)
         /\ tail' = Len(kept)
  /\ head' = 0
  /\ size' = n
  /\ UNCHANGED panicked

Resize(n) ==
  /\ n > 0
  /\ n # size
  /\ LET all  == GetAll
         kept == IF Len(all) > n THEN SubSeq(all, Len(all) - n + 1, Len(all))
                                 ELSE all
     IN  /\ data' = [i \in 0 .. n - 1 |-> IF i < Len(kept) THEN kept[i + 1]
                                                           ELSE Zero]
         /\ count' = Len(kept)
         /\ tail' = Len(kept)
  /\ head' = 0
  /\ size' = n
  /\ UNCHANGED panicked

Clear ==
  /\ head' = 0 /\ tail' = 0 /\ count' = 0
  /\ UNCHANGED <<data, size, panicked>>

-----------------------------------------------------------------------------
Init == \E n \in Requests : NewRingBuffer(n)

RingNext == \/ \E x \in Items : Push(x)
            \/ PushPanics
            \/ \E n \in Requests : Resize(n)
            \/ Clear

RingSpec == Init /\ [][RingNext]_ringVars

-----------------------------------------------------------------------------
(* Properties.                                                             *)

\* The variables keep their types, and the counters never leave the array
\* make() allocated.
RingTypeOK == /\ size \in Nat \ {0}
              /\ data \in [Slots -> Items \cup {Zero}]
              /\ head \in Slots
              /\ tail \in 0 .. size
              /\ count \in 0 .. size
              /\ panicked \in BOOLEAN

\* The two indices and the counter tell the same story about which slots are
\* in use, wherever Push, Resize and Clear left them: the next slot lies
\* count slots after the oldest one, around the end of the array, or it is
\* one past the end, which only a Resize that exactly filled the new array
\* leaves behind.
IndexInv ==
  \/ tail = head + count /\ (tail = size => head = 0)
  \/ tail = head + count - size /\ tail < size

\* GetLast walks back from tail and GetAll forward from head; both must
\* describe the same contents, for every n a caller may ask for.
LastIsSuffix ==
  \A n \in -1 .. size + 1 :
    GetLast(n) = LET all == GetAll
                     m   == IF n < 0 THEN 0 ELSE n
                 IN  IF Len(all) <= m THEN all
                     ELSE SubSeq(all, Len(all) - m + 1, Len(all))

\* The promise that a user reads: a Push on a full buffer overwrites the oldest
\* record and is never refused, Resize keeps the newest records in order, Clear
\* drops all.  The code breaks it: see RefinesBrinkHistory.
BH == INSTANCE BoundedHistory
        WITH items <- GetAll, cap <- size, refused <- panicked,
             Sizes <- {Capacity(n) : n \in Requests}

RefinesBoundedHistory == BH!Spec

\* What the code does instead: the bounded history, except that a Push panics
\* and stores nothing if, and only if, the last Resize kept as many records as
\* the new array has slots and no Clear came since.
Brink == INSTANCE BrinkHistory
           WITH items <- GetAll, cap <- size, refused <- panicked,
                brink <- tail = size,
                Sizes <- {Capacity(n) : n \in Requests}

RefinesBrinkHistory == Brink!BrinkSpec
=============================================================================
