--------------------------- MODULE BoundedHistory ---------------------------
(***************************************************************************)
(* What the history ring buffer promises to its users: the newest records, *)
(* oldest first, never more of them than the capacity.  Recording beyond   *)
(* the capacity forgets the oldest record, shrinking keeps the newest      *)
(* ones, growing keeps everything.  A record is never refused.             *)
(***************************************************************************)
EXTENDS Integers, Sequences

CONSTANTS Items,   \* the records that may be stored
          Sizes    \* the capacities a buffer may be given

VARIABLES items,   \* the retained records, oldest first
          cap,     \* the capacity
          refused  \* a record was not stored

vars == <<items, cap, refused>>

\* The newest n elements of s, or all of s when it is shorter.
Newest(s, n) ==
  IF Len(s) <= n THEN s ELSE SubSeq(s, Len(s) - n + 1, Len(s))

Init == /\ items = <<>>
        /\ cap \in Sizes
        /\ refused = FALSE

Record(x) == /\ items' = Newest(Append(items, x), cap)
             /\ UNCHANGED <<cap, refused>>

SetCapacity(n) == /\ cap' = n
                  /\ items' = Newest(items, n)
                  /\ UNCHANGED refused

Forget == /\ items' = <<>>
          /\ UNCHANGED <<cap, refused>>

Next == \/ \E x \in Items : Record(x)
        \/ \E n \in Sizes : SetCapacity(n)
        \/ Forget

Spec == Init /\ [][Next]_vars
=============================================================================
