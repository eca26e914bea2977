---------------------------- MODULE BrinkHistory ----------------------------
(***************************************************************************)
(* A bounded history with the one blemish of the code's ring buffer: once  *)
(* a change of the capacity has been filled exactly by the records that    *)
(* were kept (the brink), the next record is refused, and every one after  *)
(* it, until the capacity changes again or everything is forgotten.  Away  *)
(* from the brink no record is refused.  This is the buffer that module    *)
(* History uses.                                                           *)
(***************************************************************************)
EXTENDS BoundedHistory

VARIABLE brink   \* the kept records fill the capacity that was set last

brinkVars == <<items, cap, refused, brink>>

BrinkInit == Init /\ brink = FALSE

Accept(x) == ~brink /\ Record(x) /\ UNCHANGED brink

Refuse == brink /\ refused' = TRUE /\ UNCHANGED <<items, cap, brink>>

ChangeCapacity(n) == n # cap /\ SetCapacity(n) /\ brink' = (Len(items) >= n)

Clean == Forget /\ brink' = FALSE

BrinkNext == \/ \E x \in Items : Accept(x)
             \/ Refuse
             \/ \E n \in Sizes : ChangeCapacity(n)
             \/ Clean

BrinkSpec == BrinkInit /\ [][BrinkNext]_brinkVars
=============================================================================
