----------------------------- MODULE RecordLog -----------------------------
(***************************************************************************)
(* What the store of housekeeping records promises: a log of which the     *)
(* newest size - 1 records are kept, whatever else happens.  It is emptied *)
(* only by a request that resets it; its size changes only where that      *)
(* drops no record.                                                        *)
(***************************************************************************)
EXTENDS Naturals, Sequences

CONSTANT Record      \* a set of numbers, in the order of collection

VARIABLES
    kept,            \* the records kept, newest first
    size,            \* the size of the ring they are kept in
    resetting,       \* is a SET_MAX_FILES being carried out?
    broken           \* has something happened after which nothing is promised?

Init == kept = <<>> /\ size \in Nat \ {0} /\ broken = FALSE

\* A record newer than all the others; the oldest goes when there is no room.
Add(r) ==
    /\ \A k \in 1..Len(kept) : kept[k] < r
    /\ kept' = [k \in 1..(IF Len(kept) + 1 < size THEN Len(kept) + 1 ELSE size - 1) |->
                   IF k = 1 THEN r ELSE kept[k - 1]]
    /\ UNCHANGED <<size, resetting, broken>>

Forget == resetting /\ kept' = <<>> /\ size' \in Nat \ {0} /\ UNCHANGED broken

\* Nothing is added and nothing lost, by a reset of the computer neither.
Keep == kept' = kept /\ size' \in Nat /\ size' > Len(kept) /\ UNCHANGED broken

Break == broken' = TRUE

Next == Forget \/ Keep \/ Break \/ \E r \in Record : Add(r)

Spec == Init /\ [][Next]_<<kept, size, resetting, broken>>
=============================================================================
