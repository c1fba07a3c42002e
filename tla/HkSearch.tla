----------------------------- MODULE HkSearch -----------------------------
(***************************************************************************)
(* get_file_id_from_timestamp (housekeeping_service.c): a leftmost binary  *)
(* search of the index of timestamps, then a check of the place it ended   *)
(* on and of its lower neighbour against a threshold.                      *)
(*                                                                         *)
(* The caller holds the lock, so the index does not change.  With Clocked  *)
(* its contents are those of a ring the collector fills at increasing      *)
(* times, as the search assumes; without, whatever was on the stack: the   *)
(* call of RTC_get_unix_time is commented out.  The case of a NULL index,  *)
(* answered with 0, is in HkStore.                                         *)
(***************************************************************************)
EXTENDS Integers

CONSTANTS
    N,               \* hk_timestamp_array_size
    Threshold,       \* 15 seconds
    Word,            \* 2^32: the arithmetic is that of uint32_t
    Times,           \* the times at which records are collected and asked for
    Clocked          \* are the records stamped with the time?

ASSUME NAssumption == N \in Nat \ {0}
ASSUME TimesAssumption == Threshold \in Nat /\ Word \in Nat \ {0} /\ Times \subseteq 1..(Word - 1)
ASSUME ClockAssumption == Clocked \in BOOLEAN

VARIABLES
    items,           \* timestamps[1..N]; 0 where nothing was written
    current_file,    \* the slot the next record goes to
    timestamp,       \* the argument
    left, right, offset,
    pc,              \* "start", "search", "check", "done"
    result

args == <<items, current_file, timestamp>>
vars == <<args, left, right, offset, pc, result>>

Positions == 1..N

\* The number of records younger than the one in slot i, counting slots.
Age(i) == (current_file - 1 - i) % N

\* The index when the records were collected at increasing times: either the
\* slots from current_file on are still empty, or it has been filled all round.
Filled == \/ \A i \in Positions : (items[i] = 0) <=> (i >= current_file)
          \/ \A i \in Positions : items[i] # 0
InOrder == \A i, j \in Positions :
              items[i] # 0 /\ items[j] # 0 /\ Age(i) > Age(j) => items[i] < items[j]

Init ==
    /\ items \in [Positions -> {0} \cup Times]
    /\ current_file \in Positions
    /\ timestamp \in Times
    /\ Clocked => Filled /\ InOrder
    /\ left = 0 /\ right = 0 /\ offset = 0
    /\ pc = "start"
    /\ result = 0

\* a - b as an unsigned number
Minus(a, b) == (a - b) % Word

Return(r) == pc' = "done" /\ result' = r /\ UNCHANGED <<args, left, right, offset>>

\* The first slot not filled is the current one, and it is the first of all.
NoFiles ==
    /\ pc = "start"
    /\ items[current_file] = 0 /\ current_file = 1
    /\ Return(0)

\* Mutated forms of Start: offsets of a full ring that are off by one.
MutStartLow ==
    /\ pc = "start"
    /\ ~(items[current_file] = 0 /\ current_file = 1)
    /\ IF items[current_file] = 0
       THEN left' = 1 /\ right' = current_file - 1 /\ offset' = 0
       ELSE left' = current_file /\ right' = current_file + N - 1 /\ offset' = current_file - 2
    /\ pc' = "search"
    /\ UNCHANGED <<args, result>>

MutStartHigh ==
    /\ pc = "start"
    /\ ~(items[current_file] = 0 /\ current_file = 1)
    /\ IF items[current_file] = 0
       THEN left' = 1 /\ right' = current_file - 1 /\ offset' = 0
       ELSE left' = current_file /\ right' = current_file + N - 1 /\ offset' = current_file
    /\ pc' = "search"
    /\ UNCHANGED <<args, result>>

\* "haven't made full loop of storage" / "These accomodate circular structure"
Start ==
    /\ pc = "start"
    /\ ~(items[current_file] = 0 /\ current_file = 1)
    /\ IF items[current_file] = 0
       THEN left' = 1 /\ right' = current_file - 1 /\ offset' = 0
       ELSE left' = current_file /\ right' = current_file + N - 1 /\ offset' = current_file - 1
    /\ pc' = "search"
    /\ UNCHANGED <<args, result>>

Middle == (left + right) \div 2

\* A mutated form of Halve: the interval need not shrink.
MutHalveKeepsMiddle ==
    /\ pc = "search" /\ left < right
    /\ IF items[Middle - offset] < timestamp
       THEN left' = Middle /\ right' = right
       ELSE right' = Middle /\ left' = left
    /\ UNCHANGED <<args, offset, pc, result>>

Halve ==
    /\ pc = "search" /\ left < right
    /\ IF items[Middle - offset] < timestamp
       THEN left' = Middle + 1 /\ right' = right
       ELSE right' = Middle /\ left' = left
    /\ UNCHANGED <<args, offset, pc, result>>

Converge ==
    /\ pc = "search" /\ left >= right
    /\ pc' = "check"
    /\ UNCHANGED <<args, left, right, offset, result>>

true_position == left - offset

\* A mutated form of LowerIsNear: the first position is left out.
MutLowerFromThird == true_position > 2 /\ Minus(timestamp, items[true_position - 1]) <= Threshold

LowerIsNear == true_position > 1 /\ Minus(timestamp, items[true_position - 1]) <= Threshold

\* A mutated form of SelfIsNear: a record not older than the time will do.
MutSelfUnchecked == items[true_position] >= timestamp

\* Only at the last position is the difference taken both ways round.
SelfIsNear ==
    \/ Minus(items[true_position], timestamp) <= Threshold
    \/ /\ true_position = N /\ true_position > 1
       /\ timestamp > items[true_position]
       /\ Minus(timestamp, items[true_position]) <= Threshold

Check ==
    /\ pc = "check"
    /\ Return(IF LowerIsNear THEN true_position - 1
              ELSE IF SelfIsNear THEN true_position ELSE 0)

Next == NoFiles \/ Start \/ Halve \/ Converge \/ Check

Spec == Init /\ [][Next]_vars

FairSpec == Spec /\ WF_vars(Next)

-----------------------------------------------------------------------------
TypeOK ==
    /\ items \in [Positions -> {0} \cup Times]
    /\ current_file \in Positions
    /\ timestamp \in Times
    /\ left \in Nat /\ right \in Nat /\ offset \in Nat
    /\ pc \in {"start", "search", "check", "done"}
    /\ result \in 0..N

(***************************************************************************)
(* Whatever the index holds, the search reads elements 1..N of it only.    *)
(***************************************************************************)
InBounds ==
    /\ pc = "search" /\ left < right => Middle - offset \in Positions
    /\ pc = "check" => true_position \in Positions

Distance(a, b) == IF a < b THEN b - a ELSE a - b

(***************************************************************************)
(* A file number that is returned is that of a record that was written,    *)
(* within the threshold of the time asked for.                             *)
(***************************************************************************)
ResultIsNear ==
    pc = "done" /\ result # 0 =>
        items[result] # 0 /\ Distance(items[result], timestamp) <= Threshold

\* The cadence the threshold assumes ("Currently assumes 30 second hk intervals").
Spaced == \A i, j \in Positions :
             i # j /\ items[i] # 0 /\ items[j] # 0 =>
                 Distance(items[i], items[j]) >= 2 * Threshold

ClosestFound ==
    \A i \in Positions :
        items[i] # 0 /\ Distance(items[i], timestamp) <= Threshold =>
            /\ result # 0
            /\ Distance(items[result], timestamp) <= Distance(items[i], timestamp)

\* The index is in order of position: the ring is not full, or starts at slot 1.
NotWrapped == items[current_file] = 0 \/ current_file = 1
NotAfterNewest == \E i \in Positions : items[i] >= timestamp

(***************************************************************************)
(* "gets the hk file id that holds a timestamp closest to that given":     *)
(* so it does while the ring has not wrapped, at the assumed cadence, for  *)
(* a time up to that of the newest record.  (On a ring that has wrapped    *)
(* the halving runs over slots that are not in order of time: the offsets  *)
(* count from slot 1, not from current_file.)                              *)
(***************************************************************************)
FindsClosest ==
    pc = "done" /\ Spaced /\ NotWrapped /\ NotAfterNewest => ClosestFound

(***************************************************************************)
(* The search ends.                                                        *)
(***************************************************************************)
Terminates == <>(pc = "done")
=============================================================================
