-------------------------- MODULE HkSearch_proofs --------------------------
(***************************************************************************)
(* The search of the timestamp index stays inside the index, for every     *)
(* size of the ring, every threshold and whatever the index holds: the     *)
(* proof never uses that the items are in order.                           *)
(***************************************************************************)
EXTENDS HkSearch, TLAPS

(***************************************************************************)
(* The inductive invariant: the interval left..right, moved down by the    *)
(* offset, is a non-empty interval of positions.                           *)
(***************************************************************************)
Interval ==
    pc \in {"search", "check"} =>
        /\ offset + 1 <= left
        /\ left <= right
        /\ right <= offset + N

SearchInv == TypeOK /\ Interval

\* The middle of an interval of two or more is in it, and not its last.
LEMMA MiddleBetween ==
    ASSUME NEW l \in Nat, NEW r \in Nat, l < r
    PROVE  /\ (l + r) \div 2 \in Nat
           /\ l <= (l + r) \div 2
           /\ (l + r) \div 2 < r
BY SMT

LEMMA SearchInvInit == Init => SearchInv
<1> SUFFICES ASSUME Init PROVE SearchInv
  OBVIOUS
<1>1. pc = "start" /\ left = 0 /\ right = 0 /\ offset = 0 /\ result = 0
  BY DEF Init
<1>2. items \in [Positions -> {0} \cup Times] /\ current_file \in Positions /\ timestamp \in Times
  BY DEF Init
<1>3. 0 \in 0..N
  BY NAssumption
<1>4. TypeOK
  BY <1>1, <1>2, <1>3 DEF TypeOK
<1>5. Interval
  BY <1>1 DEF Interval
<1>6. QED
  BY <1>4, <1>5 DEF SearchInv

LEMMA SearchInvStep == SearchInv /\ [Next]_vars => SearchInv'
<1> SUFFICES ASSUME SearchInv, [Next]_vars PROVE SearchInv'
  OBVIOUS
<1> USE NAssumption DEF SearchInv, TypeOK, Interval, Positions, args
<1>1. CASE NoFiles
  BY <1>1 DEF NoFiles, Return
<1>2. CASE Start
  <2>1. UNCHANGED <<items, current_file, timestamp, result>> /\ pc' = "search"
    BY <1>2 DEF Start
  <2>2. CASE items[current_file] = 0
    <3>1. left' = 1 /\ right' = current_file - 1 /\ offset' = 0 /\ current_file # 1
      BY <1>2, <2>2 DEF Start
    <3>2. QED
      BY <2>1, <3>1
  <2>3. CASE items[current_file] # 0
    <3>1. left' = current_file /\ right' = current_file + N - 1 /\ offset' = current_file - 1
      BY <1>2, <2>3 DEF Start
    <3>2. QED
      BY <2>1, <3>1
  <2>4. QED
    BY <2>2, <2>3
<1>3. CASE Halve
  <2>1. Middle \in Nat /\ left <= Middle /\ Middle < right
    BY <1>3, MiddleBetween DEF Halve, Middle
  <2>2. UNCHANGED <<items, current_file, timestamp, offset, pc, result>>
    BY <1>3 DEF Halve
  <2>3. \/ left' = Middle + 1 /\ right' = right
        \/ left' = left /\ right' = Middle
    BY <1>3 DEF Halve
  <2>4. pc = "search"
    BY <1>3 DEF Halve
  <2>5. CASE left' = Middle + 1 /\ right' = right
    BY <2>1, <2>2, <2>4, <2>5
  <2>6. CASE left' = left /\ right' = Middle
    BY <2>1, <2>2, <2>4, <2>6
  <2>7. QED
    BY <2>3, <2>5, <2>6
<1>4. CASE Converge
  BY <1>4 DEF Converge
<1>5. CASE Check
  <2>1. true_position \in Positions
    BY <1>5 DEF Check, true_position
  <2>2. result' \in {0, true_position} \/ (true_position > 1 /\ result' = true_position - 1)
    BY <1>5 DEF Check, Return, LowerIsNear
  <2>3. result' \in 0..N
    BY <2>1, <2>2
  <2>4. pc' = "done" /\ UNCHANGED <<items, current_file, timestamp, left, right, offset>>
    BY <1>5 DEF Check, Return
  <2>5. QED
    BY <2>3, <2>4
<1>6. CASE UNCHANGED vars
  BY <1>6 DEF vars
<1>7. QED
  BY <1>1, <1>2, <1>3, <1>4, <1>5, <1>6 DEF Next

LEMMA SearchInvInBounds == SearchInv => InBounds
<1> SUFFICES ASSUME SearchInv PROVE InBounds
  OBVIOUS
<1> USE NAssumption DEF SearchInv, TypeOK, Interval, Positions
<1>1. ASSUME pc = "search", left < right PROVE Middle - offset \in Positions
  <2>1. Middle \in Nat /\ left <= Middle /\ Middle < right
    BY <1>1, MiddleBetween DEF Middle
  <2>2. QED
    BY <1>1, <2>1
<1>2. ASSUME pc = "check" PROVE true_position \in Positions
  BY <1>2 DEF true_position
<1>3. QED
  BY <1>1, <1>2 DEF InBounds

(***************************************************************************)
(* Type correctness of the search; its result is 0 or a file number.       *)
(***************************************************************************)
THEOREM SearchTypeCorrect == Spec => []TypeOK
<1>1. SearchInv => TypeOK
  BY DEF SearchInv
<1>2. QED
  BY <1>1, SearchInvInit, SearchInvStep, PTL DEF Spec

(***************************************************************************)
(* Every element of the index the search reads is one of 1..N.             *)
(***************************************************************************)
THEOREM SearchInBounds == Spec => []InBounds
BY SearchInvInit, SearchInvStep, SearchInvInBounds, PTL DEF Spec

-----------------------------------------------------------------------------
(***************************************************************************)
(* What is found.  The arithmetic of uint32_t is that of the integers as   *)
(* long as the times keep away from the ends of the word by more than the  *)
(* threshold, which those of a UNIX clock do.                              *)
(***************************************************************************)
AwayFromEnds == \A t \in Times : Threshold < t /\ t < Word - Threshold

LEMMA ModSmall ==
    ASSUME NEW m \in Nat \ {0}, NEW a \in Nat, a < m
    PROVE  a % m = a
BY SMT

LEMMA ModNegative ==
    ASSUME NEW m \in Nat \ {0}, NEW a \in Int, -m <= a, a < 0
    PROVE  a % m = a + m
BY SMT

\* The difference of a time and what is in the index, as an unsigned number.
LEMMA MinusOf ==
    ASSUME NEW a \in {0} \cup Times, NEW b \in {0} \cup Times
    PROVE  /\ a \in Nat /\ b \in Nat /\ a < Word /\ b < Word /\ Word \in Nat \ {0}
           /\ a >= b => Minus(a, b) = a - b
           /\ a < b => Minus(a, b) = a - b + Word
<1>1. a \in Nat /\ b \in Nat /\ a < Word /\ b < Word /\ Word \in Nat \ {0}
  BY TimesAssumption
<1>2. a >= b => Minus(a, b) = a - b
  BY <1>1, ModSmall DEF Minus
<1>3. a < b => Minus(a, b) = a - b + Word
  BY <1>1, ModNegative DEF Minus
<1>4. QED
  BY <1>1, <1>2, <1>3

LEMMA NearMeansNear ==
    ASSUME AwayFromEnds, NEW a \in {0} \cup Times, NEW t \in Times,
           Minus(a, t) <= Threshold \/ Minus(t, a) <= Threshold
    PROVE  a # 0 /\ Distance(a, t) <= Threshold
<1>1. Threshold \in Nat /\ Threshold < t /\ t < Word - Threshold
  BY TimesAssumption DEF AwayFromEnds
<1>2. a # 0 => Threshold < a /\ a < Word - Threshold
  BY DEF AwayFromEnds
<1>3. /\ a \in Nat /\ t \in Nat /\ Word \in Nat
      /\ a >= t => Minus(a, t) = a - t
      /\ a < t => Minus(a, t) = a - t + Word
      /\ t >= a => Minus(t, a) = t - a
      /\ t < a => Minus(t, a) = t - a + Word
  BY MinusOf
<1>4. CASE a = 0
  BY <1>1, <1>3, <1>4
<1>5. CASE a # 0
  BY <1>1, <1>2, <1>3, <1>5 DEF Distance
<1>6. QED
  BY <1>4, <1>5

(***************************************************************************)
(* A file number that is returned is that of a record that was written,    *)
(* within the threshold of the time asked for, whatever the index holds.   *)
(***************************************************************************)
THEOREM SearchResultIsNear ==
    ASSUME AwayFromEnds
    PROVE  Spec => []ResultIsNear
<1> DEFINE Inv == SearchInv /\ ResultIsNear
<1>1. Init => Inv
  BY SearchInvInit DEF Init, ResultIsNear
<1>2. Inv /\ [Next]_vars => Inv'
  <2> SUFFICES ASSUME SearchInv, ResultIsNear, [Next]_vars PROVE ResultIsNear'
    BY SearchInvStep
  <2>1. CASE Check
    <3>1. true_position \in Positions /\ items \in [Positions -> {0} \cup Times]
          /\ timestamp \in Times
      BY <2>1, SearchInvInBounds DEF Check, InBounds, SearchInv, TypeOK
    <3>2. CASE LowerIsNear
      <4>1. result' = true_position - 1 /\ UNCHANGED <<items, timestamp>>
        BY <2>1, <3>2 DEF Check, Return, args
      <4>2. true_position - 1 \in Positions
        BY <3>1, <3>2, NAssumption DEF LowerIsNear, Positions
      <4>3. items[true_position - 1] # 0
            /\ Distance(items[true_position - 1], timestamp) <= Threshold
        BY <3>1, <3>2, <4>2, NearMeansNear DEF LowerIsNear
      <4>4. QED
        BY <4>1, <4>3 DEF ResultIsNear
    <3>3. CASE ~LowerIsNear /\ SelfIsNear
      <4>1. result' = true_position /\ UNCHANGED <<items, timestamp>>
        BY <2>1, <3>3 DEF Check, Return, args
      <4>2. items[true_position] # 0
            /\ Distance(items[true_position], timestamp) <= Threshold
        BY <3>1, <3>3, NearMeansNear DEF SelfIsNear
      <4>3. QED
        BY <4>1, <4>2 DEF ResultIsNear
    <3>4. CASE ~LowerIsNear /\ ~SelfIsNear
      BY <2>1, <3>4 DEF Check, Return, ResultIsNear
    <3>5. QED
      BY <3>2, <3>3, <3>4
  <2>2. CASE NoFiles
    BY <2>2 DEF NoFiles, Return, ResultIsNear
  <2>3. CASE Start \/ Halve \/ Converge
    BY <2>3 DEF Start, Halve, Converge, ResultIsNear
  <2>4. CASE UNCHANGED vars
    BY <2>4 DEF vars, args, ResultIsNear
  <2>5. QED
    BY <2>1, <2>2, <2>3, <2>4 DEF Next
<1>3. Inv => ResultIsNear
  OBVIOUS
<1>4. QED
  BY <1>1, <1>2, <1>3, PTL DEF Spec

-----------------------------------------------------------------------------
(***************************************************************************)
(* What the search finds when the index is in order of position: the       *)
(* positions below the interval hold earlier times, and its right end one  *)
(* that is not earlier.                                                    *)
(***************************************************************************)
Newest == IF items[current_file] = 0 THEN current_file - 1 ELSE N

\* The records are at 1..Newest, in order of time.
Sorted ==
    /\ Newest \in Positions
    /\ \A i \in Positions : items[i] # 0 <=> i <= Newest
    /\ \A i, j \in Positions : i < j /\ j <= Newest => items[i] < items[j]

Straight == NotWrapped /\ NotAfterNewest

LEMMA Values ==
    ASSUME TypeOK
    PROVE  /\ N \in Nat \ {0} /\ Threshold \in Nat /\ current_file \in Positions
           /\ timestamp \in Nat /\ timestamp > 0 /\ timestamp \in {0} \cup Times
           /\ \A i \in Positions : items[i] \in Nat /\ items[i] \in {0} \cup Times
<1>1. \A t \in Times : t \in Nat /\ t > 0
  BY TimesAssumption
<1>2. \A i \in Positions : items[i] = 0 \/ items[i] \in Times
  BY DEF TypeOK
<1>3. \A i \in Positions : items[i] \in Nat /\ items[i] \in {0} \cup Times
  BY <1>1, <1>2
<1>4. timestamp \in Times /\ current_file \in Positions
  BY DEF TypeOK
<1>5. QED
  BY <1>1, <1>3, <1>4, NAssumption, TimesAssumption

LEMMA AgeOf ==
    ASSUME current_file \in Positions, NEW i \in Positions
    PROVE  /\ i < current_file => Age(i) = current_file - 1 - i
           /\ i >= current_file => Age(i) = current_file - 1 - i + N
<1>1. N \in Nat \ {0} /\ current_file - 1 - i \in Int /\ current_file - 1 - i < N
      /\ -N <= current_file - 1 - i
  BY NAssumption DEF Positions
<1>2. ASSUME i < current_file PROVE Age(i) = current_file - 1 - i
  <2>1. current_file - 1 - i \in Nat
    BY <1>2 DEF Positions
  <2>2. QED
    BY <1>1, <2>1, ModSmall DEF Age
<1>3. ASSUME i >= current_file PROVE Age(i) = current_file - 1 - i + N
  <2>1. current_file - 1 - i < 0
    BY <1>3 DEF Positions
  <2>2. QED
    BY <1>1, <2>1, ModNegative DEF Age
<1>4. QED
  BY <1>2, <1>3

LEMMA StraightIsSorted ==
    ASSUME TypeOK, Filled, InOrder, Straight
    PROVE  Sorted /\ items[Newest] >= timestamp
           /\ ~(items[current_file] = 0 /\ current_file = 1)
<1>1. /\ N \in Nat \ {0} /\ current_file \in Positions
      /\ timestamp \in Nat /\ timestamp > 0
      /\ \A i \in Positions : items[i] \in Nat
  BY Values
<1>2. PICK k \in Positions : items[k] >= timestamp
  BY DEF Straight, NotAfterNewest
<1>3. items[k] # 0
  BY <1>1, <1>2
<1>4. CASE items[current_file] = 0
  <2>1. \A i \in Positions : items[i] = 0 <=> i >= current_file
    BY <1>1, <1>4 DEF Filled
  <2>2. k < current_file
    BY <1>1, <1>3, <2>1 DEF Positions
  <2>3. Newest = current_file - 1 /\ Newest \in Positions /\ current_file # 1
    BY <1>1, <1>4, <2>2 DEF Newest, Positions
  <2>4. \A i \in Positions : i < current_file <=> i <= Newest
    BY <1>1, <2>3 DEF Positions
  <2>5. \A i, j \in Positions : i < j /\ j <= Newest => Age(i) > Age(j)
    BY <1>1, <2>3, <2>4, AgeOf DEF Positions
  <2>6. \A i \in Positions : items[i] # 0 <=> i <= Newest
    BY <1>1, <2>1, <2>4 DEF Positions
  <2>7. \A i, j \in Positions : i < j /\ j <= Newest => items[i] < items[j]
    <3>1. SUFFICES ASSUME NEW i \in Positions, NEW j \in Positions, i < j, j <= Newest
                   PROVE  items[i] < items[j]
      OBVIOUS
    <3>2. i <= Newest
      BY <2>3, <3>1 DEF Positions
    <3>3. QED
      BY <2>5, <2>6, <3>1, <3>2 DEF InOrder
  <2>8. items[Newest] >= timestamp
    <3>1. k <= Newest
      BY <2>2, <2>4
    <3>2. k = Newest \/ k < Newest
      BY <2>3, <3>1 DEF Positions
    <3>3. k < Newest => items[k] < items[Newest]
      BY <2>3, <2>7 DEF Positions
    <3>4. QED
      BY <1>1, <1>2, <2>3, <3>2, <3>3
  <2>9. QED
    BY <2>3, <2>6, <2>7, <2>8 DEF Sorted
<1>5. CASE items[current_file] # 0
  <2>1. current_file = 1 /\ Newest = N /\ N \in Positions
    BY <1>1, <1>5 DEF Straight, NotWrapped, Newest, Positions
  <2>2. \A i \in Positions : items[i] # 0
    BY <1>1, <1>5 DEF Filled, Positions
  <2>3. \A i, j \in Positions : i < j => Age(i) > Age(j)
    BY <1>1, <2>1, AgeOf DEF Positions
  <2>4. \A i, j \in Positions : i < j => items[i] < items[j]
    BY <2>2, <2>3 DEF InOrder
  <2>5. items[Newest] >= timestamp
    <3>1. k = N \/ k < N
      BY <1>1 DEF Positions
    <3>2. k < N => items[k] < items[N]
      BY <2>1, <2>4
    <3>3. QED
      BY <1>1, <1>2, <2>1, <3>1, <3>2
  <2>6. QED
    BY <1>1, <2>1, <2>2, <2>4, <2>5 DEF Sorted, Positions
<1>6. QED
  BY <1>4, <1>5

\* What holds of the interval.
Narrowed ==
    /\ pc \in {"search", "check"} =>
          /\ offset = 0 /\ right <= Newest
          /\ items[right] >= timestamp
          /\ \A i \in Positions : i < left => items[i] < timestamp
    /\ pc = "check" => left = right

ClosestInv ==
    /\ SearchInv /\ Filled /\ InOrder
    /\ Straight => Narrowed
    /\ FindsClosest

\* Two records are twice the threshold apart, so one within the threshold is the closest.
LEMMA NearIsClosest ==
    ASSUME TypeOK, Spaced, NEW p \in Positions, items[p] # 0,
           Distance(items[p], timestamp) <= Threshold,
           NEW i \in Positions, items[i] # 0
    PROVE  Distance(items[p], timestamp) <= Distance(items[i], timestamp)
<1>1. items[p] \in Nat /\ items[i] \in Nat /\ timestamp \in Nat /\ Threshold \in Nat
  BY Values
<1>2. i = p \/ Distance(items[i], items[p]) >= 2 * Threshold
  BY DEF Spaced
<1>3. QED
  BY <1>1, <1>2 DEF Distance

\* The check of the place the search ended on and its lower neighbour misses nothing.
LEMMA CheckFinds ==
    ASSUME ClosestInv, Straight, Spaced, Check
    PROVE  ClosestFound'
<1> DEFINE p == true_position
<1>1. /\ TypeOK /\ pc = "check" /\ Sorted /\ Narrowed /\ p \in Positions
      /\ p = right /\ p = left /\ p <= Newest /\ Newest \in Positions
  BY StraightIsSorted, SearchInvInBounds
     DEF Check, ClosestInv, SearchInv, InBounds, true_position, Narrowed, TypeOK, Sorted
<1>2. /\ items[p] >= timestamp /\ items[p] # 0
      /\ \A i \in Positions : i < p => items[i] < timestamp
  BY <1>1 DEF Narrowed, Sorted
<1>3. /\ N \in Nat \ {0} /\ Threshold \in Nat
      /\ timestamp \in Nat /\ timestamp \in {0} \cup Times
      /\ \A i \in Positions : items[i] \in Nat /\ items[i] \in {0} \cup Times
  BY <1>1, Values
<1>4. UNCHANGED <<items, timestamp>>
  BY DEF Check, Return, args
<1>5. ASSUME NEW q \in Positions, result' = q, items[q] # 0,
             Distance(items[q], timestamp) <= Threshold
      PROVE  ClosestFound'
  <2>1. result' # 0
    BY <1>5, NAssumption DEF Positions
  <2>2. \A i \in Positions : items[i] # 0 =>
           Distance(items[q], timestamp) <= Distance(items[i], timestamp)
    BY <1>1, <1>5, NearIsClosest
  <2>3. QED
    BY <1>4, <1>5, <2>1, <2>2 DEF ClosestFound, Distance
<1>6. CASE LowerIsNear
  <2>1. p - 1 \in Positions /\ p - 1 < p /\ result' = p - 1
    BY <1>1, <1>3, <1>6 DEF LowerIsNear, Positions, Check, Return
  <2>2. items[p - 1] < timestamp /\ items[p - 1] # 0
    BY <1>1, <1>2, <1>3, <2>1 DEF Sorted, Positions
  <2>3. Minus(timestamp, items[p - 1]) = timestamp - items[p - 1]
    BY <1>3, <2>1, <2>2, MinusOf
  <2>4. Distance(items[p - 1], timestamp) <= Threshold
    BY <1>6, <2>2, <2>3 DEF LowerIsNear, Distance
  <2>5. QED
    BY <1>5, <2>1, <2>2, <2>4
<1>7. Minus(items[p], timestamp) = items[p] - timestamp
  BY <1>1, <1>2, <1>3, MinusOf
<1>8. CASE ~LowerIsNear /\ SelfIsNear
  <2>1. result' = p
    BY <1>8 DEF Check, Return
  <2>2. Distance(items[p], timestamp) <= Threshold
    BY <1>1, <1>2, <1>3, <1>7, <1>8 DEF SelfIsNear, Distance
  <2>3. QED
    BY <1>1, <1>2, <1>5, <2>1, <2>2
<1>9. CASE ~LowerIsNear /\ ~SelfIsNear
  <2>1. SUFFICES ASSUME NEW i \in Positions, items[i] # 0,
                        Distance(items[i], timestamp) <= Threshold
                 PROVE  FALSE
    BY <1>4 DEF ClosestFound, Distance
  <2>2. i <= Newest
    BY <1>1, <2>1 DEF Sorted
  <2>3. CASE i < p
    <3>1. p - 1 \in Positions /\ p > 1 /\ i <= p - 1 /\ p - 1 <= Newest
      BY <1>1, <1>3, <2>3 DEF Positions
    <3>2. items[i] <= items[p - 1] /\ items[p - 1] < timestamp
      <4>1. i = p - 1 \/ i < p - 1
        BY <3>1 DEF Positions
      <4>2. i < p - 1 => items[i] < items[p - 1]
        BY <1>1, <3>1 DEF Sorted
      <4>3. p - 1 < p
        BY <1>1, <1>3 DEF Positions
      <4>4. QED
        BY <1>2, <1>3, <3>1, <4>1, <4>2, <4>3
    <3>3. Minus(timestamp, items[p - 1]) = timestamp - items[p - 1]
      BY <1>3, <3>1, <3>2, MinusOf
    <3>4. timestamp - items[p - 1] <= Threshold
      BY <1>3, <2>1, <3>1, <3>2 DEF Distance
    <3>5. QED
      BY <1>9, <3>1, <3>3, <3>4 DEF LowerIsNear
  <2>4. CASE i >= p
    <3>1. items[i] >= items[p]
      <4>1. i = p \/ p < i
        BY <1>1, <2>4 DEF Positions
      <4>2. p < i => items[p] < items[i]
        BY <1>1, <2>2 DEF Sorted
      <4>3. QED
        BY <1>1, <1>3, <4>1, <4>2
    <3>2. items[p] - timestamp <= Threshold
      BY <1>1, <1>2, <1>3, <2>1, <3>1 DEF Distance
    <3>3. QED
      BY <1>7, <1>9, <3>2 DEF SelfIsNear
  <2>5. QED
    BY <1>1, <2>3, <2>4 DEF Positions
<1>10. QED
  BY <1>6, <1>8, <1>9

LEMMA ClosestStep == ClosestInv /\ [Next]_vars => ClosestInv'
<1> SUFFICES ASSUME ClosestInv, [Next]_vars PROVE ClosestInv'
  OBVIOUS
<1>1. SearchInv /\ SearchInv' /\ TypeOK /\ Interval
  BY SearchInvStep DEF ClosestInv, SearchInv
<1>2. UNCHANGED <<items, current_file, timestamp>>
  BY DEF Next, NoFiles, Start, Halve, Converge, Check, Return, args, vars
<1>3. /\ Filled' /\ InOrder' /\ (Straight' <=> Straight) /\ (Spaced' <=> Spaced)
      /\ Newest' = Newest
  BY <1>2 DEF ClosestInv, Filled, InOrder, Age, Straight, NotWrapped, NotAfterNewest, Spaced,
     Distance, Newest
<1>4. CASE NoFiles
  <2>1. ~Straight
    BY <1>1, <1>4, StraightIsSorted DEF ClosestInv, NoFiles
  <2>2. QED
    BY <1>1, <1>3, <2>1 DEF ClosestInv, FindsClosest, Straight
<1>5. CASE Start
  <2>1. ASSUME Straight PROVE Narrowed'
    <3>1. /\ items[Newest] >= timestamp /\ Newest \in Positions
          /\ ~(items[current_file] = 0 /\ current_file = 1)
      BY <1>1, <2>1, StraightIsSorted DEF ClosestInv, Sorted
    <3>2. left' = 1 /\ right' = Newest /\ offset' = 0 /\ pc' = "search"
      <4>1. CASE items[current_file] = 0
        BY <1>5, <4>1 DEF Start, Newest
      <4>2. CASE items[current_file] # 0
        <5>1. current_file = 1 /\ N \in Nat
          BY <2>1, <4>2, NAssumption DEF Straight, NotWrapped
        <5>2. QED
          BY <1>5, <4>2, <5>1 DEF Start, Newest
      <4>3. QED
        BY <4>1, <4>2
    <3>3. QED
      BY <1>2, <1>3, <3>1, <3>2 DEF Narrowed, Positions
  <2>2. QED
    BY <1>1, <1>3, <1>5, <2>1 DEF ClosestInv, FindsClosest, Start
<1>6. CASE Halve
  <2>1. ASSUME Straight PROVE Narrowed'
    <3>1. Sorted /\ Narrowed
      BY <1>1, <2>1, StraightIsSorted DEF ClosestInv
    <3>2. /\ pc = "search" /\ pc' = "search" /\ left < right /\ offset = 0 /\ offset' = 0
          /\ right <= Newest /\ Newest \in Positions /\ items[right] >= timestamp
          /\ \A i \in Positions : i < left => items[i] < timestamp
      BY <1>6, <3>1 DEF Halve, Narrowed, Sorted
    <3>3. /\ Middle \in Positions /\ Middle < right /\ left <= Middle
          /\ left \in Nat /\ right \in Positions
      BY <1>1, <1>6, <3>2, MiddleBetween, NAssumption
         DEF Halve, Middle, TypeOK, Interval, Positions
    <3>4. CASE items[Middle] < timestamp
      <4>1. left' = Middle + 1 /\ right' = right
        BY <1>6, <3>2, <3>3, <3>4 DEF Halve, Positions
      <4>2. \A i \in Positions : i < Middle + 1 => items[i] < timestamp
        <5>1. SUFFICES ASSUME NEW i \in Positions, i < Middle + 1 PROVE items[i] < timestamp
          OBVIOUS
        <5>2. i = Middle \/ i < Middle
          BY <3>3, <5>1 DEF Positions
        <5>3. i < Middle => items[i] < items[Middle]
          BY <3>1, <3>2, <3>3 DEF Sorted, Positions
        <5>4. items[i] \in Nat /\ items[Middle] \in Nat /\ timestamp \in Nat
          BY <1>1, <3>3, Values
        <5>5. QED
          BY <3>4, <5>2, <5>3, <5>4
      <4>3. QED
        BY <1>2, <1>3, <3>2, <4>1, <4>2 DEF Narrowed
    <3>5. CASE ~(items[Middle] < timestamp)
      <4>1. left' = left /\ right' = Middle
        BY <1>6, <3>2, <3>3, <3>5 DEF Halve, Positions
      <4>2. items[Middle] >= timestamp /\ Middle <= Newest
        BY <1>1, <3>2, <3>3, <3>5, Values DEF Positions
      <4>3. QED
        BY <1>2, <1>3, <3>2, <4>1, <4>2 DEF Narrowed
    <3>6. QED
      BY <3>4, <3>5
  <2>2. QED
    BY <1>1, <1>3, <1>6, <2>1 DEF ClosestInv, FindsClosest, Halve
<1>7. CASE Converge
  <2>1. ASSUME Straight PROVE Narrowed'
    <3>1. Narrowed /\ pc = "search" /\ pc' = "check" /\ left >= right
          /\ UNCHANGED <<left, right, offset>>
      BY <1>7, <2>1 DEF ClosestInv, Converge
    <3>2. left = right
      BY <1>1, <3>1 DEF Interval, TypeOK
    <3>3. QED
      BY <1>2, <1>3, <3>1, <3>2 DEF Narrowed
  <2>2. QED
    BY <1>1, <1>3, <1>7, <2>1 DEF ClosestInv, FindsClosest, Converge
<1>8. CASE Check
  <2>1. pc' = "done"
    BY <1>8 DEF Check, Return
  <2>2. Straight => Narrowed'
    BY <2>1 DEF Narrowed
  <2>3. FindsClosest'
    BY <1>3, <1>8, CheckFinds DEF FindsClosest, Straight
  <2>4. QED
    BY <1>1, <1>3, <2>2, <2>3 DEF ClosestInv
<1>9. CASE UNCHANGED vars
  <2>1. UNCHANGED <<left, right, offset, pc, result>>
    BY <1>9 DEF vars
  <2>2. (Narrowed' <=> Narrowed) /\ (ClosestFound' <=> ClosestFound)
    BY <1>2, <1>3, <2>1 DEF Narrowed, ClosestFound, Distance
  <2>3. QED
    BY <1>1, <1>3, <2>1, <2>2 DEF ClosestInv, FindsClosest, Straight
<1>10. QED
  BY <1>4, <1>5, <1>6, <1>7, <1>8, <1>9 DEF Next

(***************************************************************************)
(* "gets the hk file id that holds a timestamp closest to that given":     *)
(* while the ring has not wrapped, at the assumed cadence and for a time   *)
(* up to that of the newest record, for every size of the ring.            *)
(***************************************************************************)
THEOREM SearchFindsClosest ==
    ASSUME Clocked
    PROVE  Spec => []FindsClosest
<1>1. Init => ClosestInv
  BY SearchInvInit DEF Init, ClosestInv, Narrowed, FindsClosest
<1>2. ClosestInv => FindsClosest
  BY DEF ClosestInv
<1>3. QED
  BY <1>1, <1>2, ClosestStep, PTL DEF Spec
=============================================================================
