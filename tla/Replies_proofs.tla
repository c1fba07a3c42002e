--------------------------- MODULE Replies_proofs ---------------------------
(***************************************************************************)
(* Theorems about the replies, for every size of the drivers' structures   *)
(* and texts, and every row of the tables.                                 *)
(***************************************************************************)
EXTENDS Replies, WellFoundedInduction, SequenceTheorems, FiniteSetTheorems,
        FunctionTheorems, TLAPS

\* Induction over a set, which needs no operator as a parameter.
LEMMA SetInduction ==
    ASSUME NEW T, 0 \in T, \A n \in Nat : n \in T => n + 1 \in T
    PROVE  Nat \subseteq T
<1> DEFINE X == Nat \ T
<1> SUFFICES ASSUME X # {} PROVE FALSE
  OBVIOUS
<1>1. PICK x \in X : \A y \in X : ~(<<y, x>> \in OpToRel(<, Nat))
  <2> HIDE DEF X
  <2>1. X \subseteq Nat
    BY DEF X
  <2> QED
    BY <2>1, NatLessThanWellFounded, WFMin
<1>2. x \in Nat /\ x # 0
  OBVIOUS
<1>3. PICK y \in Nat : y + 1 = x
  <2>1. x - 1 \in Nat /\ (x - 1) + 1 = x
    BY <1>2
  <2> QED
    BY <2>1
<1>4. <<y, x>> \in OpToRel(<, Nat)
  BY <1>2, <1>3 DEF OpToRel
<1>5. y \notin X
  <2> HIDE DEF X
  <2> QED
    BY <1>1, <1>4, Zenon
<1>6. y + 1 \in T
  BY <1>3, <1>5
<1> QED
  <2>1. x \notin T
    OBVIOUS
  <2> QED
    BY <2>1, <1>3, <1>6

-----------------------------------------------------------------------------
(***************************************************************************)
(* Sums.  A function defined by recursion over 0..n exists, and what the   *)
(* results of at most ten calls add up to fits an int8_t well enough.      *)
(***************************************************************************)
LEMMA PrefixSums ==
    ASSUME NEW n \in Nat, NEW r \in [1..n -> Int]
    PROVE  \E f \in [0..n -> Int] : f[0] = 0 /\ \A k \in 1..n : f[k] = f[k - 1] + r[k]
<1> DEFINE Holds(m) == \E f \in [0..m -> Int] :
                         f[0] = 0 /\ \A k \in 1..m : f[k] = f[k - 1] + r[k]
           T == {m \in Nat : m <= n => Holds(m)}
<1>1. 0 \in T
  <2> DEFINE f == [k \in 0..0 |-> 0]
  <2>1. f \in [0..0 -> Int] /\ f[0] = 0 /\ \A k \in 1..0 : f[k] = f[k - 1] + r[k]
    OBVIOUS
  <2> QED
    BY <2>1
<1>2. ASSUME NEW m \in Nat, m \in T PROVE m + 1 \in T
  <2> SUFFICES ASSUME m + 1 <= n PROVE Holds(m + 1)
    <3> HIDE DEF Holds
    <3> QED
      OBVIOUS
  <2>1. PICK f \in [0..m -> Int] : f[0] = 0 /\ \A k \in 1..m : f[k] = f[k - 1] + r[k]
    BY <1>2, SMTT(60)
  <2> DEFINE g == [k \in 0..(m + 1) |-> IF k = m + 1 THEN f[m] + r[m + 1] ELSE f[k]]
  <2>2. g \in [0..(m + 1) -> Int]
    BY <2>1, SMTT(60)
  <2>3. g[0] = 0 /\ \A k \in 1..(m + 1) : g[k] = g[k - 1] + r[k]
    BY <2>1
  <2> QED
    BY <2>2, <2>3
<1>3. Nat \subseteq T
  <2> HIDE DEF T
  <2> QED
    BY <1>1, <1>2, SetInduction
<1> QED
  <2> HIDE DEF Holds
  <2>1. Holds(n)
    BY <1>3
  <2> QED
    BY <2>1 DEF Holds

\* The recursive definition inside Sum has the values it says.
LEMMA SumIsASum ==
    ASSUME NEW n \in Nat, returned \in [1..n -> Int], Len(returned) = n
    PROVE  \E f \in [0..n -> Int] :
              /\ f[0] = 0 /\ \A k \in 1..n : f[k] = f[k - 1] + returned[k]
              /\ Sum = f[n]
<1> DEFINE R(f) == [i \in 0..n |-> IF i = 0 THEN 0 ELSE f[i - 1] + returned[i]]
           u == CHOOSE f : f = R(f)
<1>1. Sum = u[n]
  BY DEF Sum
<1>2. PICK f \in [0..n -> Int] : f[0] = 0 /\ \A k \in 1..n : f[k] = f[k - 1] + returned[k]
  BY PrefixSums
<1>3. f = R(f)
  BY <1>2
<1>4. u = R(u)
  <2> HIDE DEF R
  <2> QED
    BY <1>3
<1>5. \A k \in 0..n : u[k] = IF k = 0 THEN 0 ELSE u[k - 1] + returned[k]
  <2> HIDE DEF u
  <2> QED
    BY <1>4
<1> DEFINE T == {k \in Nat : k <= n => u[k] = f[k]}
<1>6. 0 \in T
  <2> HIDE DEF u
  <2> QED
    BY <1>2, <1>5
<1>7. \A k \in Nat : k \in T => k + 1 \in T
  <2> HIDE DEF u
  <2> QED
    BY <1>2, <1>5, SMTT(60)
<1>8. Nat \subseteq T
  <2> HIDE DEF T
  <2> QED
    BY <1>6, <1>7, SetInduction
<1>9. u[n] = f[n]
  BY <1>8
<1> QED
  BY <1>1, <1>2, <1>9

LEMMA OneMoreResult ==
    \A a, b \in Int, k \in Nat :
        -25 * k <= a /\ a <= 0 /\ -25 <= b /\ b <= 0
        => /\ -25 * (k + 1) <= a + b /\ a + b <= 0
           /\ a + b = 0 <=> (a = 0 /\ b = 0)
OBVIOUS

LEMMA Int8OfSum == \A x \in Int : -250 <= x /\ x <= 0 => (Int8(x) = 0 <=> x = 0)
BY DEF Int8

\* What at most ten calls return, each between -25 and 0, adds up to 0 modulo 256
\* only if none of them failed.
LEMMA FailuresAddUp ==
    ASSUME NEW n \in Nat, n <= 10, returned \in [1..n -> Int], Len(returned) = n,
           \A i \in 1..n : -25 <= returned[i] /\ returned[i] <= 0
    PROVE  Int8(Sum) = 0 <=> \A i \in 1..n : returned[i] = 0
<1>2. PICK f \in [0..n -> Int] :
         /\ f[0] = 0 /\ \A k \in 1..n : f[k] = f[k - 1] + returned[k]
         /\ Sum = f[n]
  BY SumIsASum
<1> DEFINE Fits(k) == /\ -25 * k <= f[k] /\ f[k] <= 0
                      /\ (f[k] = 0 <=> \A i \in 1..k : returned[i] = 0)
           T == {k \in Nat : k <= n => Fits(k)}
<1>3. 0 \in T
  <2>1. Fits(0)
    BY <1>2
  <2> QED
    BY <2>1
<1>4. ASSUME NEW k \in Nat, k \in T, k + 1 <= n PROVE Fits(k + 1)
  <2>1. k <= n /\ k + 1 \in 1..n /\ k \in 0..n
    BY <1>4
  <2>2. Fits(k)
    <3> HIDE DEF Fits
    <3> QED
      BY <1>4, <2>1
  <2>3. /\ f[k + 1] = f[k] + returned[k + 1] /\ f[k] \in Int /\ returned[k + 1] \in Int
        /\ -25 <= returned[k + 1] /\ returned[k + 1] <= 0
    BY <1>2, <2>1
  <2>4. /\ -25 * (k + 1) <= f[k + 1] /\ f[k + 1] <= 0
        /\ f[k + 1] = 0 <=> f[k] = 0 /\ returned[k + 1] = 0
    BY <2>2, <2>3, OneMoreResult, SMTT(60)
  <2>5. f[k] = 0 /\ returned[k + 1] = 0 <=> \A i \in 1..(k + 1) : returned[i] = 0
    BY <2>2
  <2> QED
    BY <2>4, <2>5
<1>5. Nat \subseteq T
  <2> HIDE DEF Fits
  <2>1. \A k \in Nat : k \in T => k + 1 \in T
    BY <1>4
  <2> HIDE DEF T
  <2> QED
    BY <1>3, <2>1, SetInduction
<1>6. Fits(n)
  <2> HIDE DEF Fits
  <2> QED
    BY <1>5
<1>7. f[n] \in Int /\ -250 <= f[n] /\ f[n] <= 0
  BY <1>6
<1> QED
  BY <1>2, <1>6, <1>7, Int8OfSum

-----------------------------------------------------------------------------
(***************************************************************************)
(* Folds.  The operation comes as a function on data, <<value, position>>, *)
(* so that the lemma can be used for several.                              *)
(***************************************************************************)
IsFold(n, base, op, it) ==
    it = [s \in SUBSET (1..n) |->
            IF s = {} THEN base ELSE op[<<it[s \ {Max(s)}], Max(s)>>]]

LEMMA MaxIs ==
    ASSUME NEW m \in Nat, NEW s \in SUBSET (1..m), m \in s
    PROVE  Max(s) = m
<1>1. \A x \in s : (\A y \in s : x >= y) <=> x = m
  OBVIOUS
<1> QED
  BY <1>1 DEF Max

LEMMA MaxIsMember ==
    ASSUME NEW n \in Nat, NEW s \in SUBSET (1..n), s # {}
    PROVE  Max(s) \in s
<1> DEFINE T == {m \in Nat : \A t \in SUBSET (1..m) : t # {} => Max(t) \in t}
<1>1. 0 \in T
  <2>1. 1..0 = {}
    OBVIOUS
  <2> QED
    BY <2>1
<1>2. ASSUME NEW m \in Nat, m \in T PROVE m + 1 \in T
  <2> SUFFICES ASSUME NEW t \in SUBSET (1..(m + 1)), t # {} PROVE Max(t) \in t
    OBVIOUS
  <2>1. CASE m + 1 \in t
    BY <2>1, MaxIs
  <2>2. CASE m + 1 \notin t
    <3>1. \A x \in t : x \in 1..m
      BY <2>2
    <3> QED
      BY <1>2, <3>1
  <2> QED
    BY <2>1, <2>2
<1>3. Nat \subseteq T
  <2> HIDE DEF T
  <2> QED
    BY <1>1, <1>2, SetInduction
<1> QED
  BY <1>3

LEMMA FoldExists ==
    ASSUME NEW n \in Nat, NEW V, NEW base \in V, NEW op \in [V \X (1..n) -> V]
    PROVE  \E it \in [SUBSET (1..n) -> V] : IsFold(n, base, op, it)
<1> DEFINE R(m, g) == [s \in SUBSET (1..m) |->
                         IF s = {} THEN base ELSE op[<<g[s \ {Max(s)}], Max(s)>>]]
           Exists(m) == \E g \in [SUBSET (1..m) -> V] : g = R(m, g)
           T == {m \in Nat : m <= n => Exists(m)}
<1>1. 0 \in T
  <2> DEFINE g == [s \in SUBSET (1..0) |-> base]
  <2>1. g \in [SUBSET (1..0) -> V] /\ g = R(0, g)
    OBVIOUS
  <2> QED
    BY <2>1
<1>2. ASSUME NEW m \in Nat, m \in T, m + 1 <= n PROVE Exists(m + 1)
  <2>1. PICK g \in [SUBSET (1..m) -> V] : g = R(m, g)
    <3>1. Exists(m)
      <4> HIDE DEF Exists
      <4> QED
        BY <1>2
    <3> QED
      BY <3>1
  <2> DEFINE h == [s \in SUBSET (1..(m + 1)) |->
                     IF m + 1 \in s THEN op[<<g[s \ {m + 1}], m + 1>>] ELSE g[s]]
  <2>2. ASSUME NEW s \in SUBSET (1..(m + 1))
        PROVE  h[s] = IF s = {} THEN base ELSE op[<<h[s \ {Max(s)}], Max(s)>>]
    <3>1. CASE m + 1 \in s
      <4>1. Max(s) = m + 1
        BY <3>1, MaxIs
      <4>2. s \ {m + 1} \in SUBSET (1..(m + 1)) /\ m + 1 \notin s \ {m + 1}
        OBVIOUS
      <4>3. h[s \ {m + 1}] = g[s \ {m + 1}]
        BY <4>2
      <4> QED
        BY <3>1, <4>1, <4>3
    <3>2. CASE m + 1 \notin s
      <4>1. s \in SUBSET (1..m) /\ s \ {Max(s)} \in SUBSET (1..m)
        <5>1. \A x \in s : x \in 1..m
          BY <3>2
        <5> QED
          BY <5>1
      <4>2. h[s] = g[s] /\ h[s \ {Max(s)}] = g[s \ {Max(s)}]
        BY <3>2
      <4>3. g[s] = IF s = {} THEN base ELSE op[<<g[s \ {Max(s)}], Max(s)>>]
        BY <2>1, <4>1
      <4> QED
        BY <4>2, <4>3
    <3> QED
      BY <3>1, <3>2
  <2>3. h = R(m + 1, h)
    <3> DEFINE q == R(m + 1, h)
    <3>1. DOMAIN h = SUBSET (1..(m + 1)) /\ DOMAIN q = SUBSET (1..(m + 1))
      OBVIOUS
    <3>2. \A s \in SUBSET (1..(m + 1)) : h[s] = q[s]
      BY <2>2
    <3>3. h = [s \in DOMAIN h |-> h[s]] /\ q = [s \in DOMAIN q |-> q[s]]
      OBVIOUS
    <3> QED
      <4> HIDE DEF h, q
      <4>1. h = q
        BY <3>1, <3>2, <3>3
      <4> QED
        BY <4>1 DEF q
  <2>4. ASSUME NEW s \in SUBSET (1..(m + 1)) PROVE h[s] \in V
    <3>1. CASE m + 1 \in s
      <4>1. s \ {m + 1} \in SUBSET (1..m) /\ m + 1 \in 1..n
        BY <1>2
      <4> QED
        BY <3>1, <4>1
    <3>2. CASE m + 1 \notin s
      <4>1. \A x \in s : x \in 1..m
        BY <3>2
      <4> QED
        BY <3>2, <4>1
    <3> QED
      BY <3>1, <3>2
  <2> QED
    BY <2>3, <2>4
<1>3. \A m \in Nat : m \in T => m + 1 \in T
  <2> HIDE DEF Exists
  <2> QED
    BY <1>2
<1>4. Nat \subseteq T
  <2> HIDE DEF T
  <2> QED
    BY <1>1, <1>3, SetInduction
<1> QED
  <2> HIDE DEF Exists
  <2>1. Exists(n)
    BY <1>4
  <2> QED
    BY <2>1 DEF Exists, IsFold

\* it folds op over the subsets of 1..n, as far as its values are in V.
Folding(n, V, base, op, it) ==
    /\ it[{}] = base
    /\ \A s \in SUBSET (1..n) :
          s # {} /\ it[s \ {Max(s)}] \in V => it[s] = op[<<it[s \ {Max(s)}], Max(s)>>]

\* f has the values of that fold, position by position.
Steps(n, base, op, it, f) ==
    /\ f[0] = base /\ \A k \in 1..n : f[k] = op[<<f[k - 1], k>>]
    /\ it[1..n] = f[n]

LEMMA FoldSteps ==
    ASSUME NEW n \in Nat, NEW V, NEW base \in V, NEW op \in [V \X (1..n) -> V],
           NEW it, Folding(n, V, base, op, it)
    PROVE  \E f \in [0..n -> V] : Steps(n, base, op, it, f)
<1> DEFINE f == [k \in 0..n |-> it[1..k]]
<1>1. f[0] = base
  <2>1. 1..0 = {}
    OBVIOUS
  <2> QED
    BY <2>1 DEF Folding
<1>2. ASSUME NEW k \in 1..n, f[k - 1] \in V PROVE f[k] = op[<<f[k - 1], k>>]
  <2>1. 1..k \in SUBSET (1..n) /\ 1..k # {} /\ (1..k) \ {k} = 1..(k - 1)
    OBVIOUS
  <2>2. Max(1..k) = k
    BY MaxIs
  <2>3. f[k] = it[1..k] /\ f[k - 1] = it[1..(k - 1)]
    OBVIOUS
  <2> QED
    <3> HIDE DEF f
    <3> QED
      BY <1>2, <2>1, <2>2, <2>3 DEF Folding
<1> DEFINE T == {k \in Nat : k <= n => f[k] \in V}
<1>3. 0 \in T
  BY <1>1
<1>4. ASSUME NEW k \in Nat, k \in T PROVE k + 1 \in T
  <2> HIDE DEF f
  <2> SUFFICES ASSUME k + 1 <= n PROVE f[k + 1] \in V
    OBVIOUS
  <2>1. k + 1 \in 1..n /\ f[k] \in V /\ (k + 1) - 1 = k
    BY <1>4
  <2>2. f[k + 1] = op[<<f[k], k + 1>>]
    BY <1>2, <2>1
  <2> QED
    BY <2>1, <2>2
<1>5. Nat \subseteq T
  <2> HIDE DEF T
  <2> QED
    BY <1>3, <1>4, SetInduction
<1>6. \A k \in 0..n : f[k] \in V
  <2> HIDE DEF f
  <2> QED
    BY <1>5
<1>7. f \in [0..n -> V] /\ it[1..n] = f[n]
  BY <1>6
<1> QED
  <2> HIDE DEF f
  <2> QED
    BY <1>1, <1>2, <1>6, <1>7 DEF Steps

-----------------------------------------------------------------------------
(***************************************************************************)
(* The rows.                                                               *)
(***************************************************************************)
AnyIn == {f \in [at : Nat, n : Nat,
                 as : {"bytes", "net", "net16", "cnv", "cnv16", "text", "padded", "low",
                       "narrow", "host", "raw", "enum", "nothing"}] :
            f.as = "raw" => f.n = StructSize}
AnyOut == {o \in [at : Nat, n : Nat,
                  as : {"bytes", "host", "net", "narrow", "text", "raw", "members", "hton32"},
                  from : {"driver", "preset", "argument", "zero", "nowhere"}] :
             o.as \in {"raw", "members", "hton32"} => o.n = StructSize}

\* The size of outputs is the sum of their sizes.
LEMMA OutSizeAddsUp ==
    ASSUME NEW out \in Seq(AnyOut)
    PROVE  \E f \in [0..Len(out) -> Nat] :
              /\ f[0] = 0 /\ \A k \in 1..Len(out) : f[k] = f[k - 1] + out[k].n
              /\ OutSize(out) = f[Len(out)]
<1> DEFINE n == Len(out)
           op == [p \in Nat \X (1..n) |-> p[1] + out[p[2]].n]
           B(g) == [s \in SUBSET (1..n) |->
                      IF s = {} THEN 0 ELSE g[s \ {Max(s)}] + out[Max(s)].n]
           it == CHOOSE g : g = B(g)
<1>1. n \in Nat /\ DOMAIN out = 1..n /\ \A k \in 1..n : out[k].n \in Nat
  <2>1. \A k \in 1..n : out[k] \in AnyOut
    OBVIOUS
  <2> QED
    BY <2>1 DEF AnyOut
<1>2. OutSize(out) = it[1..n]
  BY <1>1 DEF OutSize, FoldLeft, MapThenFoldSet
<1>3. op \in [Nat \X (1..n) -> Nat]
  BY <1>1
<1>4. \A a \in Nat, k \in 1..n : op[<<a, k>>] = a + out[k].n
  BY <1>1
<1> HIDE DEF op, n
<1>5. PICK g \in [SUBSET (1..n) -> Nat] : IsFold(n, 0, op, g)
  <2>1. n \in Nat /\ 0 \in Nat
    BY <1>1
  <2>2. \A b \in Nat, o \in [Nat \X (1..n) -> Nat] :
           \E g \in [SUBSET (1..n) -> Nat] : IsFold(n, b, o, g)
    BY <2>1, FoldExists
  <2> QED
    BY <2>1, <2>2, <1>3
<1>6. ASSUME NEW s \in SUBSET (1..n), s # {}
      PROVE  Max(s) \in 1..n /\ s \ {Max(s)} \in SUBSET (1..n)
  BY <1>1, <1>6, MaxIsMember
<1>7. g = B(g)
  <2>1. \A s \in SUBSET (1..n) : s # {} => g[s] = g[s \ {Max(s)}] + out[Max(s)].n
    BY <1>4, <1>5, <1>6 DEF IsFold
  <2>2. g[{}] = 0
    BY <1>5 DEF IsFold
  <2> QED
    BY <2>1, <2>2
<1>8. it = B(it)
  <2> HIDE DEF B
  <2> QED
    BY <1>7
<1> HIDE DEF it
<1>9. Folding(n, Nat, 0, op, it)
  <2>1. it[{}] = 0
    BY <1>8
  <2>2. ASSUME NEW s \in SUBSET (1..n), s # {}, it[s \ {Max(s)}] \in Nat
        PROVE  it[s] = op[<<it[s \ {Max(s)}], Max(s)>>]
    BY <1>4, <1>6, <1>8, <2>2
  <2> QED
    BY <2>1, <2>2 DEF Folding
<1>10. PICK f \in [0..n -> Nat] : Steps(n, 0, op, it, f)
  <2>1. n \in Nat /\ 0 \in Nat
    BY <1>1
  <2>2. \A b \in Nat, o \in [Nat \X (1..n) -> Nat] : Folding(n, Nat, b, o, it) =>
           \E f \in [0..n -> Nat] : Steps(n, b, o, it, f)
    BY <2>1, FoldSteps
  <2> QED
    BY <2>1, <2>2, <1>3, <1>9
<1>11. ASSUME NEW k \in 1..n PROVE f[k] = f[k - 1] + out[k].n
  <2>1. f[k - 1] \in Nat
    BY <1>1, <1>10
  <2> QED
    BY <1>4, <1>10, <2>1 DEF Steps
<1> QED
  BY <1>2, <1>10, <1>11 DEF n, Steps

\* Where the inputs of a subservice end is the furthest end of one of them.
LEMMA NeededIsFurthest ==
    ASSUME NEW s, Rows[s].in \in Seq(AnyIn)
    PROVE  \E f \in [0..Len(Rows[s].in) -> Nat] :
              /\ f[0] = 0
              /\ \A k \in 1..Len(Rows[s].in) :
                    LET e == Rows[s].in[k].at + Rows[s].in[k].n
                    IN  f[k] = IF f[k - 1] > e THEN f[k - 1] ELSE e
              /\ Needed(s) = 1 + f[Len(Rows[s].in)]
<1> DEFINE in == Rows[s].in
           n == Len(in)
           End(k) == in[k].at + in[k].n
           op == [p \in Nat \X (1..n) |-> IF p[1] > End(p[2]) THEN p[1] ELSE End(p[2])]
           B(g) == [t \in SUBSET (1..n) |->
                      IF t = {} THEN 0
                      ELSE IF g[t \ {Max(t)}] > in[Max(t)].at + in[Max(t)].n
                           THEN g[t \ {Max(t)}] ELSE in[Max(t)].at + in[Max(t)].n]
           it == CHOOSE g : g = B(g)
<1>1. n \in Nat /\ DOMAIN in = 1..n /\ \A k \in 1..n : in[k].at \in Nat /\ in[k].n \in Nat
  <2>1. \A k \in 1..n : in[k] \in AnyIn
    OBVIOUS
  <2> QED
    BY <2>1, SMTT(60) DEF AnyIn
<1>2. Needed(s) = 1 + it[1..n]
  BY <1>1 DEF Needed, FoldLeft, MapThenFoldSet
<1>3. op \in [Nat \X (1..n) -> Nat]
  BY <1>1, SMTT(60)
<1>4. \A a \in Nat, k \in 1..n : op[<<a, k>>] = IF a > End(k) THEN a ELSE End(k)
  BY <1>1
<1> HIDE DEF op, n
<1>5. PICK g \in [SUBSET (1..n) -> Nat] : IsFold(n, 0, op, g)
  <2>1. n \in Nat /\ 0 \in Nat
    BY <1>1
  <2>2. \A b \in Nat, o \in [Nat \X (1..n) -> Nat] :
           \E h \in [SUBSET (1..n) -> Nat] : IsFold(n, b, o, h)
    BY <2>1, FoldExists
  <2> QED
    BY <2>1, <2>2, <1>3
<1>6. ASSUME NEW t \in SUBSET (1..n), t # {}
      PROVE  Max(t) \in 1..n /\ t \ {Max(t)} \in SUBSET (1..n)
  BY <1>1, <1>6, MaxIsMember
<1>7. g = B(g)
  <2>1. \A t \in SUBSET (1..n) : t # {} =>
           g[t] = IF g[t \ {Max(t)}] > End(Max(t)) THEN g[t \ {Max(t)}] ELSE End(Max(t))
    <3> SUFFICES ASSUME NEW t \in SUBSET (1..n), t # {}
                 PROVE  g[t] = IF g[t \ {Max(t)}] > End(Max(t)) THEN g[t \ {Max(t)}]
                               ELSE End(Max(t))
      OBVIOUS
    <3>1. PICK m \in 1..n : m = Max(t) /\ t \ {m} \in SUBSET (1..n)
      BY <1>6
    <3>2. g[t] = op[<<g[t \ {m}], m>>] /\ g[t \ {m}] \in Nat
      BY <1>5, <3>1 DEF IsFold
    <3> HIDE DEF End
    <3> QED
      BY <1>4, <3>1, <3>2
  <2>2. g[{}] = 0
    BY <1>5 DEF IsFold
  <2> QED
    BY <2>1, <2>2
<1>8. it = B(it)
  <2> HIDE DEF B
  <2> QED
    BY <1>7
<1> HIDE DEF it
<1>9. Folding(n, Nat, 0, op, it)
  <2>1. it[{}] = 0
    BY <1>8
  <2>2. ASSUME NEW t \in SUBSET (1..n), t # {}, it[t \ {Max(t)}] \in Nat
        PROVE  it[t] = op[<<it[t \ {Max(t)}], Max(t)>>]
    BY <1>4, <1>6, <1>8, <2>2
  <2> QED
    BY <2>1, <2>2 DEF Folding
<1>10. PICK f \in [0..n -> Nat] : Steps(n, 0, op, it, f)
  <2>1. n \in Nat /\ 0 \in Nat
    BY <1>1
  <2>2. \A b \in Nat, o \in [Nat \X (1..n) -> Nat] : Folding(n, Nat, b, o, it) =>
           \E h \in [0..n -> Nat] : Steps(n, b, o, it, h)
    BY <2>1, FoldSteps
  <2> QED
    BY <2>1, <2>2, <1>3, <1>9
<1>11. ASSUME NEW k \in 1..n PROVE f[k] = IF f[k - 1] > End(k) THEN f[k - 1] ELSE End(k)
  <2>1. f[k - 1] \in Nat
    BY <1>1, <1>10
  <2> QED
    BY <1>4, <1>10, <2>1 DEF Steps
<1> QED
  BY <1>2, <1>10, <1>11 DEF n, Steps

-----------------------------------------------------------------------------
(***************************************************************************)
(* What the theorems need of the rows.  A row is Plain when nothing about  *)
(* it is an exception; Fits says which exceptions a subservice makes.      *)
(***************************************************************************)
Row == [in : Seq(AnyIn), out : Seq(AnyOut), calls : 0..10, status : {"sum", "first", "zero"},
        check : Nat, len : Nat, refuses : BOOLEAN, ifok : BOOLEAN,
        result : {"SATR_OK", "SATR_PKT_ILLEGAL_SUBSERVICE"}]

\* Each begins where the one before ends.
Tiled(seq) ==
    \A k \in DOMAIN seq : seq[k].at = IF k = 1 THEN 0 ELSE seq[k - 1].at + seq[k - 1].n

FromDriver(o) == o.from \in {"driver", "preset"}

\* An output that repeats the first argument is not longer than that.
ArgumentGiven(in, out) ==
    \A k \in DOMAIN out :
        out[k].from = "argument" =>
            /\ in # <<>> /\ in[1].as = "bytes" /\ out[k].n <= in[1].n
            /\ \A i \in DOMAIN in : in[i].as \notin {"text", "padded"}

Sized(r) ==
    /\ r.len # 0 => 2 <= r.len /\ r.len <= 2 + OutSize(r.out)
    /\ \A k \in DOMAIN r.out :
          /\ FromDriver(r.out[k]) => r.len = 2 + OutSize(r.out)
          /\ r.out[k].as = "narrow" => r.out[k].n <= 4

RowOK(r) ==
    /\ r \in Row /\ Sized(r) /\ ArgumentGiven(r.in, r.out)
    /\ r.status = "first" => r.calls > 0

InHostFree(in) ==
    \A k \in DOMAIN in :
        in[k].as \in {"bytes", "net", "net16", "text", "padded", "low", "nothing"}

OutHostFree(out) ==
    \A k \in DOMAIN out :
        \/ out[k].as \in {"bytes", "net", "text", "members"}
        \/ out[k].as = "host" /\ out[k].n = 1

\* Arguments are taken from the request, each from a part of its own.
FromRequest(in) ==
    /\ \A k \in DOMAIN in :
          /\ in[k].as \in {"bytes", "net", "net16", "host", "cnv", "cnv16", "text", "narrow",
                           "raw"}
          /\ in[k].as = "narrow" => in[k].n <= 4
    /\ \/ Tiled(in) /\ \A k \in DOMAIN in : in[k].as # "text"
       \/ Len(in) = 1 /\ in[1].as = "text"

Fits(s, r) ==
    /\ RowOK(r)
    /\ s \in HostOrdered \/ (InHostFree(r.in) /\ OutHostFree(r.out))
    /\ \/ s \in {"ADCS_FILE_UPLOAD_PACKET", "ADCS_SET_LOG_CONFIG", "UHF_SET_DEST", "UHF_SET_SRC",
                 "SET_UHF_WATCHDOG_TIMEOUT", "SET_SBAND_WATCHDOG_TIMEOUT",
                 "SET_CHARON_WATCHDOG_TIMEOUT", "DEPLOY_DEPLOYABLES"}
       \/ FromRequest(r.in)
    /\ s = "UHF_SET_I2C" \/ \A k \in DOMAIN r.in : r.in[k].as # "narrow"
    /\ s = "ADCS_GET_LOG_CONFIG" \/ Tiled(r.out)
    /\ \/ s \in NarrowValues
       \/ \A k \in DOMAIN r.out : FromDriver(r.out[k]) => r.out[k].as # "narrow"
    /\ s \in NarrowMembers \/ \A k \in DOMAIN r.out : r.out[k].as # "hton32"

AllFit(f) == \A s \in DOMAIN f : Fits(s, f[s])

\* h holds the cases of two groups, and those of the first win.
Joins(h, f, g) ==
    /\ DOMAIN h = DOMAIN f \cup DOMAIN g
    /\ \A s \in DOMAIN f : h[s] = f[s]
    /\ \A s \in DOMAIN g : s \in DOMAIN f \/ h[s] = g[s]

LEMMA JoinedCases == \A f, g : Joins(f ++ g, f, g)
<1>1. \A f, g : f ++ g = Joined(f, g)
  BY DEF ++
<1>2. \A f, g : Joins(Joined(f, g), f, g)
  BY DEF Joined, Joins
<1> QED
  BY ONLY <1>1, <1>2

LEMMA FitBoth == ASSUME NEW f, NEW g, AllFit(f), AllFit(g) PROVE AllFit(f ++ g)
<1>1. PICK h : h = f ++ g /\ Joins(h, f, g)
  BY JoinedCases
<1>2. AllFit(h)
  BY ONLY AllFit(f), AllFit(g), <1>1 DEF AllFit, Joins
<1> QED
  BY ONLY <1>1, <1>2

LEMMA FitCase == ASSUME NEW s, NEW r, Fits(s, r) PROVE AllFit(Case(s, r))
BY DEF AllFit, Case

LEMMA FitEach ==
    ASSUME NEW names, NEW r, \A s \in names : Fits(s, r) PROVE AllFit(Each(names, r))
BY DEF AllFit, Each

PlainIn(in) ==
    /\ in \in Seq(AnyIn) /\ Tiled(in)
    /\ \A k \in DOMAIN in : in[k].as \in {"bytes", "net", "net16"}

PlainOut(out) == out \in Seq(AnyOut) /\ Tiled(out) /\ OutHostFree(out)

Plain(r) == RowOK(r) /\ PlainIn(r.in) /\ PlainOut(r.out)

LEMMA PlainFits == ASSUME NEW r, Plain(r) PROVE \A s : Fits(s, r)
BY DEF Plain, Fits, PlainIn, PlainOut, InHostFree, FromRequest, OutHostFree

-----------------------------------------------------------------------------
\* The constructors.
LEMMA OutSizes ==
    ASSUME NEW out \in Seq(AnyOut)
    PROVE  OutSize(out) \in Nat /\ (out = <<>> => OutSize(out) = 0)
<1>1. PICK f \in [0..Len(out) -> Nat] : f[0] = 0 /\ OutSize(out) = f[Len(out)]
  BY OutSizeAddsUp
<1>2. Len(out) \in Nat /\ (out = <<>> => Len(out) = 0)
  OBVIOUS
<1>3. Len(out) \in 0..Len(out)
  BY <1>2
<1> QED
  BY <1>1, <1>2, <1>3

LEMMA RowChanges ==
    ASSUME NEW r \in Row
    PROVE  /\ \A o \in Seq(AnyOut) : [r EXCEPT !.out = o] \in Row
           /\ \A n \in Nat : [r EXCEPT !.check = n] \in Row
           /\ \A n \in Nat : [r EXCEPT !.len = n] \in Row
<1>1. \A o \in Seq(AnyOut) : [r EXCEPT !.out = o] \in Row
  BY DEF Row
<1>2. \A n \in Nat : [r EXCEPT !.check = n] \in Row
  BY DEF Row
<1>3. \A n \in Nat : [r EXCEPT !.len = n] \in Row
  BY DEF Row
<1> QED
  BY <1>1, <1>2, <1>3

LEMMA CmdRow ==
    ASSUME NEW in \in Seq(AnyIn)
    PROVE  RowOK(Cmd(in)) /\ Cmd(in).in = in /\ Cmd(in).out = <<>>
<1>1. <<>> \in Seq(AnyOut) /\ OutSize(<<>>) = 0
  <2>1. <<>> \in Seq(AnyOut)
    OBVIOUS
  <2> QED
    BY <2>1, OutSizes
<1>2. Cmd(in) \in Row
  BY <1>1 DEF Cmd, Row
<1>3. /\ Cmd(in).in = in /\ Cmd(in).out = <<>> /\ Cmd(in).len = 2
      /\ Cmd(in).status = "sum"
  BY DEF Cmd
<1>4. Sized(Cmd(in)) /\ ArgumentGiven(Cmd(in).in, Cmd(in).out)
  BY <1>1, <1>3 DEF Sized, ArgumentGiven
<1> QED
  BY <1>2, <1>3, <1>4 DEF RowOK

LEMMA ReplyRow ==
    ASSUME NEW in \in Seq(AnyIn), NEW out \in Seq(AnyOut), ArgumentGiven(in, out),
           \A k \in DOMAIN out : out[k].as = "narrow" => out[k].n <= 4
    PROVE  RowOK(Reply(in, out)) /\ Reply(in, out).in = in /\ Reply(in, out).out = out
<1>1. OutSize(out) \in Nat
  BY OutSizes
<1>2. Reply(in, out) \in Row
  <2>1. Cmd(in) \in Row
    BY CmdRow DEF RowOK
  <2>2. [Cmd(in) EXCEPT !.out = out] \in Row
    BY <2>1, RowChanges
  <2>3. [[Cmd(in) EXCEPT !.out = out] EXCEPT !.check = OutSize(out)] \in Row
    BY <1>1, <2>2, RowChanges
  <2>4. [[[Cmd(in) EXCEPT !.out = out] EXCEPT !.check = OutSize(out)]
            EXCEPT !.len = 2 + OutSize(out)] \in Row
    <3>1. PICK n \in Nat : n = 2 + OutSize(out)
      BY <1>1
    <3>2. PICK r \in Row :
             r = [[Cmd(in) EXCEPT !.out = out] EXCEPT !.check = OutSize(out)]
      BY <2>3
    <3>3. [r EXCEPT !.len = n] \in Row
      BY RowChanges
    <3> QED
      BY <3>1, <3>2, <3>3
  <2> QED
    BY <2>4 DEF Reply
<1>3. /\ Reply(in, out).in = in /\ Reply(in, out).out = out
      /\ Reply(in, out).len = 2 + OutSize(out) /\ Reply(in, out).status = "sum"
  BY DEF Reply, Cmd
<1>4. Sized(Reply(in, out))
  BY <1>1, <1>3 DEF Sized
<1> QED
  BY <1>2, <1>3, <1>4 DEF RowOK

\* What does not concern the inputs and the outputs keeps a row fit.
LEMMA SameBytes ==
    ASSUME NEW r, NEW q \in Row, q.in = r.in, q.out = r.out, q.len = r.len,
           q.status = "first" => q.calls > 0
    PROVE  /\ Plain(r) => Plain(q)
           /\ RowOK(r) => RowOK(q)
           /\ \A s : Fits(s, r) => Fits(s, q)
BY DEF Plain, RowOK, Sized, Fits

\* q is row r but for what is not about bytes.
Alike(q, r) ==
    q \in Row /\ q.status # "first" /\ q.in = r.in /\ q.out = r.out /\ q.len = r.len

LEMMA Adapted ==
    ASSUME NEW r \in Row, r.status # "first"
    PROVE  /\ Alike(IfOk(r), r) /\ Alike(Unchecked(r), r) /\ Alike(AlwaysOk(r), r)
           /\ Alike(Refusing(r), r) /\ \A n \in 1..10 : Alike(Calls(r, n), r)
<1>1. Alike(IfOk(r), r)
  BY DEF Row, IfOk, Alike
<1>2. Alike(Unchecked(r), r)
  BY DEF Row, Unchecked, Alike
<1>3. Alike(AlwaysOk(r), r)
  BY DEF Row, AlwaysOk, Unchecked, Alike
<1>4. Alike(Refusing(r), r)
  BY DEF Row, Refusing, Alike
<1>5. \A n \in 1..10 : Alike(Calls(r, n), r)
  BY DEF Row, Calls, Alike
<1> QED
  BY <1>1, <1>2, <1>3, <1>4, <1>5

LEMMA PlainCmd == ASSUME NEW in, PlainIn(in) PROVE Plain(Cmd(in))
<1>1. PlainOut(<<>>)
  BY DEF PlainOut, Tiled, OutHostFree
<1>2. in \in Seq(AnyIn)
  BY DEF PlainIn
<1> QED
  BY <1>1, <1>2, CmdRow DEF Plain

LEMMA PlainReply ==
    ASSUME NEW in, NEW out, PlainIn(in), PlainOut(out), ArgumentGiven(in, out)
    PROVE  Plain(Reply(in, out))
<1>1. in \in Seq(AnyIn) /\ out \in Seq(AnyOut)
  BY DEF PlainIn, PlainOut
<1>2. \A k \in DOMAIN out : out[k].as # "narrow"
  BY DEF PlainOut, OutHostFree
<1> QED
  BY <1>1, <1>2, ReplyRow DEF Plain

LEMMA PlainGet ==
    ASSUME NEW out, PlainOut(out), \A k \in DOMAIN out : out[k].from # "argument"
    PROVE  Plain(Get(out))
<1>1. PlainIn(<<>>)
  BY DEF PlainIn, Tiled
<1> QED
  BY <1>1, PlainReply DEF Get, ArgumentGiven

LEMMA Fields ==
    /\ \A at \in Nat : /\ U8(at) \in AnyIn /\ U8(at).at = at /\ U8(at).n = 1
                       /\ U8(at).as = "bytes"
    /\ \A at \in Nat : /\ U16(at) \in AnyIn /\ U16(at).at = at /\ U16(at).n = 2
                       /\ U16(at).as = "net16"
    /\ \A at \in Nat : /\ U32(at) \in AnyIn /\ U32(at).at = at /\ U32(at).n = 4
                       /\ U32(at).as = "net"
    /\ Whole \in AnyIn /\ Whole.at = 0 /\ Whole.n = StructSize /\ Whole.as = "bytes"
BY SizeAssumption DEF AnyIn, U8, U16, U32, Whole, In

LEMMA OneInput == ASSUME NEW a \in AnyIn, a.at = 0, a.as \in {"bytes", "net", "net16"}
                  PROVE  PlainIn(<<a>>)
BY DEF PlainIn, Tiled

LEMMA TwoInputs ==
    ASSUME NEW a \in AnyIn, NEW b \in AnyIn, a.at = 0, b.at = a.n,
           \A f \in {a, b} : f.as \in {"bytes", "net", "net16"}
    PROVE  PlainIn(<<a, b>>)
<1>1. PICK q : q = <<a, b>>
  OBVIOUS
<1>2. /\ q \in Seq(AnyIn) /\ DOMAIN q = 1..2
      /\ q[1] = a /\ q[2] = b
  BY <1>1
<1>3. \A k \in 1..2 : k = 1 \/ k = 2
  OBVIOUS
<1>4. Tiled(q)
  BY <1>2, <1>3 DEF Tiled, AnyIn
<1>5. \A k \in 1..2 : q[k].as \in {"bytes", "net", "net16"}
  BY <1>2, <1>3
<1> QED
  BY <1>1, <1>2, <1>4, <1>5 DEF PlainIn

LEMMA ThreeInputs ==
    ASSUME NEW a \in AnyIn, NEW b \in AnyIn, NEW c \in AnyIn,
           a.at = 0, b.at = a.n, c.at = b.at + b.n,
           \A f \in {a, b, c} : f.as \in {"bytes", "net", "net16"}
    PROVE  PlainIn(<<a, b, c>>)
<1>1. PICK q : q = <<a, b, c>>
  OBVIOUS
<1>2. /\ q \in Seq(AnyIn) /\ DOMAIN q = 1..3
      /\ q[1] = a /\ q[2] = b /\ q[3] = c
  BY <1>1
<1>3. \A k \in 1..3 : k = 1 \/ k = 2 \/ k = 3
  OBVIOUS
<1>4. Tiled(q)
  BY <1>2, <1>3 DEF Tiled, AnyIn
<1>5. \A k \in 1..3 : q[k].as \in {"bytes", "net", "net16"}
  BY <1>2, <1>3
<1> QED
  BY <1>1, <1>2, <1>4, <1>5 DEF PlainIn

LEMMA FourInputs ==
    ASSUME NEW a \in AnyIn, NEW b \in AnyIn, NEW c \in AnyIn, NEW d \in AnyIn,
           a.at = 0, b.at = a.n, c.at = b.at + b.n, d.at = c.at + c.n,
           a.as \in {"bytes", "net", "net16"}, b.as \in {"bytes", "net", "net16"},
           c.as \in {"bytes", "net", "net16"}, d.as \in {"bytes", "net", "net16"}
    PROVE  PlainIn(<<a, b, c, d>>)
<1>1. PICK q : q = <<a, b, c, d>>
  OBVIOUS
<1>2. /\ q \in Seq(AnyIn) /\ DOMAIN q = 1..4
      /\ q[1] = a /\ q[2] = b /\ q[3] = c /\ q[4] = d
  BY <1>1
<1>3. \A k \in 1..4 : k = 1 \/ k = 2 \/ k = 3 \/ k = 4
  OBVIOUS
<1>4. Tiled(q)
  BY <1>2, <1>3, SMTT(60) DEF Tiled, AnyIn
<1>5. \A k \in 1..4 : q[k].as \in {"bytes", "net", "net16"}
  BY <1>2, <1>3
<1> QED
  BY <1>1, <1>2, <1>4, <1>5 DEF PlainIn

\* The inputs of the commands.
LEMMA CommandInputs ==
    /\ PlainIn(<<>>) /\ PlainIn(<<Whole>>) /\ PlainIn(<<U8(0)>>)
    /\ PlainIn(<<U16(0)>>) /\ PlainIn(<<U32(0)>>)
    /\ PlainIn(<<U8(0), U8(1)>>) /\ PlainIn(<<U8(0), U16(1)>>)
    /\ PlainIn(<<U32(0), U16(4)>>)
    /\ PlainIn(<<U8(0), U8(1), U8(2)>>) /\ PlainIn(<<U8(0), U32(1), U16(5)>>)
    /\ PlainIn(<<U8(0), U8(1), U32(2), U16(6)>>)
    /\ PlainIn(<<U8(0), U8(1), U8(2), U8(3)>>)
    /\ PlainIn(<<U32(0), U32(4), U32(8), U32(12)>>)
<1>1. PlainIn(<<>>)
  BY DEF PlainIn, Tiled
<1>2. /\ PlainIn(<<Whole>>) /\ PlainIn(<<U8(0)>>) /\ PlainIn(<<U16(0)>>)
      /\ PlainIn(<<U32(0)>>)
  BY Fields, OneInput
<1>3. /\ PlainIn(<<U8(0), U8(1)>>) /\ PlainIn(<<U8(0), U16(1)>>)
      /\ PlainIn(<<U32(0), U16(4)>>)
  BY Fields, TwoInputs
<1>4. PlainIn(<<U8(0), U8(1), U8(2)>>) /\ PlainIn(<<U8(0), U32(1), U16(5)>>)
  BY Fields, ThreeInputs
<1>5. PlainIn(<<U8(0), U8(1), U32(2), U16(6)>>)
  <2>1. PICK a \in AnyIn : a = U8(0) /\ a.at = 0 /\ a.n = 1 /\ a.as = "bytes"
    BY Fields
  <2>2. PICK b \in AnyIn : b = U8(1) /\ b.at = 1 /\ b.n = 1 /\ b.as = "bytes"
    BY Fields
  <2>3. PICK c \in AnyIn : c = U32(2) /\ c.at = 2 /\ c.n = 4 /\ c.as = "net"
    BY Fields
  <2>4. PICK d \in AnyIn : d = U16(6) /\ d.at = 6 /\ d.n = 2 /\ d.as = "net16"
    BY Fields
  <2> QED
    BY <2>1, <2>2, <2>3, <2>4, FourInputs
<1>6. PlainIn(<<U8(0), U8(1), U8(2), U8(3)>>)
  <2>1. PICK a \in AnyIn : a = U8(0) /\ a.at = 0 /\ a.n = 1 /\ a.as = "bytes"
    BY Fields
  <2>2. PICK b \in AnyIn : b = U8(1) /\ b.at = 1 /\ b.n = 1 /\ b.as = "bytes"
    BY Fields
  <2>3. PICK c \in AnyIn : c = U8(2) /\ c.at = 2 /\ c.n = 1 /\ c.as = "bytes"
    BY Fields
  <2>4. PICK d \in AnyIn : d = U8(3) /\ d.at = 3 /\ d.n = 1 /\ d.as = "bytes"
    BY Fields
  <2> QED
    BY <2>1, <2>2, <2>3, <2>4, FourInputs
<1>7. PlainIn(<<U32(0), U32(4), U32(8), U32(12)>>)
  <2>1. PICK a \in AnyIn : a = U32(0) /\ a.at = 0 /\ a.n = 4 /\ a.as = "net"
    BY Fields
  <2>2. PICK b \in AnyIn : b = U32(4) /\ b.at = 4 /\ b.n = 4 /\ b.as = "net"
    BY Fields
  <2>3. PICK c \in AnyIn : c = U32(8) /\ c.at = 8 /\ c.n = 4 /\ c.as = "net"
    BY Fields
  <2>4. PICK d \in AnyIn : d = U32(12) /\ d.at = 12 /\ d.n = 4 /\ d.as = "net"
    BY Fields
  <2> QED
    BY <2>1, <2>2, <2>3, <2>4, FourInputs
<1> QED
  BY <1>1, <1>2, <1>3, <1>4, <1>5, <1>6, <1>7

\* The inputs of S_SET_CONFIG: a number and seven bytes.
LEMMA ConfigInput == PlainIn(<<U32(0)>> \o [i \in 1..7 |-> U8(3 + i)])
<1>1. PICK a \in AnyIn : a = U32(0) /\ a.at = 0 /\ a.n = 4 /\ a.as = "net"
  BY Fields
<1>2. PICK t : t = [i \in 1..7 |-> U8(3 + i)]
  OBVIOUS
<1>3. t \in Seq(AnyIn) /\ Len(t) = 7 /\ \A i \in 1..7 : t[i] = U8(3 + i)
  BY <1>2, Fields
<1>4. PICK u : u = <<a>>
  OBVIOUS
<1>5. u \in Seq(AnyIn) /\ Len(u) = 1 /\ u[1] = a
  BY <1>4
<1> DEFINE q == u \o t
<1>6. /\ q \in Seq(AnyIn) /\ Len(q) = 8
      /\ \A i \in 1..8 : q[i] = IF i <= 1 THEN a ELSE t[i - 1]
  <2>1. /\ u \o t \in Seq(AnyIn) /\ Len(u \o t) = Len(u) + Len(t)
        /\ \A i \in 1..Len(u) + Len(t) :
              (u \o t)[i] = IF i <= Len(u) THEN u[i] ELSE t[i - Len(u)]
    BY <1>3, <1>5, ConcatProperties, Zenon
  <2> HIDE DEF q
  <2>5. Len(u) = 1 /\ Len(u) + Len(t) = 8
    BY <1>3, <1>5
  <2>6. /\ q \in Seq(AnyIn) /\ Len(q) = Len(u) + Len(t)
        /\ \A i \in 1..Len(u) + Len(t) :
              q[i] = IF i <= Len(u) THEN u[i] ELSE t[i - Len(u)]
    BY <2>1, Zenon DEF q
  <2>2. q \in Seq(AnyIn) /\ Len(q) = 8
    BY <2>5, <2>6, Zenon
  <2>3. \A i \in 1..8 : q[i] = IF i <= 1 THEN u[i] ELSE t[i - 1]
    BY <2>5, <2>6, Zenon
  <2>4. \A i \in 1..8 : i <= 1 => i = 1
    OBVIOUS
  <2> QED
    BY <1>5, <2>2, <2>3, <2>4
<1> HIDE DEF q
<1>7. DOMAIN q = 1..8 /\ q[1] = a
  BY <1>6
<1>8. ASSUME NEW k \in 2..8 PROVE q[k].at = 2 + k /\ q[k].n = 1 /\ q[k].as = "bytes"
  <2>1. q[k] = U8(3 + (k - 1)) /\ 3 + (k - 1) \in Nat /\ 3 + (k - 1) = 2 + k
    BY <1>3, <1>6
  <2> QED
    BY <2>1, Fields
<1>9. Tiled(q)
  <2> SUFFICES ASSUME NEW k \in 2..8 PROVE q[k].at = q[k - 1].at + q[k - 1].n
    BY <1>1, <1>7 DEF Tiled
  <2>1. CASE k = 2
    BY <2>1, <1>1, <1>7, <1>8
  <2>2. CASE k \in 3..8
    <3>1. k - 1 \in 2..8
      BY <2>2
    <3>2. q[k - 1].at = 2 + (k - 1) /\ q[k - 1].n = 1
      BY <3>1, <1>8
    <3> QED
      BY <3>2, <1>8
  <2> QED
    BY <2>1, <2>2
<1>10. \A k \in 1..8 : q[k].as \in {"bytes", "net", "net16"}
  BY <1>1, <1>7, <1>8
<1> QED
  BY <1>1, <1>2, <1>4, <1>6, <1>7, <1>9, <1>10 DEF PlainIn, q

\* The outputs.
LEMMA OneOutput ==
    ASSUME NEW o \in AnyOut, o.at = 0
    PROVE  /\ <<o>> \in Seq(AnyOut) /\ Tiled(<<o>>)
           /\ o.as \in {"bytes", "net", "text", "members"} \/ (o.as = "host" /\ o.n = 1)
              => PlainOut(<<o>>)
<1>1. <<o>> \in Seq(AnyOut) /\ Tiled(<<o>>)
  BY DEF Tiled
<1>2. DOMAIN <<o>> = {1} /\ <<o>>[1] = o
  OBVIOUS
<1> QED
  BY <1>1, <1>2 DEF PlainOut, OutHostFree

LEMMA Outputs ==
    /\ \A at \in Nat : /\ Flag(at) \in AnyOut /\ Flag(at).at = at /\ Flag(at).n = 1
                       /\ Flag(at).as = "bytes" /\ Flag(at).from = "preset"
    /\ \A n \in Nat, kind \in {"bytes", "host", "net", "narrow", "text"} :
          /\ Number(n, kind) \in AnyOut /\ Number(n, kind).at = 0 /\ Number(n, kind).n = n
          /\ Number(n, kind).as = kind /\ Number(n, kind).from = "driver"
BY DEF AnyOut, Flag, Number, Out

LEMMA FlagRows == Plain(Get(<<Flag(0)>>)) /\ Plain(Get(<<Flag(0), Flag(1)>>))
<1>1. PICK a \in AnyOut : /\ a = Flag(0) /\ a.at = 0 /\ a.n = 1 /\ a.as = "bytes"
                          /\ a.from = "preset"
  BY Outputs
<1>2. PICK b \in AnyOut : /\ b = Flag(1) /\ b.at = 1 /\ b.n = 1 /\ b.as = "bytes"
                          /\ b.from = "preset"
  BY Outputs
<1>3. PlainOut(<<a>>) /\ PlainOut(<<a, b>>)
  BY <1>1, <1>2 DEF PlainOut, Tiled, OutHostFree
<1>4. /\ \A k \in DOMAIN <<a>> : <<a>>[k].from # "argument"
      /\ \A k \in DOMAIN <<a, b>> : <<a, b>>[k].from # "argument"
  BY <1>1, <1>2
<1> QED
  BY <1>1, <1>2, <1>3, <1>4, PlainGet

LEMMA FlagsStructFit ==
    Fits("ADCS_GET_ASGP4", Get(<<Flag(0), Flag(1), Out(2, StructSize, "raw", "driver")>>))
<1>1. PICK a \in AnyOut : /\ a = Flag(0) /\ a.at = 0 /\ a.n = 1 /\ a.as = "bytes"
                          /\ a.from = "preset"
  BY Outputs
<1>2. PICK b \in AnyOut : /\ b = Flag(1) /\ b.at = 1 /\ b.n = 1 /\ b.as = "bytes"
                          /\ b.from = "preset"
  BY Outputs
<1>3. PICK c \in AnyOut : /\ c = Out(2, StructSize, "raw", "driver") /\ c.at = 2
                          /\ c.as = "raw" /\ c.from = "driver"
  <2>1. LET o == Out(2, StructSize, "raw", "driver")
        IN  o \in AnyOut /\ o.at = 2 /\ o.as = "raw" /\ o.from = "driver"
    BY SizeAssumption DEF Out, AnyOut
  <2> QED
    BY <2>1
<1>4. PICK q : q = <<a, b, c>>
  OBVIOUS
<1>5. q \in Seq(AnyOut) /\ DOMAIN q = 1..3 /\ q[1] = a /\ q[2] = b /\ q[3] = c
  BY <1>4
<1>6. \A k \in 1..3 : k = 1 \/ k = 2 \/ k = 3
  OBVIOUS
<1>7. Tiled(q)
  BY <1>1, <1>2, <1>3, <1>5, <1>6 DEF Tiled
<1>8. \A k \in 1..3 : q[k].as \in {"bytes", "raw"} /\ q[k].from # "argument"
  BY <1>1, <1>2, <1>3, <1>5, <1>6
<1>9. PICK in : in = <<>>
  OBVIOUS
<1>10. PlainIn(in) /\ in \in Seq(AnyIn)
  BY <1>9, CommandInputs DEF PlainIn
<1>11. RowOK(Reply(in, q)) /\ Reply(in, q).in = in /\ Reply(in, q).out = q
  BY <1>5, <1>8, <1>10, ReplyRow DEF ArgumentGiven
<1>12. Fits("ADCS_GET_ASGP4", Reply(in, q))
  BY <1>5, <1>7, <1>8, <1>10, <1>11
     DEF Fits, HostOrdered, RawReplies, PlainIn, FromRequest
<1> QED
  BY <1>1, <1>2, <1>3, <1>4, <1>9, <1>12 DEF Get

LEMMA OneDriverOutput ==
    ASSUME NEW o \in AnyOut, o.at = 0, o.from = "driver", o.as # "narrow"
    PROVE  /\ RowOK(Get(<<o>>))
           /\ o.as \notin {"raw", "hton32"} /\ (o.as = "host" => o.n = 1)
              => Plain(Get(<<o>>))
<1>1. DOMAIN <<o>> = {1} /\ <<o>>[1] = o /\ <<o>> \in Seq(AnyOut)
  OBVIOUS
<1>2. <<>> \in Seq(AnyIn) /\ ArgumentGiven(<<>>, <<o>>)
  BY <1>1 DEF ArgumentGiven
<1>3. RowOK(Reply(<<>>, <<o>>))
  BY <1>1, <1>2, ReplyRow, ZenonT(60)
<1>4. ASSUME o.as \notin {"raw", "hton32"}, o.as = "host" => o.n = 1
      PROVE  Plain(Get(<<o>>))
  <2>1. PlainOut(<<o>>)
    BY <1>4, OneOutput DEF AnyOut
  <2> QED
    BY <1>1, <2>1, PlainGet
<1> QED
  BY <1>3, <1>4 DEF Get

LEMMA NumberRows ==
    ASSUME NEW n \in Nat, NEW kind \in {"bytes", "host", "net", "text", "members"},
           kind = "members" => n = StructSize
    PROVE  /\ RowOK(GetNumber(n, kind))
           /\ (kind = "host" => n = 1) => Plain(GetNumber(n, kind))
<1>1. /\ Number(n, kind) \in AnyOut /\ Number(n, kind).at = 0 /\ Number(n, kind).n = n
      /\ Number(n, kind).as = kind /\ Number(n, kind).from = "driver"
  BY DEF Number, Out, AnyOut
<1> QED
  BY <1>1, OneDriverOutput DEF GetNumber

-----------------------------------------------------------------------------
(***************************************************************************)
(* The groups of rows.  A group of plain rows is one step; a row that is   *)
(* an exception has a lemma of its own.                                    *)
(***************************************************************************)
LEMMA OneOut ==
    ASSUME NEW n \in Nat,
           NEW kind \in {"bytes", "host", "net", "narrow", "text", "raw", "members", "hton32"},
           NEW from \in {"driver", "preset", "argument", "zero", "nowhere"},
           kind \in {"raw", "members", "hton32"} => n = StructSize
    PROVE  \E o \in AnyOut : /\ o = Out(0, n, kind, from) /\ o.at = 0 /\ o.n = n
                             /\ o.as = kind /\ o.from = from
<1>1. LET o == Out(0, n, kind, from)
      IN  o \in AnyOut /\ o.at = 0 /\ o.n = n /\ o.as = kind /\ o.from = from
  BY DEF Out, AnyOut
<1> QED
  BY <1>1

LEMMA OneIn ==
    ASSUME NEW at \in Nat, NEW n \in Nat,
           NEW kind \in {"bytes", "net", "net16", "cnv", "cnv16", "text", "padded", "low",
                         "narrow", "host", "raw", "enum", "nothing"},
           kind = "raw" => n = StructSize
    PROVE  \E f \in AnyIn : f = In(at, n, kind) /\ f.at = at /\ f.n = n /\ f.as = kind
<1>1. LET f == In(at, n, kind) IN f \in AnyIn /\ f.at = at /\ f.n = n /\ f.as = kind
  BY DEF In, AnyIn
<1> QED
  BY <1>1

LEMMA UploadPacketFits ==
    Fits("ADCS_FILE_UPLOAD_PACKET",
         Unchecked(Reply(<<U16(0), In(0, 1, "nothing")>>,
                         <<Out(0, 1, "bytes", "nowhere")>>)))
<1>1. PICK o \in AnyOut : /\ o = Out(0, 1, "bytes", "nowhere") /\ o.at = 0 /\ o.n = 1
                          /\ o.as = "bytes" /\ o.from = "nowhere"
  BY OneOut
<1>2. PICK a \in AnyIn : a = U16(0) /\ a.as = "net16"
  BY Fields
<1>3. PICK b \in AnyIn : b = In(0, 1, "nothing") /\ b.as = "nothing"
  BY OneIn
<1>4. PICK in : in = <<a, b>>
  OBVIOUS
<1>5. PICK out : out = <<o>>
  OBVIOUS
<1>6. in \in Seq(AnyIn) /\ DOMAIN in = {1, 2} /\ in[1] = a /\ in[2] = b
  BY <1>4
<1>7. out \in Seq(AnyOut) /\ DOMAIN out = {1} /\ out[1] = o
  BY <1>5
<1>8. RowOK(Reply(in, out)) /\ Reply(in, out).in = in /\ Reply(in, out).out = out
  BY <1>1, <1>6, <1>7, ReplyRow DEF ArgumentGiven
<1>9. Fits("ADCS_FILE_UPLOAD_PACKET", Reply(in, out))
  BY <1>1, <1>2, <1>3, <1>6, <1>7, <1>8
     DEF Fits, InHostFree, OutHostFree, Tiled, FromDriver
<1>10. Reply(in, out) \in Row /\ Reply(in, out).status # "first"
  BY <1>8 DEF RowOK, Reply, Cmd
<1> QED
  BY <1>1, <1>2, <1>3, <1>4, <1>5, <1>9, <1>10, Adapted, SameBytes DEF Alike

LEMMA AdcsFilesFit == AllFit(AdcsFiles)
BY CommandInputs, PlainCmd, PlainFits, UploadPacketFits, FitCase, FitEach, FitBoth
   DEF AdcsFiles

\* A row that fits s and can be adapted.
Fine(s, r) == Fits(s, r) /\ r.status # "first"

LEMMA StayFine ==
    ASSUME NEW s, NEW r, Fine(s, r)
    PROVE  /\ Fine(s, IfOk(r)) /\ Fine(s, Unchecked(r)) /\ Fine(s, AlwaysOk(r))
           /\ Fine(s, Refusing(r)) /\ \A n \in 1..10 : Fine(s, Calls(r, n))
<1>1. r \in Row /\ r.status # "first"
  BY DEF Fine, Fits, RowOK
<1>2. ASSUME NEW q, Alike(q, r) PROVE Fine(s, q)
  BY <1>2, SameBytes DEF Alike, Fine
<1> QED
  BY <1>1, <1>2, Adapted

LEMMA AreFine ==
    /\ \A in : Plain(Cmd(in)) => \A s : Fine(s, Cmd(in))
    /\ \A in, out : Plain(Reply(in, out)) => \A s : Fine(s, Reply(in, out))
    /\ \A out : Plain(Get(out)) => \A s : Fine(s, Get(out))
    /\ \A n, kind : Plain(GetNumber(n, kind)) => \A s : Fine(s, GetNumber(n, kind))
<1>1. \A in : Cmd(in).status # "first"
  BY DEF Cmd
<1>2. \A in, out : Reply(in, out).status # "first"
  BY DEF Reply, Cmd
<1>3. \A in : Plain(Cmd(in)) => \A s : Fine(s, Cmd(in))
  BY <1>1, PlainFits DEF Fine
<1>4. \A in, out : Plain(Reply(in, out)) => \A s : Fine(s, Reply(in, out))
  BY <1>2, PlainFits DEF Fine
<1>5. \A out : Plain(Get(out)) => \A s : Fine(s, Get(out))
  BY <1>4 DEF Get
<1>6. \A n, kind : Plain(GetNumber(n, kind)) => \A s : Fine(s, GetNumber(n, kind))
  BY <1>5 DEF GetNumber
<1> QED
  BY <1>3, <1>4, <1>5, <1>6

LEMMA FineFits == \A s, r : Fine(s, r) => Fits(s, r)
BY DEF Fine

\* A number or a structure left in the order of the host.
LEMMA HostNumberFine ==
    ASSUME NEW s \in HostOrdered, NEW n \in Nat, NEW kind \in {"host", "raw", "hton32"},
           kind # "host" => n = StructSize, kind = "hton32" => s \in NarrowMembers
    PROVE  Fine(s, GetNumber(n, kind))
<1>1. PICK o \in AnyOut : /\ o = Number(n, kind) /\ o.at = 0 /\ o.as = kind
                          /\ o.from = "driver"
  BY OneOut DEF Number
<1>2. PICK out : out = <<o>>
  OBVIOUS
<1>3. Tiled(out) /\ out \in Seq(AnyOut) /\ DOMAIN out = {1} /\ out[1] = o
  BY <1>1, <1>2, OneOutput
<1>4. PICK in : in = <<>>
  OBVIOUS
<1>5. PlainIn(in) /\ in \in Seq(AnyIn)
  BY <1>4, CommandInputs DEF PlainIn
<1>6. RowOK(Reply(in, out)) /\ Reply(in, out).in = in /\ Reply(in, out).out = out
  BY <1>1, <1>3, <1>5, ReplyRow DEF ArgumentGiven
<1>7. Reply(in, out).status # "first"
  BY DEF Reply, Cmd
<1>8. Fine(s, Reply(in, out))
  BY <1>1, <1>3, <1>5, <1>6, <1>7 DEF Fine, Fits, PlainIn, FromRequest
<1> QED
  BY <1>1, <1>2, <1>4, <1>8 DEF GetNumber, Get

\* The structures of the drivers.
LEMMA StructFine ==
    /\ \A s, kind : kind \in {"bytes", "members"} => Fine(s, GetStruct(kind))
    /\ \A s \in RawReplies : Fine(s, GetStruct("raw"))
    /\ \A s \in NarrowMembers : Fine(s, GetStruct("hton32"))
<1>1. StructSize \in Nat
  BY SizeAssumption
<1>2. \A kind \in {"bytes", "members"} : Plain(GetNumber(StructSize, kind))
  BY <1>1, NumberRows
<1>3. RawReplies \subseteq HostOrdered /\ NarrowMembers \subseteq HostOrdered
  BY DEF HostOrdered
<1>4. \A s \in RawReplies : Fine(s, GetNumber(StructSize, "raw"))
  BY <1>1, <1>3, HostNumberFine
<1>5. \A s \in NarrowMembers : Fine(s, GetNumber(StructSize, "hton32"))
  BY <1>1, <1>3, HostNumberFine
<1> QED
  BY <1>2, <1>4, <1>5, AreFine DEF GetStruct

LEMMA AdcsIdentityFit == AllFit(AdcsIdentity)
<1>1. {"ADCS_GET_NODE_IDENTIFICATION", "ADCS_GET_BOOT_PROGRAM_STAT",
       "ADCS_GET_BOOT_INDEX", "ADCS_GET_LAST_LOGGED_EVENT", "ADCS_GET_TC_ACK"}
      \subseteq NarrowMembers
  BY DEF NarrowMembers
<1>2. "ADCS_GET_FILE_DOWNLOAD_BUFFER" \in RawReplies
  BY DEF RawReplies
<1>3. \A s : Fits(s, Get(<<Flag(0), Flag(1)>>))
  BY FlagRows, PlainFits
<1> QED
  BY <1>1, <1>2, <1>3, StructFine, FineFits, FitCase, FitEach, FitBoth DEF AdcsIdentity

\* Values cut by csp_hton32.
LEMMA NarrowFine ==
    ASSUME NEW s \in NarrowValues, NEW n \in 1..4
    PROVE  Fine(s, GetNumber(n, "narrow"))
<1>1. PICK o \in AnyOut : /\ o = Out(0, n, "narrow", "driver") /\ o.at = 0 /\ o.n = n
                          /\ o.as = "narrow" /\ o.from = "driver"
  BY OneOut
<1>2. PICK out : out = <<o>>
  OBVIOUS
<1>3. out \in Seq(AnyOut) /\ DOMAIN out = {1} /\ out[1] = o
  BY <1>2
<1>4. /\ RowOK(Reply(<<>>, out)) /\ Reply(<<>>, out).in = <<>>
      /\ Reply(<<>>, out).out = out
  <2>1. <<>> \in Seq(AnyIn) /\ ArgumentGiven(<<>>, out)
    BY <1>1, <1>3 DEF ArgumentGiven
  <2>2. \A k \in DOMAIN out : out[k].as = "narrow" => out[k].n <= 4
    BY <1>1, <1>3
  <2> QED
    BY <1>3, <2>1, <2>2, ReplyRow
<1>5. Reply(<<>>, out).status # "first"
  BY DEF Reply, Cmd
<1>6. FromRequest(<<>>)
  BY DEF FromRequest, Tiled
<1>7. Fine(s, Reply(<<>>, out))
  BY <1>1, <1>3, <1>4, <1>5, <1>6 DEF Fine, Fits, Tiled, HostOrdered
<1> QED
  BY <1>1, <1>2, <1>7 DEF GetNumber, Get, Number

LEMMA AdcsUploadFit == AllFit(AdcsUpload)
<1>1. \A s : Fine(s, Get(<<Flag(0)>>)) /\ Fine(s, Get(<<Flag(0), Flag(1)>>))
  BY AreFine, FlagRows
<1>2. \A s : Fine(s, IfOk(Get(<<Flag(0)>>)))
  BY <1>1, StayFine
<1>3. /\ Fine("ADCS_GET_UPLOAD_CRC16_CHECKSUM", GetNumber(2, "narrow"))
      /\ Fine("ADCS_GET_COMMS_STAT", IfOk(GetNumber(2, "narrow")))
  BY NarrowFine, StayFine DEF NarrowValues
<1>4. {"ADCS_GET_FILE_DOWNLOAD_BLOCK_STAT", "ADCS_GET_FILE_INFO",
       "ADCS_GET_SRAM_LATCHUP_COUNT", "ADCS_GET_EDAC_ERR_COUNT"} \subseteq NarrowMembers
  BY DEF NarrowMembers
<1> QED
  BY <1>1, <1>2, <1>3, <1>4, StructFine, FineFits, FitCase, FitEach, FitBoth DEF AdcsUpload

\* One input of a kind that is not plain.
LEMMA OneInFine ==
    ASSUME NEW s, NEW at \in Nat, NEW n \in Nat,
           NEW kind \in {"cnv", "cnv16", "text", "padded", "low", "narrow", "host", "raw"},
           kind = "text" \/ at = 0, kind = "raw" => n = StructSize,
           s \in HostOrdered \/ kind \in {"text", "padded", "low"},
           \/ kind \notin {"padded", "low"}
           \/ s \in {"UHF_SET_DEST", "UHF_SET_SRC", "SET_UHF_WATCHDOG_TIMEOUT",
                     "SET_SBAND_WATCHDOG_TIMEOUT", "SET_CHARON_WATCHDOG_TIMEOUT"},
           kind = "narrow" => s = "UHF_SET_I2C" /\ n <= 4
    PROVE  Fine(s, Cmd(<<In(at, n, kind)>>))
<1>1. PICK f \in AnyIn : f = In(at, n, kind) /\ f.at = at /\ f.n = n /\ f.as = kind
  BY OneIn
<1>2. PICK in : in = <<f>>
  OBVIOUS
<1>3. in \in Seq(AnyIn) /\ DOMAIN in = {1} /\ in[1] = f /\ Len(in) = 1
  BY <1>2
<1>4. /\ RowOK(Cmd(in)) /\ Cmd(in).in = in /\ Cmd(in).out = <<>>
      /\ Cmd(in).status # "first"
  BY <1>3, CmdRow DEF Cmd
<1>5. OutHostFree(<<>>) /\ Tiled(<<>>) /\ DOMAIN <<>> = {}
  BY DEF OutHostFree, Tiled
<1>6. s \in HostOrdered \/ InHostFree(in)
  BY <1>1, <1>3 DEF InHostFree
<1>7. ASSUME kind \notin {"padded", "low"} PROVE FromRequest(in)
  BY <1>1, <1>3, <1>7 DEF FromRequest, Tiled
<1>8. s = "UHF_SET_I2C" \/ \A k \in DOMAIN in : in[k].as # "narrow"
  BY <1>1, <1>3
<1>9. Fits(s, Cmd(in))
  BY <1>4, <1>5, <1>6, <1>7, <1>8 DEF Fits
<1> QED
  BY <1>1, <1>2, <1>4, <1>9 DEF Fine

\* Structures in a request.
LEMMA RawRequestsFine == \A s \in RawRequests : Fine(s, Cmd(<<WholeStruct>>))
<1>1. StructSize \in Nat /\ 0 \in Nat /\ RawRequests \subseteq HostOrdered
  BY SizeAssumption DEF HostOrdered
<1>2. \A s \in RawRequests : s # "UHF_SET_I2C"
  BY DEF RawRequests
<1> QED
  BY <1>1, <1>2, OneInFine DEF WholeStruct

\* The second input byte is not only used but also kept in the packet.
LEMMA HoleMapFits ==
    Fits("ADCS_SET_HOLE_MAP",
         [Cmd(<<U8(0), U8(1)>>) EXCEPT !.out = <<Out(0, 1, "bytes", "argument")>>])
<1>1. PICK o \in AnyOut : /\ o = Out(0, 1, "bytes", "argument") /\ o.at = 0 /\ o.n = 1
                          /\ o.as = "bytes" /\ o.from = "argument"
  BY OneOut
<1>2. PICK a \in AnyIn : a = U8(0) /\ a.as = "bytes" /\ a.n = 1
  BY Fields
<1>3. PICK b \in AnyIn : b = U8(1) /\ b.as = "bytes"
  BY Fields
<1>4. PICK in : in = <<a, b>>
  OBVIOUS
<1>5. PICK out : out = <<o>>
  OBVIOUS
<1>6. in \in Seq(AnyIn) /\ DOMAIN in = {1, 2} /\ in[1] = a /\ in[2] = b /\ in # <<>>
  BY <1>4
<1>7. out \in Seq(AnyOut) /\ DOMAIN out = {1} /\ out[1] = o
  BY <1>5
<1>8. PlainIn(in)
  BY <1>2, <1>3, <1>4, CommandInputs
<1>9. PlainOut(out)
  BY <1>1, <1>5, OneOutput
<1> DEFINE c == Cmd(in)
           r == [c EXCEPT !.out = out]
<1>10. c \in Row /\ r \in Row
  BY <1>6, <1>7, CmdRow, RowChanges DEF RowOK
<1>11. /\ r.in = in /\ r.out = out /\ r.len = 2 /\ r.status = "sum" /\ c.in = in
  BY <1>10 DEF Cmd, Row
<1>12. OutSize(out) \in Nat
  BY <1>7, OutSizes
<1>13. Sized(r) /\ ArgumentGiven(r.in, r.out)
  BY <1>1, <1>2, <1>3, <1>6, <1>7, <1>11, <1>12 DEF Sized, ArgumentGiven, FromDriver
<1>14. Plain(r)
  BY <1>8, <1>9, <1>10, <1>11, <1>13 DEF Plain, RowOK
<1> QED
  BY <1>1, <1>2, <1>3, <1>4, <1>5, <1>14, PlainFits

\* A reply of which an output repeats the first byte of the request.
LEMMA EchoRows ==
    ASSUME NEW s, NEW o \in AnyOut, o.at = 0, o.n <= 1,
           o.as = "bytes" \/ o.as = "host" \/ (o.as = "narrow" /\ s \in HostOrdered),
           o.from \in {"driver", "argument"}, o.as = "host" => o.n = 1,
           o.as = "narrow" => o.from = "argument"
    PROVE  Fine(s, Reply(<<U8(0)>>, <<o>>))
<1>1. PICK a \in AnyIn : a = U8(0) /\ a.as = "bytes" /\ a.n = 1
  BY Fields
<1>2. PICK in : in = <<a>>
  OBVIOUS
<1>3. PICK out : out = <<o>>
  OBVIOUS
<1>4. in \in Seq(AnyIn) /\ DOMAIN in = {1} /\ in[1] = a /\ in # <<>>
  BY <1>2
<1>5. out \in Seq(AnyOut) /\ DOMAIN out = {1} /\ out[1] = o
  BY <1>3
<1>6. PlainIn(in)
  BY <1>1, <1>2, CommandInputs
<1>7. /\ RowOK(Reply(in, out)) /\ Reply(in, out).in = in /\ Reply(in, out).out = out
      /\ Reply(in, out).status # "first"
  <2>1. ArgumentGiven(in, out)
    BY <1>1, <1>4, <1>5 DEF ArgumentGiven
  <2>2. \A k \in DOMAIN out : out[k].as = "narrow" => out[k].n <= 4
    BY <1>5 DEF AnyOut
  <2>3. Reply(in, out).status # "first"
    BY DEF Reply, Cmd
  <2> QED
    BY <1>4, <1>5, <2>1, <2>2, <2>3, ReplyRow
<1>8. FromRequest(in) /\ InHostFree(in) /\ \A k \in DOMAIN in : in[k].as # "narrow"
  BY <1>6 DEF PlainIn, FromRequest, InHostFree
<1>9. /\ Tiled(out)
      /\ s \in HostOrdered \/ OutHostFree(out)
      /\ \A k \in DOMAIN out : FromDriver(out[k]) => out[k].as # "narrow"
  BY <1>5 DEF Tiled, OutHostFree, FromDriver
<1> QED
  BY <1>1, <1>2, <1>3, <1>7, <1>8, <1>9 DEF Fine, Fits

LEMMA AdcsCacheFit == AllFit(AdcsCache)
<1>1. \A s : Fine(s, IfOk(Get(<<Flag(0)>>)))
  BY AreFine, FlagRows, StayFine
<1>2. Fine("ADCS_SET_SRAM_SCRUB_SIZE", Cmd(<<In(0, 2, "cnv16")>>))
  BY OneInFine DEF HostOrdered
<1>3. Fine("ADCS_GET_SRAM_SCRUB_SIZE", IfOk(GetNumber(2, "narrow")))
  BY NarrowFine, StayFine DEF NarrowValues
<1>4. Fine("ADCS_GET_HOLE_MAP", Reply(<<U8(0)>>, <<Number(1, "host")>>))
  <2>1. PICK o \in AnyOut : /\ o = Number(1, "host") /\ o.at = 0 /\ o.n = 1
                            /\ o.as = "host" /\ o.from = "driver"
    BY OneOut DEF Number
  <2> QED
    BY <2>1, EchoRows
<1>5. AllFit(Each({"ADCS_GET_UNIXTIME_SAVE_CONFIG", "ADCS_GET_UNIX_T"},
                  GetStruct("hton32")))
  <2>1. {"ADCS_GET_UNIXTIME_SAVE_CONFIG", "ADCS_GET_UNIX_T"} \subseteq NarrowMembers
    BY DEF NarrowMembers
  <2> QED
    BY <2>1, StructFine, FineFits, FitEach
<1>6. /\ \A s : Fits(s, Cmd(<<U8(0)>>)) /\ Fits(s, Cmd(<<U8(0), U8(1)>>))
      /\ \A s : Fits(s, Cmd(<<U32(0), U16(4)>>))
  BY CommandInputs, PlainCmd, PlainFits
<1> QED
  BY <1>1, <1>2, <1>3, <1>4, <1>5, <1>6, HoleMapFits, FineFits, FitCase, FitBoth
     DEF AdcsCache

LEMMA AdcsBootFit == AllFit(AdcsBoot)
<1>1. /\ \A s : Fits(s, Cmd(<<>>)) /\ Fits(s, Cmd(<<U8(0)>>))
      /\ \A s : Fits(s, Cmd(<<U8(0), U8(1)>>))
  BY CommandInputs, PlainCmd, PlainFits
<1>2. \A s : Fits(s, Get(<<Flag(0), Flag(1)>>))
  BY FlagRows, PlainFits
<1>3. {"ADCS_GET_BOOTLOADER_STATE", "ADCS_GET_PROGRAM_INFO"} \subseteq NarrowMembers
  BY DEF NarrowMembers
<1> QED
  BY <1>1, <1>2, <1>3, StructFine, FineFits, FitCase, FitEach, FitBoth DEF AdcsBoot

LEMMA AdcsControlFit == AllFit(AdcsControl)
<1>1. {"ADCS_TRIGGER_ADCS_LOOP_SIM", "ADCS_SET_MAGNETORQUER_OUTPUT",
       "ADCS_SET_WHEEL_SPEED"} \subseteq RawRequests
  BY DEF RawRequests
<1>2. AllFit(Each({"ADCS_TRIGGER_ADCS_LOOP_SIM", "ADCS_SET_MAGNETORQUER_OUTPUT",
                   "ADCS_SET_WHEEL_SPEED"}, Cmd(<<WholeStruct>>)))
  BY <1>1, RawRequestsFine, FineFits, FitEach
<1> QED
  BY <1>2, CommandInputs, PlainCmd, PlainFits, FitCase, FitEach, FitBoth DEF AdcsControl

LEMMA AdcsStateFit == AllFit(AdcsState)
<1>1. \A s \in {"ADCS_GET_CURRENT_STATE", "ADCS_GET_SAT_POS_LLH"} :
         Fits(s, Unchecked(GetStruct("raw")))
  <2>1. {"ADCS_GET_CURRENT_STATE", "ADCS_GET_SAT_POS_LLH"} \subseteq RawReplies
    BY DEF RawReplies
  <2> QED
    BY <2>1, StructFine, StayFine, FineFits
<1>3. {"ADCS_GET_JPG_CNV_PROGESS", "ADCS_GET_EXECUTION_TIMES",
       "ADCS_GET_ACP_LOOP_STAT", "ADCS_GET_IMG_SAVE_PROGRESS"} \subseteq NarrowMembers
  BY DEF NarrowMembers
<1>2. \A s : Fits(s, GetNumber(1, "host"))
  BY NumberRows, AreFine, FineFits
<1> QED
  BY <1>1, <1>2, <1>3, StructFine, FineFits, FitCase, FitEach, FitBoth DEF AdcsState

LEMMA AdcsMeasuresFit == AllFit(AdcsMeasures)
<1>1. {"ADCS_GET_MEASUREMENTS", "ADCS_GET_ACTUATOR", "ADCS_GET_ESTIMATION",
       "ADCS_GET_RAW_SENSOR", "ADCS_GET_RAW_GPS", "ADCS_GET_STAR_TRACKER",
       "ADCS_GET_MTM2_MEASUREMENTS", "ADCS_GET_POWER_TEMP"} \subseteq RawReplies
  BY DEF RawReplies
<1> QED
  BY <1>1, StructFine, FlagsStructFit, FineFits, FitCase, FitEach, FitBoth DEF AdcsMeasures

\* The reply repeats the first ten bytes; the other inputs overlap them.
LEMMA SetLogConfigFits ==
    Fits("ADCS_SET_LOG_CONFIG",
         Reply(<<In(0, 10, "bytes"), U16(1), U8(2), U8(3)>>,
               <<Out(0, 10, "bytes", "argument")>>))
<1>1. PICK a \in AnyIn : a = In(0, 10, "bytes") /\ a.n = 10 /\ a.as = "bytes"
  <2>1. LET f == In(0, 10, "bytes") IN f \in AnyIn /\ f.n = 10 /\ f.as = "bytes"
    BY DEF In, AnyIn
  <2> QED
    BY <2>1
<1>2. PICK b \in AnyIn : b = U16(1) /\ b.as = "net16"
  BY Fields
<1>3. PICK c \in AnyIn : c = U8(2) /\ c.as = "bytes"
  BY Fields
<1>4. PICK d \in AnyIn : d = U8(3) /\ d.as = "bytes"
  BY Fields
<1>5. PICK o \in AnyOut : /\ o = Out(0, 10, "bytes", "argument") /\ o.at = 0
                          /\ o.n = 10 /\ o.as = "bytes" /\ o.from = "argument"
  BY OneOut
<1>6. PICK in : in = <<a, b, c, d>>
  OBVIOUS
<1>7. PICK out : out = <<o>>
  OBVIOUS
<1>8. /\ in \in Seq(AnyIn) /\ DOMAIN in = {1, 2, 3, 4} /\ in # <<>>
      /\ in[1] = a /\ in[2] = b /\ in[3] = c /\ in[4] = d
  BY <1>6
<1>9. out \in Seq(AnyOut) /\ DOMAIN out = {1} /\ out[1] = o
  BY <1>7
<1>10. \A k \in DOMAIN in : in[k].as \in {"bytes", "net16"}
  BY <1>1, <1>2, <1>3, <1>4, <1>8
<1>11. ArgumentGiven(in, out)
  BY <1>1, <1>5, <1>8, <1>9, <1>10 DEF ArgumentGiven
<1>12. RowOK(Reply(in, out)) /\ Reply(in, out).in = in /\ Reply(in, out).out = out
  BY <1>5, <1>8, <1>9, <1>11, ReplyRow
<1>13. PlainOut(out)
  BY <1>5, <1>7, OneOutput
<1>14. InHostFree(in)
  BY <1>10 DEF InHostFree
<1>15. Fits("ADCS_SET_LOG_CONFIG", Reply(in, out))
  BY <1>5, <1>9, <1>10, <1>12, <1>13, <1>14 DEF Fits, PlainOut, FromDriver
<1> QED
  BY <1>1, <1>2, <1>3, <1>4, <1>5, <1>6, <1>7, <1>15

\* The outputs overlap.
LEMMA GetLogConfigFits ==
    Fits("ADCS_GET_LOG_CONFIG",
         Get(<<Out(0, 10, "bytes", "driver"), Out(1, 2, "host", "driver"),
               Out(3, 1, "host", "driver"), Out(4, 1, "host", "zero")>>))
<1>1. PICK out : out = <<Out(0, 10, "bytes", "driver"), Out(1, 2, "host", "driver"),
                         Out(3, 1, "host", "driver"), Out(4, 1, "host", "zero")>>
  OBVIOUS
<1>2. /\ Out(0, 10, "bytes", "driver") \in AnyOut /\ Out(1, 2, "host", "driver") \in AnyOut
      /\ Out(3, 1, "host", "driver") \in AnyOut /\ Out(4, 1, "host", "zero") \in AnyOut
  BY DEF Out, AnyOut
<1>3. out \in Seq(AnyOut) /\ DOMAIN out = {1, 2, 3, 4}
  BY <1>1, <1>2
<1>4. \A k \in DOMAIN out : /\ out[k].as \in {"bytes", "host"}
                            /\ out[k].from \in {"driver", "zero"}
  BY <1>1, <1>3 DEF Out
<1>5. <<>> \in Seq(AnyIn) /\ ArgumentGiven(<<>>, out)
  BY <1>4 DEF ArgumentGiven
<1>6. /\ RowOK(Reply(<<>>, out)) /\ Reply(<<>>, out).in = <<>>
      /\ Reply(<<>>, out).out = out
  BY <1>3, <1>4, <1>5, ReplyRow
<1>7. FromRequest(<<>>)
  BY DEF FromRequest, Tiled
<1>8. Fits("ADCS_GET_LOG_CONFIG", Reply(<<>>, out))
  BY <1>4, <1>6, <1>7 DEF Fits, HostOrdered
<1> QED
  BY <1>1, <1>8 DEF Get

LEMMA AdcsPowerFit == AllFit(AdcsPower)
<1>1. Fine("ADCS_SET_POWER_CONTROL",
           Reply(<<U8(0)>>, <<Out(0, 1, "narrow", "argument")>>))
  <2>1. PICK o \in AnyOut : /\ o = Out(0, 1, "narrow", "argument") /\ o.at = 0 /\ o.n = 1
                            /\ o.as = "narrow" /\ o.from = "argument"
    BY OneOut
  <2> QED
    BY <2>1, EchoRows DEF HostOrdered
<1>2. Fine("ADCS_GET_POWER_CONTROL", GetNumber(1, "narrow"))
  BY NarrowFine DEF NarrowValues
<1>3. /\ {"ADCS_SET_ATTITUDE_ANGLE", "ADCS_SET_TRACK_CONTROLLER"} \subseteq RawRequests
      /\ {"ADCS_GET_ATTITUDE_ANGLE", "ADCS_GET_TRACK_CONTROLLER"} \subseteq RawReplies
  BY DEF RawRequests, RawReplies
<1>4. /\ AllFit(Each({"ADCS_SET_ATTITUDE_ANGLE", "ADCS_SET_TRACK_CONTROLLER"},
                     Cmd(<<WholeStruct>>)))
      /\ AllFit(Each({"ADCS_GET_ATTITUDE_ANGLE", "ADCS_GET_TRACK_CONTROLLER"},
                     GetStruct("raw")))
  BY <1>3, RawRequestsFine, StructFine, FineFits, FitEach
<1> QED
  BY <1>1, <1>2, <1>4, SetLogConfigFits, GetLogConfigFits, FineFits, FitCase,
     FitBoth DEF AdcsPower

LEMMA AdcsOrbitFit == AllFit(AdcsOrbit)
<1>1. \A s : Fine(s, Reply(<<U8(0)>>, <<Out(0, 1, "bytes", "argument")>>))
  <2>1. PICK o \in AnyOut : /\ o = Out(0, 1, "bytes", "argument") /\ o.at = 0 /\ o.n = 1
                            /\ o.as = "bytes" /\ o.from = "argument"
    BY OneOut
  <2> QED
    BY <2>1, EchoRows
<1>2. Fits("ADCS_SET_MTQ_CONFIG", Cmd(<<Whole>>))
  BY CommandInputs, PlainCmd, PlainFits
<1>3. /\ {"ADCS_SET_INERTIAL_REF", "ADCS_SET_SGP4_ORBIT_PARAMS",
          "ADCS_SET_SYSTEM_CONFIG"} \subseteq RawRequests
      /\ {"ADCS_GET_INERTIAL_REF", "ADCS_GET_SGP4_ORBIT_PARAMS",
          "ADCS_GET_SYSTEM_CONFIG"} \subseteq RawReplies
  BY DEF RawRequests, RawReplies
<1>4. /\ AllFit(Each({"ADCS_SET_INERTIAL_REF", "ADCS_SET_SGP4_ORBIT_PARAMS",
                      "ADCS_SET_SYSTEM_CONFIG"}, Cmd(<<WholeStruct>>)))
      /\ AllFit(Each({"ADCS_GET_INERTIAL_REF", "ADCS_GET_SGP4_ORBIT_PARAMS",
                      "ADCS_GET_SYSTEM_CONFIG"}, GetStruct("raw")))
  BY <1>3, RawRequestsFine, StructFine, FineFits, FitEach
<1> QED
  BY <1>1, <1>2, <1>4, FineFits, FitCase, FitBoth DEF AdcsOrbit

\* A subservice without a case.
LEMMA NoCaseFits ==
    ASSUME NEW kind \in {"SATR_OK", "SATR_PKT_ILLEGAL_SUBSERVICE"}, NEW s
    PROVE  Fine(s, NoCase(kind))
<1>1. NoCase(kind) \in Row
  <2>1. PICK c \in Row : c = Cmd(<<>>)
    BY CommandInputs, PlainCmd DEF Plain, RowOK
  <2>2. PICK r \in Row : r = [Cmd(<<>>) EXCEPT !.calls = 0]
    <3>1. [c EXCEPT !.calls = 0] \in Row
      BY DEF Row
    <3> QED
      BY <2>1, <3>1
  <2>3. PICK q \in Row : q = [r EXCEPT !.len = 0]
    BY RowChanges
  <2>4. [q EXCEPT !.result = kind] \in Row
    BY DEF Row
  <2>5. [[[Cmd(<<>>) EXCEPT !.calls = 0] EXCEPT !.len = 0] EXCEPT !.result = kind] \in Row
    BY <2>2, <2>3, <2>4
  <2> QED
    BY <2>5 DEF NoCase
<1>2. /\ NoCase(kind).in = <<>> /\ NoCase(kind).out = <<>> /\ NoCase(kind).len = 0
      /\ NoCase(kind).status = "sum"
  BY DEF NoCase, Cmd
<1>3. Sized(NoCase(kind)) /\ ArgumentGiven(<<>>, <<>>)
  BY <1>2 DEF Sized, ArgumentGiven
<1>4. PlainIn(<<>>) /\ PlainOut(<<>>)
  BY CommandInputs DEF PlainOut, Tiled, OutHostFree
<1> QED
  BY <1>1, <1>2, <1>3, <1>4, PlainFits DEF Fine, Plain, RowOK

\* A structure, and a byte after it.
LEMMA MtmConfigFits == Fits("ADCS_SET_MTM_CONFIG", Cmd(<<WholeStruct, U8(StructSize)>>))
<1>1. PICK a \in AnyIn : a = WholeStruct /\ a.at = 0 /\ a.n = StructSize /\ a.as = "raw"
  BY SizeAssumption, OneIn DEF WholeStruct
<1>2. PICK b \in AnyIn : b = U8(StructSize) /\ b.at = StructSize /\ b.as = "bytes"
  BY SizeAssumption, Fields
<1>3. PICK in : in = <<a, b>>
  OBVIOUS
<1>4. in \in Seq(AnyIn) /\ DOMAIN in = {1, 2} /\ in[1] = a /\ in[2] = b
  BY <1>3
<1>5. RowOK(Cmd(in)) /\ Cmd(in).in = in /\ Cmd(in).out = <<>>
  BY <1>4, CmdRow
<1>6. FromRequest(in)
  BY <1>1, <1>2, <1>4, SizeAssumption DEF FromRequest, Tiled
<1>7. Tiled(<<>>) /\ DOMAIN <<>> = {}
  BY DEF Tiled
<1>8. "ADCS_SET_MTM_CONFIG" \in HostOrdered
  BY DEF HostOrdered, RawRequests
<1>9. Fits("ADCS_SET_MTM_CONFIG", Cmd(in))
  BY <1>1, <1>2, <1>4, <1>5, <1>6, <1>7, <1>8 DEF Fits
<1> QED
  BY <1>1, <1>2, <1>3, <1>9

LEMMA AdcsConfigFit == AllFit(AdcsConfig)
<1> DEFINE names == {"ADCS_SET_RATE_GYRO", "ADCS_SET_CSS_CONFIG",
                     "ADCS_SET_STAR_TRACK_CONFIG", "ADCS_SET_CUBESENSE_CONFIG",
                     "ADCS_SET_DETUMBLE_CONFIG", "ADCS_SET_YWHEEL_CONFIG",
                     "ADCS_SET_TRACKING_CONFIG", "ADCS_SET_MOI_MAT",
                     "ADCS_SET_ESTIMATION_CONFIG", "ADCS_SET_USERCODED_SETTING",
                     "ADCS_SET_ASGP4_SETTING"}
<1>1. AllFit(Each(names, Cmd(<<WholeStruct>>)))
  <2>1. names \subseteq RawRequests
    BY DEF RawRequests
  <2> QED
    BY <2>1, RawRequestsFine, FineFits, FitEach
<1>2. Fits("ADCS_GET_FULL_CONFIG", GetStruct("raw"))
  BY StructFine, FineFits DEF RawReplies
<1> QED
  BY <1>1, <1>2, MtmConfigFits, NoCaseFits, FineFits, FitCase, FitBoth DEF AdcsConfig

LEMMA AdcsRowsFit == AllFit(AdcsRows)
BY AdcsFilesFit, AdcsIdentityFit, AdcsUploadFit, AdcsCacheFit, AdcsBootFit, AdcsControlFit,
   AdcsStateFit, AdcsMeasuresFit, AdcsPowerFit, AdcsOrbitFit, AdcsConfigFit, FitBoth
   DEF AdcsRows
LEMMA SBandGetsFit == AllFit(SBandGets)
<1>1. \A s : Fits(s, GetNumber(4, "net")) /\ Fits(s, GetNumber(1, "host"))
  BY NumberRows, AreFine, FineFits
<1>2. \A s : /\ Fits(s, GetStruct("bytes")) /\ Fits(s, GetStruct("members"))
             /\ Fits(s, Calls(GetStruct("members"), 4))
  BY StructFine, StayFine, FineFits
<1>3. Fine("S_GET_TR", GetStruct("raw")) /\ Fine("S_GET_STATUS", GetStruct("raw"))
  BY StructFine DEF RawReplies
<1>4. Fits("S_GET_STATUS", [GetStruct("raw") EXCEPT !.check = 1])
  <2>1. PICK r \in Row : r = GetStruct("raw") /\ Fits("S_GET_STATUS", r) /\ r.status # "first"
    BY <1>3 DEF Fine, Fits, RowOK
  <2>2. PICK q \in Row : q = [r EXCEPT !.check = 1]
    BY RowChanges
  <2>3. q.in = r.in /\ q.out = r.out /\ q.len = r.len /\ q.status = r.status
    BY <2>2 DEF Row
  <2>4. Fits("S_GET_STATUS", q)
    BY <2>1, <2>3, SameBytes
  <2> QED
    BY <2>1, <2>2, <2>4
<1> QED
  BY <1>1, <1>2, <1>3, <1>4, FineFits, FitCase, FitEach, FitBoth DEF SBandGets

LEMMA SBandBufferFit == AllFit(SBandBuffer)
<1>1. PICK o \in AnyOut : /\ o = Number(2, "net") /\ o.at = 0 /\ o.n = 2 /\ o.as = "net"
                          /\ o.from = "driver"
  BY OneOut DEF Number
<1>2. PICK in : in = <<U8(0)>>
  OBVIOUS
<1>3. PICK out : out = <<o>>
  OBVIOUS
<1>4. /\ PlainIn(in) /\ PlainOut(out) /\ DOMAIN out = {1} /\ out[1] = o
  BY <1>1, <1>2, <1>3, CommandInputs, OneOutput
<1>5. Plain(Reply(in, out))
  BY <1>1, <1>4, PlainReply DEF ArgumentGiven
<1> DEFINE q == [Reply(in, out) EXCEPT !.check = StructSize]
<1>6. Reply(in, out) \in Row /\ q \in Row
  BY <1>5, SizeAssumption, RowChanges DEF Plain, RowOK
<1>7. /\ q.in = Reply(in, out).in /\ q.out = Reply(in, out).out
      /\ q.len = Reply(in, out).len /\ q.status # "first"
  BY <1>6 DEF Row, Reply, Cmd
<1>8. \A s : Fits(s, q)
  <2> HIDE DEF q
  <2> QED
    BY <1>5, <1>6, <1>7, SameBytes, PlainFits
<1>9. Fits("S_GET_BUFFER 3", NoCase("SATR_PKT_ILLEGAL_SUBSERVICE"))
  BY NoCaseFits, FineFits
<1>10. Fits("S_GET_BUFFER",
            [Reply(<<U8(0)>>, <<Number(2, "net")>>) EXCEPT !.check = StructSize])
  BY <1>1, <1>2, <1>3, <1>8
<1> QED
  BY <1>9, <1>10, FitCase, FitBoth, ZenonT(60) DEF SBandBuffer

\* Members that are converted, and one that is not.
LEMMA FullStatusFits ==
    Fits("S_GET_FULL_STATUS",
         Calls(Get(<<Out(0, StructSize, "members", "driver"),
                     Out(StructSize, 2, "host", "driver")>>), 7))
<1>1. PICK a \in AnyOut : /\ a = Out(0, StructSize, "members", "driver") /\ a.at = 0
                          /\ a.n = StructSize /\ a.as = "members" /\ a.from = "driver"
  BY SizeAssumption, OneOut
<1>2. PICK b \in AnyOut : /\ b = Out(StructSize, 2, "host", "driver")
                          /\ b.at = StructSize /\ b.as = "host" /\ b.from = "driver"
  <2>1. LET o == Out(StructSize, 2, "host", "driver")
        IN  o \in AnyOut /\ o.at = StructSize /\ o.as = "host" /\ o.from = "driver"
    BY SizeAssumption DEF Out, AnyOut
  <2> QED
    BY <2>1
<1>3. PICK out : out = <<a, b>>
  OBVIOUS
<1>4. out \in Seq(AnyOut) /\ DOMAIN out = {1, 2} /\ out[1] = a /\ out[2] = b
  BY <1>3
<1>5. Tiled(out)
  BY <1>1, <1>2, <1>4, SizeAssumption DEF Tiled
<1>6. PICK in : in = <<>>
  OBVIOUS
<1>7. PlainIn(in) /\ in \in Seq(AnyIn)
  BY <1>6, CommandInputs DEF PlainIn
<1>8. RowOK(Reply(in, out)) /\ Reply(in, out).in = in /\ Reply(in, out).out = out
  BY <1>1, <1>2, <1>4, <1>7, ReplyRow DEF ArgumentGiven
<1>9. Reply(in, out).status # "first"
  BY DEF Reply, Cmd
<1>10. Fine("S_GET_FULL_STATUS", Reply(in, out))
  BY <1>1, <1>2, <1>4, <1>5, <1>7, <1>8, <1>9
     DEF Fine, Fits, HostOrdered, RawReplies, PlainIn, FromRequest
<1>11. Fits("S_GET_FULL_STATUS", Calls(Reply(in, out), 7))
  BY <1>10, StayFine, FineFits
<1> QED
  BY <1>1, <1>2, <1>3, <1>6, <1>11 DEF Get

LEMMA SBandFullFit == AllFit(SBandFull)
<1>1. \A s : Fits(s, Cmd(<<>>))
  BY AreFine, FineFits, CommandInputs, PlainCmd
<1> QED
  BY <1>1, FullStatusFits, FitCase, FitBoth DEF SBandFull

LEMMA SBandSetsFit == AllFit(SBandSets)
<1>1. \A s : /\ Fits(s, Cmd(<<U32(0)>>)) /\ Fits(s, Cmd(<<U8(0)>>))
             /\ Fits(s, Cmd(<<U8(0), U8(1)>>))
             /\ Fits(s, Cmd(<<U8(0), U8(1), U8(2), U8(3)>>))
  BY CommandInputs, PlainCmd, PlainFits
<1>2. \A s : Fits(s, Calls(Cmd(<<U32(0)>> \o [i \in 1..7 |-> U8(3 + i)]), 4))
  BY ConfigInput, PlainCmd, AreFine, StayFine, FineFits
<1> QED
  BY <1>1, <1>2, FitCase, FitBoth DEF SBandSets

LEMMA UhfSetsFit == AllFit(UhfSets)
<1>1. \A s : /\ Fits(s, Cmd(<<Whole>>)) /\ Fits(s, Cmd(<<U32(0)>>))
             /\ Fits(s, Cmd(<<U8(0)>>))
  BY CommandInputs, PlainCmd, PlainFits
<1>2. \A s : Fits(s, Calls(Cmd(<<U32(0), U32(4), U32(8), U32(12)>>), 4))
  BY CommandInputs, PlainCmd, AreFine, StayFine, FineFits
<1>3. \A s : Fits(s, [Calls(Cmd(<<>>), 2) EXCEPT !.status = "first"])
  <2>1. \A s : Fits(s, Calls(Cmd(<<>>), 2))
    BY CommandInputs, PlainCmd, AreFine, StayFine, FineFits
  <2> DEFINE r == Calls(Cmd(<<>>), 2)
             q == [r EXCEPT !.status = "first"]
  <2>2. r \in Row
    BY <2>1 DEF Fits, RowOK
  <2>3. q \in Row
    <3> HIDE DEF r
    <3> QED
      BY <2>2 DEF Row
  <2>4. q.in = r.in /\ q.out = r.out /\ q.len = r.len /\ q.calls > 0
    BY DEF Calls, Cmd
  <2>5. \A s : Fits(s, q)
    <3> HIDE DEF q
    <3>1. \A s : Fits(s, r)
      BY <2>1
    <3> HIDE DEF r
    <3> QED
      BY <2>3, <2>4, <3>1, SameBytes
  <2> QED
    BY <2>5
<1> QED
  BY <1>1, <1>2, <1>3, FitCase, FitEach, FitBoth DEF UhfSets

LEMMA UhfTextsFit == AllFit(UhfTexts)
<1>1. \A s \in {"UHF_SET_DEST", "UHF_SET_SRC"} :
         Fits(s, Cmd(<<In(0, CallSignMax, "padded")>>))
  BY SizeAssumption, OneInFine, FineFits
<1>2. \A s : /\ Fits(s, Cmd(<<In(0, TextMax, "text")>>))
             /\ Fits(s, Refusing(Cmd(<<In(1, TextMax, "text")>>)))
  BY SizeAssumption, OneInFine, StayFine, FineFits
<1> QED
  BY <1>1, <1>2, FitCase, FitEach, FitBoth DEF UhfTexts

\* An address of four bytes that is not converted, then the bytes to write.
LEMMA WriteFramFits ==
    Fits("UHF_WRITE_FRAM", Cmd(<<In(0, 4, "cnv"), In(4, FramSize, "bytes")>>))
<1>1. PICK a \in AnyIn : a = In(0, 4, "cnv") /\ a.at = 0 /\ a.n = 4 /\ a.as = "cnv"
  BY OneIn
<1>2. PICK b \in AnyIn : b = In(4, FramSize, "bytes") /\ b.at = 4 /\ b.as = "bytes"
  <2>1. LET f == In(4, FramSize, "bytes") IN f \in AnyIn /\ f.at = 4 /\ f.as = "bytes"
    BY SizeAssumption DEF In, AnyIn
  <2> QED
    BY <2>1
<1>3. PICK in : in = <<a, b>>
  OBVIOUS
<1>4. in \in Seq(AnyIn) /\ DOMAIN in = {1, 2} /\ in[1] = a /\ in[2] = b
  BY <1>3
<1>5. RowOK(Cmd(in)) /\ Cmd(in).in = in /\ Cmd(in).out = <<>>
  BY <1>4, CmdRow
<1>6. FromRequest(in)
  BY <1>1, <1>2, <1>4 DEF FromRequest, Tiled
<1>7. Tiled(<<>>) /\ DOMAIN <<>> = {}
  BY DEF Tiled
<1>8. Fits("UHF_WRITE_FRAM", Cmd(in))
  BY <1>1, <1>2, <1>4, <1>5, <1>6, <1>7 DEF Fits, HostOrdered
<1> QED
  BY <1>1, <1>2, <1>3, <1>8

LEMMA UhfMemoryFit == AllFit(UhfMemory)
<1>1. Fits("UHF_SET_I2C", Cmd(<<In(0, 1, "narrow")>>))
  <2>1. "UHF_SET_I2C" \in HostOrdered /\ 0 \in Nat /\ 1 \in Nat /\ 1 <= 4
    BY DEF HostOrdered
  <2> QED
    BY <2>1, OneInFine, FineFits
<1>2. Fits("UHF_SECURE", Cmd(<<U8(0)>>))
  BY CommandInputs, PlainCmd, PlainFits
<1> QED
  BY <1>1, <1>2, WriteFramFits, FitCase, FitBoth DEF UhfMemory

\* Two texts, one after the other.
LEMMA CallSignFits ==
    \A s : Fits(s, Calls(Get(<<Out(0, CallSignMax, "bytes", "driver"),
                               Out(CallSignMax, CallSignMax, "bytes", "driver")>>), 2))
<1>1. PICK a \in AnyOut : /\ a = Out(0, CallSignMax, "bytes", "driver") /\ a.at = 0
                          /\ a.n = CallSignMax /\ a.as = "bytes" /\ a.from = "driver"
  BY SizeAssumption, OneOut
<1>2. PICK b \in AnyOut : /\ b = Out(CallSignMax, CallSignMax, "bytes", "driver")
                          /\ b.at = CallSignMax /\ b.as = "bytes" /\ b.from = "driver"
  <2>1. LET o == Out(CallSignMax, CallSignMax, "bytes", "driver")
        IN  o \in AnyOut /\ o.at = CallSignMax /\ o.as = "bytes" /\ o.from = "driver"
    BY SizeAssumption DEF Out, AnyOut
  <2> QED
    BY <2>1
<1>3. PICK out : out = <<a, b>>
  OBVIOUS
<1>4. out \in Seq(AnyOut) /\ DOMAIN out = {1, 2} /\ out[1] = a /\ out[2] = b
  BY <1>3
<1>5. PlainOut(out)
  BY <1>1, <1>2, <1>4, SizeAssumption DEF PlainOut, Tiled, OutHostFree
<1>6. Plain(Get(out))
  BY <1>1, <1>2, <1>4, <1>5, PlainGet
<1>7. \A s : Fits(s, Calls(Get(out), 2))
  BY <1>6, AreFine, StayFine, FineFits
<1> QED
  BY <1>1, <1>2, <1>3, <1>7

\* A reply of which an input is not plain.
LEMMA GetFramFits ==
    Fits("UHF_GET_FRAM", Reply(<<In(0, 4, "cnv")>>, <<Number(FramSize, "bytes")>>))
<1>1. PICK f \in AnyIn : f = In(0, 4, "cnv") /\ f.at = 0 /\ f.n = 4 /\ f.as = "cnv"
  BY OneIn
<1>2. PICK o \in AnyOut : /\ o = Number(FramSize, "bytes") /\ o.at = 0 /\ o.as = "bytes"
                          /\ o.from = "driver"
  BY SizeAssumption, OneOut DEF Number
<1>3. PICK in : in = <<f>>
  OBVIOUS
<1>4. PICK out : out = <<o>>
  OBVIOUS
<1>5. in \in Seq(AnyIn) /\ DOMAIN in = {1} /\ in[1] = f
  BY <1>3
<1>6. PlainOut(out) /\ out \in Seq(AnyOut) /\ DOMAIN out = {1} /\ out[1] = o
  BY <1>2, <1>4, OneOutput
<1>7. RowOK(Reply(in, out)) /\ Reply(in, out).in = in /\ Reply(in, out).out = out
  BY <1>2, <1>5, <1>6, ReplyRow DEF ArgumentGiven
<1>8. FromRequest(in)
  BY <1>1, <1>5 DEF FromRequest, Tiled
<1>9. Fits("UHF_GET_FRAM", Reply(in, out))
  BY <1>1, <1>2, <1>5, <1>6, <1>7, <1>8 DEF Fits, HostOrdered, PlainOut
<1> QED
  BY <1>1, <1>2, <1>3, <1>4, <1>9

LEMMA UhfGetsFit == AllFit(UhfGets)
<1>1. \A s : Fits(s, Calls(GetStruct("members"), 10))
  BY StructFine, StayFine, FineFits
<1>2. \A s : Fits(s, GetNumber(TextMax, "text")) /\ Fits(s, GetNumber(4, "net"))
  BY SizeAssumption, NumberRows, PlainFits
<1>3. Fits("COMM_unknown", NoCase("SATR_PKT_ILLEGAL_SUBSERVICE"))
  BY NoCaseFits, FineFits
<1> QED
  BY <1>1, <1>2, <1>3, CallSignFits, GetFramFits, FitCase, FitEach, FitBoth DEF UhfGets

LEMMA CommRowsFit == AllFit(CommRows)
BY SBandGetsFit, SBandBufferFit, SBandFullFit, SBandSetsFit, UhfSetsFit, UhfTextsFit,
   UhfMemoryFit, UhfGetsFit, FitBoth DEF CommRows

LEMMA TimeRowsFit == AllFit(TimeRows)
<1>1. \A s : Fits(s, Refusing(Cmd(<<U32(0)>>)))
  BY CommandInputs, PlainCmd, AreFine, StayFine, FineFits
<1>2. \A s : Fits(s, Unchecked(GetNumber(4, "net")))
  BY NumberRows, AreFine, StayFine, FineFits
<1> QED
  BY <1>1, <1>2, NoCaseFits, FineFits, FitCase, FitBoth DEF TimeRows

LEMMA DfgmRowsFit == AllFit(DfgmRows)
<1>1. Fits("DFGM_RUN", Cmd(<<In(0, 4, "cnv")>>))
  BY OneInFine, FineFits DEF HostOrdered
<1>2. \A s : Fits(s, Cmd(<<>>))
  BY CommandInputs, PlainCmd, PlainFits
<1>3. \A s : Fits(s, Unchecked(Get(<<Out(0, StructSize, "members", "preset")>>)))
  <2>1. PICK o \in AnyOut : /\ o = Out(0, StructSize, "members", "preset") /\ o.at = 0
                            /\ o.as = "members" /\ o.from = "preset"
    BY SizeAssumption, OneOut
  <2>2. PlainOut(<<o>>) /\ DOMAIN <<o>> = {1} /\ <<o>>[1] = o
    BY <2>1, OneOutput
  <2>3. Plain(Get(<<o>>))
    BY <2>1, <2>2, PlainGet
  <2> QED
    BY <2>1, <2>3, AreFine, StayFine, FineFits
<1> QED
  BY <1>1, <1>2, <1>3, NoCaseFits, FineFits, FitCase, FitEach, FitBoth DEF DfgmRows

\* A reboot is asked for after the answer.
LEMMA RebootFits == \A s : Fits(s, [Refusing(Cmd(<<U8(0)>>)) EXCEPT !.calls = 0])
<1> DEFINE r == Refusing(Cmd(<<U8(0)>>))
           q == [r EXCEPT !.calls = 0]
<1>1. \A s : Fits(s, r)
  BY CommandInputs, PlainCmd, AreFine, StayFine, FineFits
<1>2. r \in Row
  BY <1>1 DEF Fits, RowOK
<1>3. q \in Row
  <2> HIDE DEF r
  <2> QED
    BY <1>2 DEF Row
<1>4. q.in = r.in /\ q.out = r.out /\ q.len = r.len /\ q.status # "first"
  BY DEF Refusing, Cmd
<1> QED
  BY <1>1, <1>3, <1>4, SameBytes

LEMMA DeployFits ==
    Fine("DEPLOY_DEPLOYABLES",
         Reply(<<In(0, 1, "enum")>>, <<Out(0, 2, "host", "preset")>>))
<1>1. PICK a \in AnyIn : a = In(0, 1, "enum") /\ a.as = "enum"
  BY OneIn
<1>2. PICK o \in AnyOut : /\ o = Out(0, 2, "host", "preset") /\ o.at = 0
                          /\ o.as = "host" /\ o.from = "preset"
  BY OneOut
<1>3. PICK in : in = <<a>>
  OBVIOUS
<1>4. PICK out : out = <<o>>
  OBVIOUS
<1>5. in \in Seq(AnyIn) /\ \A k \in DOMAIN in : in[k].as # "narrow"
  BY <1>1, <1>3
<1>6. Tiled(out) /\ out \in Seq(AnyOut) /\ DOMAIN out = {1} /\ out[1] = o
  BY <1>2, <1>4, OneOutput
<1>7. RowOK(Reply(in, out)) /\ Reply(in, out).in = in /\ Reply(in, out).out = out
  BY <1>2, <1>5, <1>6, ReplyRow DEF ArgumentGiven
<1>8. Reply(in, out).status # "first"
  BY DEF Reply, Cmd
<1> QED
  BY <1>1, <1>2, <1>3, <1>4, <1>5, <1>6, <1>7, <1>8
     DEF Fine, Fits, HostOrdered

LEMMA GeneralRowsFit == AllFit(GeneralRows)
<1>1. Fits("DEPLOY_DEPLOYABLES",
           Unchecked(Reply(<<In(0, 1, "enum")>>, <<Out(0, 2, "host", "preset")>>)))
  BY DeployFits, StayFine, FineFits
<1>2. \A s : Fits(s, AlwaysOk(Calls(GetNumber(8, "bytes"), 8)))
  <2>1. \A s : Fine(s, Calls(GetNumber(8, "bytes"), 8))
    BY NumberRows, AreFine, StayFine
  <2> QED
    BY <2>1, StayFine, FineFits
<1>3. \A s \in {"GET_UHF_WATCHDOG_TIMEOUT", "GET_SBAND_WATCHDOG_TIMEOUT",
                "GET_CHARON_WATCHDOG_TIMEOUT"} : Fits(s, AlwaysOk(GetNumber(4, "host")))
  BY HostNumberFine, StayFine, FineFits DEF HostOrdered
<1>4. \A s \in {"SET_UHF_WATCHDOG_TIMEOUT", "SET_SBAND_WATCHDOG_TIMEOUT",
                "SET_CHARON_WATCHDOG_TIMEOUT"} : Fits(s, Cmd(<<In(0, 4, "low")>>))
  BY OneInFine, FineFits
<1> QED
  BY <1>1, <1>2, <1>3, <1>4, RebootFits, NoCaseFits, FineFits, FitCase, FitEach, FitBoth
     DEF GeneralRows

LEMMA HousekeepingRowsFit == AllFit(HousekeepingRows)
<1>1. \A s : Fits(s, Cmd(<<U16(0)>>))
  BY CommandInputs, PlainCmd, PlainFits
<1>2. \A s : Fits(s, AlwaysOk(GetNumber(2, "net")))
  BY NumberRows, AreFine, StayFine, FineFits
<1> QED
  BY <1>1, <1>2, NoCaseFits, FineFits, FitCase, FitBoth DEF HousekeepingRows

LEMMA LoggerRowsFit == AllFit(LoggerRows)
<1>1. Fits("SET_FILE_SIZE", Cmd(<<In(0, 4, "host")>>))
  BY OneInFine, FineFits DEF HostOrdered
<1>2. Fits("GET_FILE_SIZE", Unchecked(GetNumber(4, "host")))
  BY HostNumberFine, StayFine, FineFits DEF HostOrdered
<1> QED
  BY <1>1, <1>2, NoCaseFits, FineFits, FitCase, FitBoth DEF LoggerRows

LEMMA UpdaterRowsFit == AllFit(UpdaterRows)
<1>1. \A s \in {"GET_GOLDEN_INFO", "GET_APP_INFO"} :
         Fits(s, Refusing(AlwaysOk(GetStruct("raw"))))
  <2>1. \A s \in {"GET_GOLDEN_INFO", "GET_APP_INFO"} : Fine(s, AlwaysOk(GetStruct("raw")))
    BY StructFine, StayFine DEF RawReplies
  <2> QED
    BY <2>1, StayFine, FineFits
<1>2. Fits("SET_APP_ADDRESS", Refusing(AlwaysOk(Cmd(<<In(0, 4, "host")>>))))
  <2>1. Fine("SET_APP_ADDRESS", AlwaysOk(Cmd(<<In(0, 4, "host")>>)))
    BY OneInFine, StayFine DEF HostOrdered
  <2> QED
    BY <2>1, StayFine, FineFits
<1>3. Fits("SET_APP_CRC", Refusing(AlwaysOk(Cmd(<<In(0, 2, "host")>>))))
  <2>1. Fine("SET_APP_CRC", AlwaysOk(Cmd(<<In(0, 2, "host")>>)))
    BY OneInFine, StayFine DEF HostOrdered
  <2> QED
    BY <2>1, StayFine, FineFits
<1>4. \A s : Fits(s, Refusing(AlwaysOk(Cmd(<<>>)))) /\ Fits(s, Refusing(Cmd(<<>>)))
  <2>1. \A s : Fine(s, Cmd(<<>>)) /\ Fine(s, AlwaysOk(Cmd(<<>>)))
    BY CommandInputs, PlainCmd, AreFine, StayFine
  <2> QED
    BY <2>1, StayFine, FineFits
<1>5. \A s : Fits(s, Refusing(NoCase("SATR_PKT_ILLEGAL_SUBSERVICE")))
  BY NoCaseFits, StayFine, FineFits
<1> QED
  BY <1>1, <1>2, <1>3, <1>4, <1>5, FitCase, FitEach, FitBoth DEF UpdaterRows

LEMMA RowsFit == AllFit(Rows)
BY AdcsRowsFit, CommRowsFit, TimeRowsFit, DfgmRowsFit, GeneralRowsFit, HousekeepingRowsFit,
   LoggerRowsFit, UpdaterRowsFit, FitBoth DEF Rows

-----------------------------------------------------------------------------
(***************************************************************************)
(* Byte order.                                                             *)
(***************************************************************************)
IsBytes(s, n) == s = [j \in 1..n |-> s[j]]

LEMMA Reversed ==
    ASSUME NEW n \in Nat, NEW s, IsBytes(s, n)
    PROVE  /\ Len(s) = n /\ IsBytes(Reverse(s), n)
           /\ \A j \in 1..n : Reverse(s)[j] = s[n - j + 1]
<1>1. PICK q : q = [j \in 1..n |-> s[j]]
  OBVIOUS
<1>2. Len(q) = n /\ q = s
  BY <1>1 DEF IsBytes
<1> QED
  BY <1>2 DEF Reverse, IsBytes

LEMMA ReversedTwice ==
    ASSUME NEW n \in Nat, NEW s, IsBytes(s, n)
    PROVE  Reverse(Reverse(s)) = s
<1>1. IsBytes(Reverse(s), n) /\ \A j \in 1..n : Reverse(s)[j] = s[n - j + 1]
  BY Reversed
<1>2. /\ IsBytes(Reverse(Reverse(s)), n)
      /\ \A j \in 1..n : Reverse(Reverse(s))[j] = Reverse(s)[n - j + 1]
  BY <1>1, Reversed
<1>3. \A j \in 1..n : n - j + 1 \in 1..n /\ n - (n - j + 1) + 1 = j
  OBVIOUS
<1>4. \A j \in 1..n : Reverse(Reverse(s))[j] = s[j]
  BY <1>1, <1>2, <1>3
<1> QED
  BY <1>2, <1>4 DEF IsBytes

\* A structure in memory, copied and converted.
LEMMA StructBytes ==
    ASSUME NEW h \in BOOLEAN, NEW v, IsBytes(v, StructSize), NEW narrow, NEW z
    PROVE  LET m == MembersInHostOrder(h, Mirror, v)
               c == MembersInHostOrder(h, Mirror, MembersSwapped(h, Mirror, narrow, v, z))
           IN  /\ IsBytes(m, StructSize) /\ IsBytes(c, StructSize)
               /\ \A j \in 1..StructSize :
                     /\ Mirror[j] \in 1..StructSize /\ Mirror[Mirror[j]] = j
                     /\ m[j] = IF h THEN v[Mirror[j]] ELSE v[j]
                     /\ c[j] = IF h /\ Mirror[j] \in narrow THEN z ELSE v[j]
<1>1. DOMAIN v = 1..StructSize
  BY DEF IsBytes
<1>2. \A j \in 1..StructSize : Mirror[j] \in 1..StructSize /\ Mirror[Mirror[j]] = j
  BY LayoutAssumption
<1>3. PICK w : w = [j \in 1..StructSize |-> v[Mirror[j]]]
  OBVIOUS
<1>4. PICK t : t = [j \in 1..StructSize |-> IF j \in narrow THEN z ELSE v[Mirror[j]]]
  OBVIOUS
<1>5. PICK u : u = [j \in 1..StructSize |-> t[Mirror[j]]]
  OBVIOUS
<1>6. CASE h
  <2>1. MembersInHostOrder(h, Mirror, v) = w
    BY <1>1, <1>3, <1>6 DEF MembersInHostOrder
  <2>2. MembersSwapped(h, Mirror, narrow, v, z) = t
    BY <1>1, <1>4, <1>6 DEF MembersSwapped
  <2>3. MembersInHostOrder(h, Mirror, t) = u
    BY <1>4, <1>5, <1>6 DEF MembersInHostOrder
  <2>4. IsBytes(w, StructSize) /\ IsBytes(u, StructSize)
    BY <1>3, <1>5 DEF IsBytes
  <2>5. \A j \in 1..StructSize :
           w[j] = v[Mirror[j]] /\ u[j] = IF Mirror[j] \in narrow THEN z ELSE v[j]
    BY <1>2, <1>3, <1>4, <1>5
  <2> QED
    BY <1>2, <1>6, <2>1, <2>2, <2>3, <2>4, <2>5
<1>7. CASE ~h
  BY <1>2, <1>7 DEF MembersInHostOrder, MembersSwapped
<1> QED
  BY <1>6, <1>7

LEMMA InputHostFree ==
    ASSUME NEW p, NEW f \in AnyIn,
           f.as \in {"bytes", "net", "net16", "text", "padded", "low", "nothing"}
    PROVE  Input(TRUE, p, f) = Input(FALSE, p, f)
<1> DEFINE s == Bytes(p, 1 + f.at, f.n)
<1>1. f.n \in Nat /\ IsBytes(s, f.n)
  BY DEF Bytes, IsBytes, AnyIn
<1>2. Reverse(Reverse(s)) = s /\ Reverse(Reverse(Reverse(s))) = Reverse(s)
  <2> HIDE DEF s
  <2> QED
    BY <1>1, ReversedTwice
<1> QED
  BY <1>2 DEF Input, csp_ntoh, cnv8_32, cnv8_16, InHostOrder

LEMMA OutputHostFree ==
    ASSUME NEW k, k \in DOMAIN row.out, row.out[k] \in AnyOut,
           \/ row.out[k].as \in {"bytes", "net", "text", "members"}
           \/ row.out[k].as = "host" /\ row.out[k].n = 1
    PROVE  Output(TRUE, k) = Output(FALSE, k)
<1> DEFINE o == row.out[k]
           v == Source(k, o)
<1>1. o.n \in Nat /\ IsBytes(v, o.n)
  BY DEF Source, IsBytes, AnyOut
<1>2. Reverse(Reverse(v)) = v
  <2> HIDE DEF v
  <2> QED
    BY <1>1, ReversedTwice
<1>3. o.n = 1 => Reverse(v) = v
  <2> HIDE DEF v
  <2>1. ASSUME o.n = 1 PROVE Reverse(v) = v
    <3>1. /\ IsBytes(Reverse(v), 1) /\ IsBytes(v, 1)
          /\ \A j \in 1..1 : Reverse(v)[j] = v[1 - j + 1]
      BY <1>1, <2>1, Reversed
    <3>2. \A j \in 1..1 : 1 - j + 1 = j
      OBVIOUS
    <3> QED
      BY <3>1, <3>2 DEF IsBytes
  <2> QED
    BY <2>1
<1>4. CASE o.as = "members"
  <2> HIDE DEF v
  <2>1. \A h \in BOOLEAN :
           Output(h, k) = MembersInHostOrder(h, Mirror, MembersSwapped(h, Mirror, {}, v, Zero))
    BY <1>4 DEF Output, v
  <2>2. IsBytes(v, StructSize)
    BY <1>1, <1>4 DEF AnyOut
  <2>3. \A h \in BOOLEAN :
           /\ IsBytes(Output(h, k), StructSize)
           /\ \A j \in 1..StructSize : Output(h, k)[j] = v[j]
    BY <2>1, <2>2, StructBytes, SMTT(60)
  <2>4. \A h \in BOOLEAN : Output(h, k) = v
    BY <2>2, <2>3 DEF IsBytes
  <2> QED
    BY <2>4
<1>5. CASE o.as = "bytes"
  BY <1>5 DEF Output
<1>6. CASE o.as = "net"
  <2> HIDE DEF v
  <2>1. \A h : Output(h, k) = InHostOrder(h, csp_ntoh(h, v))
    BY <1>6 DEF Output, v
  <2> QED
    BY <1>2, <2>1 DEF csp_ntoh, InHostOrder
<1>7. CASE o.as = "text"
  BY <1>7 DEF Output
<1>8. CASE o.as = "host" /\ o.n = 1
  <2> HIDE DEF v
  <2>1. \A h : Output(h, k) = InHostOrder(h, v)
    BY <1>8 DEF Output, v
  <2> QED
    BY <1>3, <1>8, <2>1 DEF InHostOrder
<1> QED
  BY <1>4, <1>5, <1>6, <1>7, <1>8

-----------------------------------------------------------------------------
(***************************************************************************)
(* The status.                                                             *)
(***************************************************************************)
LEMMA MinIs ==
    ASSUME NEW S \in SUBSET Nat, S # {}
    PROVE  Min(S) \in S /\ \A y \in S : Min(S) <= y
<1>1. PICK x \in S : \A y \in S : ~(<<y, x>> \in OpToRel(<, Nat))
  <2>1. S \subseteq Nat
    OBVIOUS
  <2> QED
    BY <2>1, NatLessThanWellFounded, WFMin
<1>2. ASSUME NEW y \in S PROVE x <= y
  <2>1. x \in Nat /\ y \in Nat
    OBVIOUS
  <2>2. ASSUME y < x PROVE <<y, x>> \in OpToRel(<, Nat)
    BY <2>1, <2>2 DEF OpToRel
  <2>3. ~(y < x)
    BY <1>1, <2>2, Zenon
  <2> QED
    BY <2>1, <2>3
<1> QED
  BY <1>1, <1>2 DEF Min

\* What the calls of a row return, ret, depending on how they make the status.
Returned(r, ret) ==
    \/ /\ r.status = "sum" /\ IsBytes(ret, r.calls)
       /\ \A i \in 1..r.calls : ret[i] \in Int /\ -25 <= ret[i] /\ ret[i] <= 0
    \/ r.status = "zero" /\ \A i \in DOMAIN ret : ret[i] = 0
    \/ /\ r.status = "first"
       /\ \E m \in Nat : m > 0 /\ IsBytes(ret, m) /\ \A i \in 1..(m - 1) : ret[i] = 0

LEMMA OutcomesAre ==
    ASSUME NEW n \in Nat, NEW all \in Outcomes(n)
    PROVE  /\ IsBytes(all, n)
           /\ \A i \in 1..n : all[i] \in Int /\ -25 <= all[i] /\ all[i] <= 0
<1>1. \A f \in Failures : f \in Int /\ -25 <= f /\ f <= 0
  BY FailureAssumption
<1> QED
  BY <1>1 DEF Outcomes, IsBytes

LEMMA CutAtFailure ==
    ASSUME NEW n \in Nat, n > 0, NEW all, IsBytes(all, n)
    PROVE  \E m \in Nat : /\ m > 0 /\ IsBytes(UpToFailure(all), m)
                          /\ \A i \in 1..(m - 1) : UpToFailure(all)[i] = 0
<1> DEFINE S == {i \in DOMAIN all : all[i] # 0} \cup {Len(all)}
           m == Min(S)
<1>1. DOMAIN all = 1..n /\ Len(all) = n
  <2>1. PICK q : q = [j \in 1..n |-> all[j]]
    OBVIOUS
  <2> QED
    BY <2>1 DEF IsBytes
<1>2. m \in S /\ \A y \in S : m <= y
  <2>1. S \in SUBSET Nat /\ S # {}
    BY <1>1
  <2> HIDE DEF S
  <2> QED
    BY <2>1, MinIs
<1>3. m \in 1..n
  BY <1>1, <1>2
<1>4. \A i \in 1..(m - 1) : all[i] = 0
  <2> SUFFICES ASSUME NEW i \in 1..(m - 1), all[i] # 0 PROVE FALSE
    OBVIOUS
  <2>1. i \in 1..n /\ i < m
    BY <1>3
  <2>2. i \in S
    BY <1>1, <2>1
  <2>3. m <= i
    BY <1>2, <2>2
  <2> HIDE DEF m
  <2> QED
    BY <1>3, <2>1, <2>3
<1> HIDE DEF m
<1>5. UpToFailure(all) = SubSeq(all, 1, m)
  BY DEF UpToFailure, m
<1> DEFINE q == SubSeq(all, 1, m)
           V == {all[i] : i \in 1..n}
<1>6. /\ q \in Seq(V) /\ Len(q) = (IF 1 <= m THEN m - 1 + 1 ELSE 0)
      /\ \A i \in 1..m - 1 + 1 : q[i] = all[1 + i - 1]
  <2>1. m \in Int /\ 1 \in Int /\ \A i \in 1..m : all[i] \in V
    BY <1>3
  <2> HIDE DEF V
  <2>2. SubSeq(all, 1, m) \in Seq(V)
    BY <2>1, SubSeqProperties
  <2>3. Len(SubSeq(all, 1, m)) = (IF 1 <= m THEN m - 1 + 1 ELSE 0)
    BY <2>1, SubSeqProperties
  <2>4. \A i \in 1..m - 1 + 1 : SubSeq(all, 1, m)[i] = all[1 + i - 1]
    BY <2>1, SubSeqProperties
  <2> QED
    BY <2>2, <2>3, <2>4
<1> HIDE DEF q, V
<1>7. Len(q) = m /\ \A i \in 1..m : q[i] = all[i]
  BY <1>3, <1>6
<1>8. IsBytes(q, m)
  <2>1. q = [i \in 1..Len(q) |-> q[i]]
    BY <1>6
  <2> QED
    BY <1>7, <2>1 DEF IsBytes
<1>9. \A i \in 1..(m - 1) : q[i] = 0
  BY <1>3, <1>4, <1>7
<1>10. UpToFailure(all) = q
  BY <1>5 DEF q
<1> QED
  BY <1>3, <1>8, <1>9, <1>10

LEMMA CallReturns ==
    ASSUME row \in Row, row.status = "first" => row.calls > 0, Call, refused = FALSE
    PROVE  Returned(row, returned')
<1>1. row.calls \in Nat /\ row.status \in {"sum", "first", "zero"}
  BY DEF Row
<1>2. CASE row.status = "zero"
  BY <1>2 DEF Call, Returned
<1>3. CASE row.status = "sum"
  BY <1>1, <1>3, OutcomesAre DEF Call, Returned
<1>4. CASE row.status = "first"
  <2>1. PICK all \in Outcomes(row.calls) : returned' = UpToFailure(all)
    BY <1>4 DEF Call
  <2>2. IsBytes(all, row.calls)
    BY <1>1, OutcomesAre
  <2> QED
    BY <1>1, <1>4, <2>1, <2>2, CutAtFailure DEF Returned
<1> QED
  BY <1>1, <1>2, <1>3, <1>4

LEMMA StatusIsZero ==
    ASSUME row \in Row, refused = FALSE, Returned(row, returned)
    PROVE  status = 0 <=> \A i \in DOMAIN returned : returned[i] = 0
<1>1. CASE row.status = "zero"
  BY <1>1 DEF status, Returned
<1>2. CASE row.status = "sum"
  <2>1. PICK n \in Nat : n = row.calls /\ n <= 10
    BY DEF Row
  <2>2. /\ returned = [i \in 1..n |-> returned[i]]
        /\ \A i \in 1..n : returned[i] \in Int /\ -25 <= returned[i] /\ returned[i] <= 0
    BY <1>2, <2>1 DEF Returned, IsBytes
  <2>3. returned \in [1..n -> Int] /\ DOMAIN returned = 1..n /\ Len(returned) = n
    <3>1. PICK q : q = [i \in 1..n |-> returned[i]]
      OBVIOUS
    <3> QED
      BY <2>2, <3>1
  <2>4. Int8(Sum) = 0 <=> \A i \in 1..n : returned[i] = 0
    BY <2>1, <2>2, <2>3, FailuresAddUp
  <2>5. status = Int8(Sum)
    BY <1>2 DEF status
  <2> QED
    BY <2>3, <2>4, <2>5
<1>3. CASE row.status = "first"
  <2>1. PICK m \in Nat : /\ m > 0 /\ IsBytes(returned, m)
                         /\ \A i \in 1..(m - 1) : returned[i] = 0
    BY <1>3 DEF Returned
  <2>2. DOMAIN returned = 1..m /\ Len(returned) = m
    <3>1. PICK q : q = [i \in 1..m |-> returned[i]]
      OBVIOUS
    <3> QED
      BY <2>1, <3>1 DEF IsBytes
  <2>3. status = returned[m]
    BY <1>3, <2>2 DEF status, Last
  <2> QED
    BY <2>1, <2>2, <2>3
<1> QED
  BY <1>1, <1>2, <1>3 DEF Row

-----------------------------------------------------------------------------
(***************************************************************************)
(* The invariant: what has been decided about the request at each point.   *)
(***************************************************************************)
RequestKnown ==
    /\ pc \in {"idle", "read", "call", "answer", "done"}
    /\ pc # "idle" => subservice \in Subservice
    /\ refused \in BOOLEAN /\ (pc \in {"idle", "read"} => refused = FALSE)
    /\ DOMAIN packet = Place

ResultsKnown == pc \in {"answer", "done"} /\ refused = FALSE => Returned(row, returned)

StatusWritten == pc = "done" /\ row.len # 0 => packet[1] = <<"status", status>>

Answering == RequestKnown /\ ResultsKnown /\ StatusWritten

LEMMA RowFits ==
    ASSUME subservice \in Subservice
    PROVE  /\ Fits(subservice, row) /\ row \in Row /\ Top >= 2
           /\ row.status = "first" => row.calls > 0
<1>1. Fits(subservice, row)
  BY RowsFit DEF AllFit, Subservice, row
<1>2. row \in Row /\ (row.status = "first" => row.calls > 0)
  BY <1>1 DEF Fits, RowOK
<1>3. OutSize(row.out) \in Nat
  BY <1>2, OutSizes DEF Row
<1>4. Top \in Nat /\ 2 + OutSize(row.out) <= Top
  BY TopAssumption DEF row
<1> QED
  BY <1>1, <1>2, <1>3, <1>4

\* Writing the outputs does not touch the status byte.
LEMMA OutputsAfterStatus ==
    ASSUME row \in Row, NEW p, DOMAIN p = Place, Top \in Nat, Top >= 2
    PROVE  DOMAIN WithOutputs(p) = Place /\ WithOutputs(p)[1] = p[1]
<1>1. 1 \in Place
  BY DEF Place
<1>2. Reaching(1) = {}
  <2>1. \A k \in DOMAIN row.out : row.out[k].at \in Nat /\ row.out[k].n \in Nat
    <3>1. row.out \in Seq(AnyOut)
      BY DEF Row
    <3>2. \A k \in DOMAIN row.out : row.out[k] \in AnyOut
      BY <3>1
    <3> QED
      BY <3>2 DEF AnyOut
  <2>2. \A k \in DOMAIN row.out : 1 - 1 - row.out[k].at \notin 1..row.out[k].n
    BY <2>1
  <2> QED
    BY <2>2 DEF Reaching
<1> QED
  BY <1>1, <1>2 DEF WithOutputs

LEMMA AnsweringInit == Init => Answering
BY DEF Init, Answering, RequestKnown, ResultsKnown, StatusWritten, Left

LEMMA AnsweringStep == Answering /\ [Next]_vars => Answering'
<1> SUFFICES ASSUME Answering, [Next]_vars PROVE Answering'
  OBVIOUS
<1> USE DEF Answering, RequestKnown
<1>1. ASSUME NEW s \in Subservice, NEW n \in RequestLengths(s), NEW ends \in BOOLEAN,
             pc = "idle", Receive(s, n, ends)
      PROVE  Answering'
  BY <1>1 DEF Receive, ResultsKnown, StatusWritten, Place
<1>2. CASE Read
  <2>1. refused' \in BOOLEAN
    BY <1>2 DEF Read
  <2> QED
    BY <1>2, <2>1 DEF Read, ResultsKnown, StatusWritten, Place, Subservice
<1>3. CASE Call
  <2>1. row \in Row /\ (row.status = "first" => row.calls > 0)
    BY <1>3, RowFits DEF Call
  <2>2. row' = row
    BY <1>3 DEF Call, row
  <2>3. ResultsKnown'
    BY <1>3, <2>1, <2>2, CallReturns DEF Call, ResultsKnown
  <2> QED
    BY <1>3, <2>3 DEF Call, StatusWritten, Place, Subservice
<1>4. CASE Answer
  <2>1. row \in Row /\ Top \in Nat /\ Top >= 2
    BY <1>4, RowFits, TopAssumption DEF Answer
  <2>2. row' = row /\ status' = status
    BY <1>4 DEF Answer, row, status, Sum
  <2>3. PICK p : p = [packet EXCEPT ![1] = <<"status", status>>]
    OBVIOUS
  <2>4. DOMAIN p = Place /\ p[1] = <<"status", status>>
    BY <2>1, <2>3 DEF Place
  <2>5. DOMAIN WithOutputs(p) = Place /\ WithOutputs(p)[1] = <<"status", status>>
    BY <2>1, <2>4, OutputsAfterStatus
  <2>6. RequestKnown'
    BY <1>4, <2>3, <2>5 DEF Answer, Place, Subservice
  <2>7. ResultsKnown'
    BY <1>4, <2>2 DEF Answer, ResultsKnown
  <2>8. StatusWritten'
    BY <1>4, <2>2, <2>3, <2>5 DEF Answer, StatusWritten
  <2> QED
    BY <2>6, <2>7, <2>8
<1>5. CASE Finish
  BY <1>5 DEF Finish, ResultsKnown, StatusWritten, Left, Place
<1>6. CASE UNCHANGED vars
  BY <1>6 DEF vars, ResultsKnown, StatusWritten, Place, Subservice, row, status, Sum
<1> QED
  BY <1>1, <1>2, <1>3, <1>4, <1>5, <1>6 DEF Next

\* The status of a reply is 0 exactly when the request was accepted and every driver
\* call succeeded: the sum of the results cannot wrap around to 0, no output reaches the
\* status byte, and a handler that stops at the first failure reports that one.
THEOREM StatusTold == Spec => []StatusTellsFailure
<1>1. Answering => StatusTellsFailure
  <2> SUFFICES ASSUME Answering, Sent, row.len # 0
               PROVE  packet[1] = <<"status", 0>> <=> AllSucceeded
    BY DEF StatusTellsFailure
  <2>1. row \in Row /\ packet[1] = <<"status", status>>
    BY RowFits DEF Answering, RequestKnown, StatusWritten, Sent
  <2>2. refused = TRUE => status = -1 /\ ~AllSucceeded
    BY DEF status, AllSucceeded
  <2>3. refused = FALSE => (status = 0 <=> AllSucceeded)
    BY <2>1, StatusIsZero DEF Answering, ResultsKnown, Sent, AllSucceeded
  <2>4. status = 0 <=> AllSucceeded
    BY <2>2, <2>3 DEF Answering, RequestKnown
  <2>5. <<"status", status>> = <<"status", 0>> <=> status = 0
    OBVIOUS
  <2> QED
    BY <2>1, <2>4, <2>5
<1> QED
  BY <1>1, AnsweringInit, AnsweringStep, PTL DEF Spec

\* What a request means and what a reply reads does not depend on the byte order of the
\* host, in every subservice that is not one of the listed exceptions.
THEOREM ByteOrderFree == Spec => []ByteOrderHostFree
<1>1. Answering => ByteOrderHostFree
  <2> SUFFICES ASSUME Answering, pc # "idle", subservice \notin HostOrdered
               PROVE  /\ Inputs(TRUE, packet) = Inputs(FALSE, packet)
                      /\ \A k \in DOMAIN row.out : Output(TRUE, k) = Output(FALSE, k)
    BY DEF ByteOrderHostFree, Sent
  <2>1. row \in Row /\ InHostFree(row.in) /\ OutHostFree(row.out)
    BY RowFits DEF Answering, RequestKnown, Fits
  <2>2. /\ \A k \in DOMAIN row.in : row.in[k] \in AnyIn
        /\ \A k \in DOMAIN row.out : row.out[k] \in AnyOut
    <3>1. row.in \in Seq(AnyIn) /\ row.out \in Seq(AnyOut)
      BY <2>1 DEF Row
    <3> QED
      BY <3>1
  <2>3. \A k \in DOMAIN row.in : Input(TRUE, packet, row.in[k]) = Input(FALSE, packet, row.in[k])
    BY <2>1, <2>2, InputHostFree DEF InHostFree
  <2>4. \A k \in DOMAIN row.out : Output(TRUE, k) = Output(FALSE, k)
    BY <2>1, <2>2, OutputHostFree DEF OutHostFree
  <2> QED
    BY <2>3, <2>4 DEF Inputs
<1> QED
  BY <1>1, AnsweringInit, AnsweringStep, PTL DEF Spec

-----------------------------------------------------------------------------
(***************************************************************************)
(* Sizes.  The ADCS and the communication service compare the size of what *)
(* they write with that of a buffer, but for the exceptions.               *)
(***************************************************************************)
UncheckedReplies == {"ADCS_GET_CURRENT_STATE", "ADCS_GET_SAT_POS_LLH",
                     "S_GET_STATUS", "ADCS_FILE_UPLOAD_PACKET"}

Compared(s, r) ==
    \/ s \in UncheckedReplies
    \/ r.len = 0 /\ r.in = <<>>
    \/ r.len = 2 + r.check \/ r.len = 2
    \/ r.len = 4 /\ r.check = StructSize

AllCompared(f) == \A s \in DOMAIN f : Compared(s, f[s])

LEMMA ComparedBoth ==
    ASSUME NEW f, NEW g, AllCompared(f), AllCompared(g) PROVE AllCompared(f ++ g)
<1>1. PICK h : h = f ++ g /\ Joins(h, f, g)
  BY JoinedCases
<1>2. AllCompared(h)
  BY ONLY AllCompared(f), AllCompared(g), <1>1 DEF AllCompared, Joins
<1> QED
  BY ONLY <1>1, <1>2

LEMMA ComparedCase ==
    ASSUME NEW s, NEW r, Compared(s, r) PROVE AllCompared(Case(s, r))
BY DEF AllCompared, Case

LEMMA ComparedEach ==
    ASSUME NEW names, NEW r, \A s \in names : Compared(s, r) PROVE AllCompared(Each(names, r))
BY DEF AllCompared, Each

LEMMA RowsCompared ==
    /\ \A s, in : Compared(s, Cmd(in))
    /\ \A s, in, n : Compared(s, Calls(Cmd(in), n))
    /\ \A s, in : Compared(s, Refusing(Cmd(in)))
    /\ \A s, in, out : Compared(s, Reply(in, out))
    /\ \A s, out : Compared(s, Get(out))
    /\ \A s, out : Compared(s, IfOk(Get(out)))
    /\ \A s, out, n : Compared(s, Calls(Get(out), n))
    /\ \A s, kind : Compared(s, NoCase(kind))
<1>1. \A s, in : Compared(s, Cmd(in))
  BY DEF Compared, Cmd
<1>2. \A s, in, n : Compared(s, Calls(Cmd(in), n))
  BY DEF Compared, Cmd, Calls
<1>3. \A s, in : Compared(s, Refusing(Cmd(in)))
  BY DEF Compared, Cmd, Refusing
<1>4. \A s, in, out : Compared(s, Reply(in, out))
  BY DEF Compared, Cmd, Reply
<1>5. \A s, out : Compared(s, Get(out))
  BY <1>4 DEF Get
<1>6. \A s, out : Compared(s, IfOk(Get(out)))
  BY DEF Compared, Cmd, Reply, Get, IfOk
<1>7. \A s, out, n : Compared(s, Calls(Get(out), n))
  BY DEF Compared, Cmd, Reply, Get, Calls
<1>8. \A s, kind : Compared(s, NoCase(kind))
  BY DEF Compared, Cmd, NoCase
<1> QED
  BY <1>1, <1>2, <1>3, <1>4, <1>5, <1>6, <1>7, <1>8

LEMMA AdcsCompared == AllCompared(AdcsRows)
<1> USE RowsCompared, ComparedCase, ComparedEach, ComparedBoth
<1>1. AllCompared(AdcsFiles)
  BY ZenonT(60) DEF AdcsFiles, Compared, UncheckedReplies
<1>2. AllCompared(AdcsIdentity) /\ AllCompared(AdcsMeasures)
  BY DEF AdcsIdentity, AdcsMeasures, GetStruct, GetNumber
<1>3. AllCompared(AdcsUpload)
  BY DEF AdcsUpload, GetStruct, GetNumber
<1>4. AllCompared(AdcsCache)
  <2>1. \A s, out : Compared(s, [Cmd(<<U8(0), U8(1)>>) EXCEPT !.out = out])
    BY DEF Compared, Cmd
  <2> QED
    BY <2>1 DEF AdcsCache, GetStruct, GetNumber
<1>5. AllCompared(AdcsBoot) /\ AllCompared(AdcsControl)
  BY DEF AdcsBoot, AdcsControl, GetStruct, GetNumber
<1>6. AllCompared(AdcsState)
  BY DEF AdcsState, GetStruct, GetNumber, Compared, UncheckedReplies
<1>7. AllCompared(AdcsPower)
  BY DEF AdcsPower, GetStruct, GetNumber
<1>8. AllCompared(AdcsOrbit) /\ AllCompared(AdcsConfig)
  BY DEF AdcsOrbit, AdcsConfig, GetStruct, GetNumber
<1> QED
  BY <1>1, <1>2, <1>3, <1>4, <1>5, <1>6, <1>7, <1>8 DEF AdcsRows

LEMMA CommCompared == AllCompared(CommRows)
<1> USE RowsCompared, ComparedCase, ComparedEach, ComparedBoth
<1>1. AllCompared(SBandGets)
  <2>1. \A r : Compared("S_GET_STATUS", r)
    BY DEF Compared, UncheckedReplies
  <2> QED
    BY <2>1 DEF SBandGets, GetStruct, GetNumber
<1>2. AllCompared(SBandBuffer)
  <2>1. PICK o \in AnyOut : o = Number(2, "net") /\ o.n = 2
    BY OneOut DEF Number
  <2>2. PICK out : out = <<o>>
    OBVIOUS
  <2>3. OutSize(out) = 2
    <3>1. out \in Seq(AnyOut) /\ Len(out) = 1 /\ out[1] = o
      BY <2>2
    <3>2. PICK f \in [0..1 -> Nat] : f[0] = 0 /\ f[1] = f[1 - 1] + out[1].n
                                     /\ OutSize(out) = f[1]
      BY <3>1, OutSizeAddsUp
    <3> QED
      BY <2>1, <3>1, <3>2
  <2>4. \A s, in : Compared(s, [Reply(in, out) EXCEPT !.check = StructSize])
    BY <2>3 DEF Compared, Reply, Cmd
  <2> QED
    BY <2>1, <2>2, <2>4 DEF SBandBuffer
<1>3. AllCompared(SBandFull) /\ AllCompared(SBandSets)
  BY DEF SBandFull, SBandSets
<1>4. AllCompared(UhfSets)
  <2>1. \A s : Compared(s, [Calls(Cmd(<<>>), 2) EXCEPT !.status = "first"])
    BY DEF Compared, Cmd, Calls
  <2> QED
    BY <2>1 DEF UhfSets
<1>5. AllCompared(UhfTexts) /\ AllCompared(UhfMemory) /\ AllCompared(UhfGets)
  BY DEF UhfTexts, UhfMemory, UhfGets, GetStruct, GetNumber
<1> QED
  BY <1>1, <1>2, <1>3, <1>4, <1>5 DEF CommRows

\* What the answer of a request says of its size, and the state that goes with it.
Announced ==
    /\ room \in Nat
    /\ pc \in {"read", "call", "answer"} => length \in RequestLengths(subservice)
    /\ pc = "done" =>
          /\ result = IF refused THEN "SATR_OK" ELSE IF TooBig THEN "SATR_ERROR" ELSE row.result
          /\ \/ refused /\ length = 2
             \/ ~refused /\ row.len # 0 /\ length = row.len
             \/ ~refused /\ row.len = 0 /\ length \in RequestLengths(subservice)

LEMMA AnnouncedInit == Init => Announced
BY BufferAssumption DEF Init, Announced

LEMMA AnnouncedStep == Answering /\ Announced /\ [Next]_vars => Announced'
<1> SUFFICES ASSUME Answering, Announced, [Next]_vars PROVE Announced'
  OBVIOUS
<1> USE DEF Announced
<1>1. ASSUME NEW s \in Subservice, NEW n \in RequestLengths(s), NEW ends \in BOOLEAN,
             Receive(s, n, ends)
      PROVE  Announced'
  BY <1>1 DEF Receive
<1>2. CASE Read
  BY <1>2 DEF Read
<1>3. CASE Call
  BY <1>3 DEF Call
<1>4. CASE Answer
  <2>1. row' = row /\ room' = room /\ refused' = refused /\ subservice' = subservice
    BY <1>4 DEF Answer, row
  <2>2. TooBig' = TooBig
    BY <2>1 DEF TooBig
  <2>3. refused \in BOOLEAN
    BY DEF Answering, RequestKnown
  <2>4. result' = IF refused THEN "SATR_OK" ELSE IF TooBig THEN "SATR_ERROR" ELSE row.result
    BY <1>4, <2>3 DEF Answer
  <2>5. \/ refused /\ length' = 2
        \/ ~refused /\ row.len # 0 /\ length' = row.len
        \/ ~refused /\ row.len = 0 /\ length' = length
    BY <1>4, <2>3 DEF Answer
  <2>6. length \in RequestLengths(subservice)
    BY <1>4 DEF Answer
  <2> QED
    BY <1>4, <2>1, <2>2, <2>4, <2>5, <2>6 DEF Answer
<1>5. CASE Finish
  BY <1>5 DEF Finish
<1>6. CASE UNCHANGED vars
  BY <1>6 DEF vars, row, TooBig
<1> QED
  BY <1>1, <1>2, <1>3, <1>4, <1>5, <1>6 DEF Next

LEMMA NothingNeeded ==
    ASSUME NEW s, Rows[s].in = <<>>
    PROVE  RequestLengths(s) = {1}
<1>1. PICK f : f[0] = 0 /\ Needed(s) = 1 + f[Len(Rows[s].in)]
  <2>1. Rows[s].in \in Seq(AnyIn)
    OBVIOUS
  <2> QED
    BY <2>1, NeededIsFurthest
<1>2. Len(Rows[s].in) = 0 /\ DOMAIN Rows[s].in = {}
  OBVIOUS
<1>3. Needed(s) = 1
  BY <1>1, <1>2
<1> QED
  BY <1>2, <1>3 DEF RequestLengths, HasText

LEMMA FirstWins ==
    ASSUME NEW f, NEW g, NEW s \in DOMAIN f
    PROVE  s \in DOMAIN (f ++ g) /\ (f ++ g)[s] = f[s]
<1>1. PICK h : h = f ++ g /\ Joins(h, f, g)
  BY JoinedCases
<1>2. s \in DOMAIN h /\ h[s] = f[s]
  BY ONLY s \in DOMAIN f, <1>1 DEF Joins
<1> QED
  BY ONLY <1>1, <1>2

LEMMA AdcsRowsAmongRows == \A s \in DOMAIN AdcsRows : Rows[s] = AdcsRows[s]
BY FirstWins DEF Rows

LEMMA CommRowsAmongRows ==
    ASSUME NEW s \in DOMAIN CommRows, s \notin DOMAIN AdcsRows
    PROVE  Rows[s] = CommRows[s]
<1> DEFINE both == AdcsRows ++ CommRows
<1>1. s \in DOMAIN both /\ both[s] = CommRows[s]
  <2>1. PICK h : h = both /\ Joins(h, AdcsRows, CommRows)
    BY JoinedCases
  <2>2. s \in DOMAIN h /\ h[s] = CommRows[s]
    BY ONLY s \in DOMAIN CommRows, s \notin DOMAIN AdcsRows, <2>1 DEF Joins
  <2> QED
    BY ONLY <2>1, <2>2
<1>2. Rows = both ++ TimeRows ++ DfgmRows ++ GeneralRows ++ HousekeepingRows ++ LoggerRows
             ++ UpdaterRows
  BY DEF Rows
<1> HIDE DEF both
<1> DEFINE three == both ++ TimeRows  four == three ++ DfgmRows
           five == four ++ GeneralRows  six == five ++ HousekeepingRows
           seven == six ++ LoggerRows
<1>3. s \in DOMAIN three /\ three[s] = CommRows[s]
  BY <1>1, FirstWins
<1> HIDE DEF three
<1>4. s \in DOMAIN four /\ four[s] = CommRows[s]
  BY <1>3, FirstWins
<1> HIDE DEF four
<1>5. s \in DOMAIN five /\ five[s] = CommRows[s]
  BY <1>4, FirstWins
<1> HIDE DEF five
<1>6. s \in DOMAIN six /\ six[s] = CommRows[s]
  BY <1>5, FirstWins
<1> HIDE DEF six
<1>7. s \in DOMAIN seven /\ seven[s] = CommRows[s]
  BY <1>6, FirstWins
<1>8. Rows = seven ++ UpdaterRows
  BY <1>2 DEF seven, six, five, four, three
<1> HIDE DEF seven
<1> QED
  BY <1>7, <1>8, FirstWins

\* A reply of the ADCS and the communication service that is sent is at most one byte
\* longer than a buffer, whatever the sizes of structures, texts and buffers, except in
\* the four subservices that compare nothing, or the wrong size.
THEOREM SentRepliesFit == Spec => []SentReplyFits
<1>1. Answering /\ Announced => SentReplyFits
  <2> SUFFICES ASSUME Answering, Announced, Sent,
                      subservice \in DOMAIN AdcsRows \cup DOMAIN CommRows,
                      subservice \notin UncheckedReplies, length > 2
               PROVE  length <= room + 1
    <3>1. length \in Int \/ ~(Answering /\ Announced /\ Sent)
      <4> SUFFICES ASSUME Answering, Announced, Sent PROVE length \in Int
        OBVIOUS
      <4>1. row \in Row /\ Rows[subservice] = row
        BY RowFits DEF Answering, RequestKnown, Sent, row
      <4>2. CASE row.len # 0 \/ refused
        BY <4>1, <4>2 DEF Announced, Sent, Row
      <4>3. CASE row.len = 0 /\ ~refused
        <5>1. length \in RequestLengths(subservice)
          BY <4>3 DEF Announced, Sent
        <5>2. row.in \in Seq(AnyIn)
          BY <4>1 DEF Row
        <5>3. PICK f \in [0..Len(row.in) -> Nat] : Needed(subservice) = 1 + f[Len(row.in)]
          BY <4>1, <5>2, NeededIsFurthest
        <5>4. Needed(subservice) \in Int
          <6>1. Len(row.in) \in 0..Len(row.in)
            BY <5>2
          <6> QED
            BY <5>3, <6>1
        <5> QED
          BY <5>1, <5>4 DEF RequestLengths
      <4> QED
        BY <4>2, <4>3
    <3> QED
      BY <3>1 DEF SentReplyFits, UncheckedReplies, Announced
  <2>1. row \in Row /\ subservice \in Subservice /\ Rows[subservice] = row
    BY RowFits DEF Answering, RequestKnown, Sent, row
  <2>2. Compared(subservice, row)
    <3>1. CASE subservice \in DOMAIN AdcsRows
      <4>1. row = AdcsRows[subservice]
        BY <3>1, AdcsRowsAmongRows DEF row
      <4> QED
        BY <3>1, <4>1, AdcsCompared DEF AllCompared
    <3>2. CASE subservice \notin DOMAIN AdcsRows
      <4>1. subservice \in DOMAIN CommRows /\ row = CommRows[subservice]
        <5>1. subservice \in DOMAIN CommRows
          BY <3>2
        <5>2. Rows[subservice] = CommRows[subservice]
          BY <3>2, <5>1, CommRowsAmongRows
        <5> QED
          BY <5>1, <5>2 DEF row
      <4> QED
        BY <4>1, CommCompared DEF AllCompared
    <3> QED
      BY <3>1, <3>2
  <2>3. ~refused
    BY DEF Announced, Sent
  <2>4. row.len # 0 /\ length = row.len
    <3>1. ASSUME row.len = 0 PROVE FALSE
      <4>1. length \in RequestLengths(subservice)
        BY <2>3, <3>1 DEF Announced, Sent
      <4>2. row.in = <<>>
        BY <2>1, <2>2, <3>1 DEF Compared, Row
      <4> QED
        BY <2>1, <4>1, <4>2, NothingNeeded
    <3> QED
      BY <2>3, <3>1 DEF Announced, Sent
  <2>5. ~TooBig /\ room \in Nat
    BY <2>3 DEF Announced, Sent
  <2>6. row.check \in Nat /\ (row.check > 0 => row.check + 1 <= room)
    BY <2>1, <2>5 DEF Row, TooBig
  <2>7. row.len = 2 + row.check \/ (row.len = 4 /\ row.check > 1)
    BY <2>1, <2>2, <2>4, SizeAssumption DEF Compared, Row
  <2> QED
    BY <2>4, <2>5, <2>6, <2>7
<1> QED
  BY <1>1, AnsweringInit, AnsweringStep, AnnouncedInit, AnnouncedStep, PTL DEF Spec

-----------------------------------------------------------------------------
(***************************************************************************)
(* Parts that lie one after the other: part k is bytes f[k-1]+1 to f[k].   *)
(***************************************************************************)
Parts(q, f) ==
    /\ f \in [0..Len(q) -> Nat] /\ f[0] = 0 /\ Len(q) \in Nat /\ DOMAIN q = 1..Len(q)
    /\ \A k \in 1..Len(q) :
          q[k].at = f[k - 1] /\ q[k].n \in Nat /\ f[k] = f[k - 1] + q[k].n

\* An induction the next two lemmas share.
LEMMA PartsMeet ==
    ASSUME NEW q, Len(q) \in Nat, DOMAIN q = 1..Len(q), Tiled(q),
           \A k \in 1..Len(q) : q[k].at \in Nat /\ q[k].n \in Nat,
           NEW f \in [0..Len(q) -> Nat], f[0] = 0,
           \A k \in 1..Len(q) : q[k].at = f[k - 1] => f[k] = f[k - 1] + q[k].n
    PROVE  Parts(q, f)
<1> DEFINE n == Len(q)
           Meets(k) == q[k].at = f[k - 1] /\ f[k] = f[k - 1] + q[k].n
           T == {m \in Nat : m + 1 <= n => Meets(m + 1)}
<1>1. 0 \in T
  <2>1. 1 <= n => q[1].at = 0
    BY DEF Tiled
  <2> QED
    BY <2>1
<1>2. ASSUME NEW m \in Nat, m \in T PROVE m + 1 \in T
  <2> SUFFICES ASSUME m + 2 <= n PROVE Meets(m + 2)
    <3>1. (m + 1) + 1 = m + 2
      OBVIOUS
    <3> QED
      BY <3>1
  <2>1. q[m + 1].at = f[m] /\ f[m + 1] = f[m] + q[m + 1].n
    BY <1>2
  <2>2. q[m + 2].at = q[m + 1].at + q[m + 1].n
    <3>1. m + 2 \in DOMAIN q /\ m + 2 # 1 /\ (m + 2) - 1 = m + 1
      OBVIOUS
    <3> QED
      BY <3>1 DEF Tiled
  <2>3. (m + 2) - 1 = m + 1 /\ m + 2 \in 1..n
    OBVIOUS
  <2> QED
    BY <2>1, <2>2, <2>3
<1>3. Nat \subseteq T
  <2> HIDE DEF T
  <2> QED
    BY <1>1, <1>2, SetInduction
<1>4. \A k \in 1..n : Meets(k)
  <2> SUFFICES ASSUME NEW k \in 1..n PROVE Meets(k)
    OBVIOUS
  <2> HIDE DEF Meets
  <2>1. k - 1 \in Nat /\ (k - 1) + 1 = k /\ k <= n
    OBVIOUS
  <2>2. k - 1 \in T
    BY <1>3, <2>1
  <2> QED
    BY <2>1, <2>2
<1> QED
  BY <1>4 DEF Parts

LEMMA OutParts ==
    ASSUME NEW out \in Seq(AnyOut), Tiled(out)
    PROVE  \E f : Parts(out, f) /\ OutSize(out) = f[Len(out)]
<1>1. /\ Len(out) \in Nat /\ DOMAIN out = 1..Len(out)
      /\ \A k \in 1..Len(out) : out[k].at \in Nat /\ out[k].n \in Nat
  <2>1. \A k \in 1..Len(out) : out[k] \in AnyOut
    OBVIOUS
  <2> QED
    BY <2>1 DEF AnyOut
<1>2. PICK f \in [0..Len(out) -> Nat] :
         /\ f[0] = 0 /\ \A k \in 1..Len(out) : f[k] = f[k - 1] + out[k].n
         /\ OutSize(out) = f[Len(out)]
  BY OutSizeAddsUp
<1> QED
  BY <1>1, <1>2, PartsMeet

LEMMA InParts ==
    ASSUME NEW s, NEW in \in Seq(AnyIn), in = Rows[s].in, Tiled(in)
    PROVE  \E f : Parts(in, f) /\ Needed(s) = 1 + f[Len(in)]
<1>1. /\ Len(in) \in Nat /\ DOMAIN in = 1..Len(in)
      /\ \A k \in 1..Len(in) : in[k].at \in Nat /\ in[k].n \in Nat
  <2>1. \A k \in 1..Len(in) : in[k] \in AnyIn
    OBVIOUS
  <2> QED
    BY <2>1 DEF AnyIn
<1>2. PICK f \in [0..Len(in) -> Nat] :
         /\ f[0] = 0
         /\ \A k \in 1..Len(in) : LET e == in[k].at + in[k].n
                                  IN  f[k] = IF f[k - 1] > e THEN f[k - 1] ELSE e
         /\ Needed(s) = 1 + f[Len(in)]
  BY NeededIsFurthest
<1>3. \A k \in 1..Len(in) : in[k].at = f[k - 1] => f[k] = f[k - 1] + in[k].n
  <2> SUFFICES ASSUME NEW k \in 1..Len(in), in[k].at = f[k - 1]
               PROVE  f[k] = f[k - 1] + in[k].n
    OBVIOUS
  <2>1. PICK b \in Nat, n \in Nat : b = in[k].at /\ n = in[k].n
    BY <1>1
  <2>2. f[k] = IF b > b + n THEN b ELSE b + n
    BY <1>2, <2>1, Zenon
  <2> QED
    BY ONLY <2>1, <2>2, in[k].at = f[k - 1]
<1> QED
  BY <1>1, <1>2, <1>3, PartsMeet

LEMMA PartsGrow ==
    ASSUME NEW q, NEW f, Parts(q, f), NEW k \in 0..Len(q)
    PROVE  \A m \in k..Len(q) : f[k] <= f[m]
<1> DEFINE n == Len(q)
           T == {d \in Nat : k + d <= n => f[k] <= f[k + d]}
<1>1. 0 \in T
  BY DEF Parts
<1>2. ASSUME NEW d \in Nat, d \in T PROVE d + 1 \in T
  <2> SUFFICES ASSUME k + d + 1 <= n PROVE f[k] <= f[k + d + 1]
    OBVIOUS
  <2>1. f[k] <= f[k + d]
    BY <1>2
  <2>2. k + d + 1 \in 1..n /\ (k + d + 1) - 1 = k + d /\ k + d \in 0..n
    OBVIOUS
  <2>3. /\ f[k + d + 1] = f[k + d] + q[k + d + 1].n /\ f[k + d] \in Nat
        /\ q[k + d + 1].n \in Nat /\ f[k] \in Nat
    BY <2>2 DEF Parts
  <2> QED
    BY <2>1, <2>3
<1>3. Nat \subseteq T
  <2> HIDE DEF T
  <2> QED
    BY <1>1, <1>2, SetInduction
<1> SUFFICES ASSUME NEW m \in k..n PROVE f[k] <= f[m]
  OBVIOUS
<1>4. m - k \in Nat /\ k + (m - k) = m
  OBVIOUS
<1> QED
  BY <1>3, <1>4

LEMMA PartsCover ==
    ASSUME NEW q, NEW f, Parts(q, f), NEW x \in 1..f[Len(q)]
    PROVE  \E k \in 1..Len(q) : x - q[k].at \in 1..q[k].n
<1> DEFINE n == Len(q)
           S == {k \in 0..n : x <= f[k]}
           m == Min(S)
<1>1. n \in Nat /\ f[n] \in Nat /\ n \in S
  BY DEF Parts
<1>2. m \in S /\ \A k \in S : m <= k
  <2>1. S \in SUBSET Nat /\ S # {}
    BY <1>1
  <2> HIDE DEF S
  <2> QED
    BY <2>1, MinIs
<1>3. m \in 0..n /\ x <= f[m]
  BY <1>2
<1>4. m # 0
  <2> HIDE DEF m
  <2>1. f[0] = 0 /\ x > 0 /\ x \in Nat
    BY <1>1 DEF Parts
  <2> QED
    BY <1>3, <2>1
<1>5. ~(x <= f[m - 1])
  <2> SUFFICES ASSUME x <= f[m - 1] PROVE FALSE
    OBVIOUS
  <2>1. m - 1 \in S
    BY <1>1, <1>3, <1>4
  <2>2. m <= m - 1
    BY <1>2, <2>1
  <2> QED
    BY <1>3, <2>2
<1> HIDE DEF m
<1>6. m \in 1..n
  BY <1>1, <1>3, <1>4
<1>7. /\ q[m].at = f[m - 1] /\ f[m] = f[m - 1] + q[m].n /\ q[m].n \in Nat
      /\ f[m - 1] \in Nat
  BY <1>6, SMTT(60) DEF Parts
<1>8. x - q[m].at \in 1..q[m].n
  BY <1>1, <1>3, <1>5, <1>7
<1> QED
  BY <1>6, <1>8

LEMMA PartsInOrder ==
    ASSUME NEW q, NEW f, Parts(q, f), NEW i \in 1..Len(q), NEW j \in 1..Len(q), i < j
    PROVE  /\ q[i].at \in Nat /\ q[i].n \in Nat /\ q[j].at \in Nat /\ q[j].n \in Nat
           /\ q[i].at + q[i].n <= q[j].at
<1>1. /\ Len(q) \in Nat /\ i \in 0..Len(q) /\ j - 1 \in i..Len(q)
      /\ i - 1 \in 0..Len(q) /\ j - 1 \in 0..Len(q)
  BY DEF Parts
<1>2. f[i] <= f[j - 1]
  BY <1>1, PartsGrow
<1>3. q[i].at = f[i - 1] /\ f[i] = f[i - 1] + q[i].n /\ q[i].n \in Nat
  BY DEF Parts
<1>4. q[j].at = f[j - 1] /\ q[j].n \in Nat
  BY DEF Parts
<1>5. f[i - 1] \in Nat /\ f[j - 1] \in Nat
  BY <1>1 DEF Parts
<1> QED
  BY <1>2, <1>3, <1>4, <1>5

LEMMA PartsApart ==
    ASSUME NEW q, NEW f, Parts(q, f), NEW k \in 1..Len(q), NEW m \in 1..Len(q), k # m
    PROVE  \A x \in Int : ~(x - q[k].at \in 1..q[k].n /\ x - q[m].at \in 1..q[m].n)
<1>1. ASSUME NEW i \in 1..Len(q), NEW j \in 1..Len(q), i < j, NEW x \in Int,
             x - q[i].at \in 1..q[i].n, x - q[j].at \in 1..q[j].n
      PROVE  FALSE
  <2>1. /\ q[i].at \in Nat /\ q[i].n \in Nat /\ q[j].at \in Nat /\ q[j].n \in Nat
        /\ q[i].at + q[i].n <= q[j].at
    BY <1>1, PartsInOrder
  <2>2. x - q[i].at <= q[i].n /\ 1 <= x - q[j].at
    BY <1>1, <2>1
  <2> QED
    BY <2>1, <2>2, SMTT(60)
<1>2. Len(q) \in Nat
  BY DEF Parts
<1>3. k < m \/ m < k
  BY <1>2
<1> QED
  BY <1>1, <1>3

LEMMA PartsWithin ==
    ASSUME NEW q, NEW f, Parts(q, f), NEW k \in 1..Len(q)
    PROVE  /\ q[k].at \in Nat /\ q[k].n \in Nat /\ q[k].at + q[k].n <= f[Len(q)]
           /\ f[Len(q)] \in Nat
<1>1. Len(q) \in Nat /\ k \in 0..Len(q) /\ Len(q) \in k..Len(q) /\ k - 1 \in 0..Len(q)
  BY DEF Parts
<1>2. f[k] <= f[Len(q)]
  BY <1>1, PartsGrow
<1> QED
  BY <1>1, <1>2, SMTT(60) DEF Parts

-----------------------------------------------------------------------------
(***************************************************************************)
(* Conversions move bytes, and csp_hton32 of a narrow value may make zeros *)
(* of them.                                                                *)
(***************************************************************************)
LEMMA NarrowedBytes ==
    ASSUME NEW n \in 0..4, NEW v, IsBytes(v, n), NEW h \in BOOLEAN, NEW z
    PROVE  /\ IsBytes(Narrowed(h, v, z), n)
           /\ ~h => \A i \in 1..n : Narrowed(h, v, z)[i] = v[i]
           /\ \A i \in 1..n : Narrowed(h, v, z)[i] \in {z} \cup {v[j] : j \in 1..n}
<1> DEFINE S == {z} \cup {v[j] : j \in 1..n}
           zeros == [i \in 1..(4 - n) |-> z]
           q == zeros \o v
           swapped == csp_ntoh(h, q)
           r == SubSeq(swapped, 5 - n, 4)
<1>1. Len(v) = n /\ v \in Seq(S) /\ \A j \in 1..n : v[j] \in S
  <2>1. PICK w : w = [j \in 1..n |-> v[j]]
    OBVIOUS
  <2>2. w \in Seq(S) /\ Len(w) = n /\ w = v
    BY <2>1 DEF IsBytes
  <2> QED
    BY <2>2
<1>2. zeros \in Seq(S) /\ Len(zeros) = 4 - n /\ \A i \in 1..(4 - n) : zeros[i] = z
  OBVIOUS
<1> HIDE DEF zeros, S
<1>3. q \in Seq(S)
  BY <1>1, <1>2, ConcatProperties
<1>4. Len(q) = 4
  <2>1. Len(q) = Len(zeros) + Len(v)
    BY <1>1, <1>2, ConcatProperties
  <2> QED
    BY <1>1, <1>2, <2>1
<1>5. \A i \in 1..4 : q[i] = IF i <= 4 - n THEN z ELSE v[i - (4 - n)]
  <2>1. \A i \in 1..Len(zeros) + Len(v) :
           q[i] = IF i <= Len(zeros) THEN zeros[i] ELSE v[i - Len(zeros)]
    BY <1>1, <1>2, ConcatProperties
  <2> QED
    BY <1>1, <1>2, <2>1
<1> HIDE DEF q
<1>6. \A i \in 1..4 : q[i] \in S
  BY <1>3, <1>4, SMTT(60)
<1>7. IsBytes(q, 4)
  BY <1>3, <1>4 DEF IsBytes
<1>8. \A i \in 1..4 : Reverse(q)[i] = q[4 - i + 1]
  BY <1>7, Reversed
<1>9. \A i \in 1..4 : swapped[i] = IF h THEN q[4 - i + 1] ELSE q[i]
  BY <1>8 DEF csp_ntoh
<1>10. \A i \in 1..4 : swapped[i] \in S
  <2>1. \A i \in 1..4 : 4 - i + 1 \in 1..4
    OBVIOUS
  <2> QED
    BY <1>6, <1>9, <2>1
<1> HIDE DEF swapped
<1>11. \A i \in (5 - n)..4 : swapped[i] \in S
  BY <1>10
<1>12. r \in Seq(S)
  BY <1>11, SubSeqProperties
<1>13. Len(r) = n
  <2>1. Len(r) = IF 5 - n <= 4 THEN 4 - (5 - n) + 1 ELSE 0
    BY <1>11, SubSeqProperties
  <2> QED
    BY <2>1
<1>14. \A i \in 1..n : r[i] = swapped[4 - n + i]
  <2>1. \A i \in 1..4 - (5 - n) + 1 : r[i] = swapped[(5 - n) + i - 1]
    BY <1>11, SubSeqProperties
  <2>2. 4 - (5 - n) + 1 = n /\ \A i \in 1..n : (5 - n) + i - 1 = 4 - n + i
    OBVIOUS
  <2> QED
    BY <2>1, <2>2
<1> HIDE DEF r
<1>15. IsBytes(r, n) /\ \A i \in 1..n : r[i] \in S
  BY <1>12, <1>13 DEF IsBytes
<1>16. ~h => \A i \in 1..n : r[i] = v[i]
  <2> SUFFICES ASSUME ~h, NEW i \in 1..n PROVE r[i] = v[i]
    OBVIOUS
  <2>1. 4 - n + i \in 1..4 /\ ~(4 - n + i <= 4 - n) /\ (4 - n + i) - (4 - n) = i
    OBVIOUS
  <2>2. r[i] = q[4 - n + i]
    BY <1>9, <1>14, <2>1
  <2> QED
    BY <1>5, <2>1, <2>2
<1>17. Narrowed(h, v, z) = r
  BY <1>1 DEF Narrowed, r, swapped, q, zeros
<1> QED
  BY <1>15, <1>16, <1>17 DEF S

\* No byte of s comes from an earlier packet.
NoneLeft(s, n) == IsBytes(s, n) /\ \A i \in 1..n : s[i][1] # "left"

LEMMA ReversedNoneLeft ==
    ASSUME NEW n \in Nat, NEW s, NoneLeft(s, n), NEW h \in BOOLEAN
    PROVE  NoneLeft(InHostOrder(h, s), n) /\ NoneLeft(csp_ntoh(h, s), n)
<1>1. IsBytes(Reverse(s), n) /\ \A j \in 1..n : Reverse(s)[j] = s[n - j + 1]
  BY Reversed DEF NoneLeft
<1>2. \A j \in 1..n : n - j + 1 \in 1..n
  OBVIOUS
<1>3. NoneLeft(Reverse(s), n)
  BY <1>1, <1>2 DEF NoneLeft
<1> QED
  BY <1>3 DEF InHostOrder, csp_ntoh

LEMMA NarrowedNoneLeft ==
    ASSUME NEW n \in 0..4, NEW s, NoneLeft(s, n), NEW h \in BOOLEAN
    PROVE  NoneLeft(Narrowed(h, s, Zero), n)
<1>1. /\ IsBytes(Narrowed(h, s, Zero), n)
      /\ \A i \in 1..n : Narrowed(h, s, Zero)[i] \in {Zero} \cup {s[j] : j \in 1..n}
  BY NarrowedBytes DEF NoneLeft
<1>2. Zero[1] # "left"
  BY DEF Zero
<1>3. \A i \in 1..n : Narrowed(h, s, Zero)[i][1] # "left"
  BY <1>1, <1>2 DEF NoneLeft
<1> QED
  BY <1>1, <1>3 DEF NoneLeft

LEMMA OutputNoneLeft ==
    ASSUME NEW h \in BOOLEAN, NEW k, row.out[k] \in AnyOut,
           row.out[k].as = "narrow" => row.out[k].n <= 4,
           row.out[k].from = "argument" => \A j \in 1..row.out[k].n : args[1][j][1] # "left"
    PROVE  NoneLeft(Output(h, k), row.out[k].n)
<1> DEFINE o == row.out[k]
           v == Source(k, o)
<1>1. /\ o.n \in Nat
      /\ o.as \in {"bytes", "host", "net", "narrow", "text", "raw", "members", "hton32"}
      /\ o.as \in {"raw", "members", "hton32"} => o.n = StructSize
  BY DEF AnyOut
<1>2. NoneLeft(v, o.n)
  <2>1. IsBytes(v, o.n)
    BY DEF Source, IsBytes
  <2>2. ASSUME NEW j \in 1..o.n PROVE v[j][1] # "left"
    <3>1. Zero[1] # "left" /\ Garbage[1] # "left" /\ <<"value", k, j>>[1] # "left"
      BY DEF Zero, Garbage
    <3>2. v[j] \in {<<"value", k, j>>, Zero, Garbage}
             \/ (o.from = "argument" /\ v[j] = args[1][j])
      BY DEF Source
    <3> QED
      BY <3>1, <3>2
  <2> QED
    BY <2>1, <2>2 DEF NoneLeft
<1>3. CASE o.as = "bytes"
  BY <1>2, <1>3 DEF Output
<1>4. CASE o.as = "host"
  <2>1. Output(h, k) = InHostOrder(h, v)
    BY <1>4 DEF Output
  <2> HIDE DEF v
  <2> QED
    BY <1>1, <1>2, <2>1, ReversedNoneLeft
<1>5. CASE o.as = "net"
  <2>1. Output(h, k) = InHostOrder(h, csp_ntoh(h, v))
    BY <1>5 DEF Output
  <2> HIDE DEF v
  <2>2. NoneLeft(csp_ntoh(h, v), o.n)
    BY <1>1, <1>2, ReversedNoneLeft
  <2> QED
    BY <1>1, <2>1, <2>2, ReversedNoneLeft
<1>6. CASE o.as = "narrow"
  <2>1. Output(h, k) = InHostOrder(h, Narrowed(h, v, Zero))
    BY <1>6 DEF Output
  <2>2. o.n \in 0..4
    BY <1>1, <1>6
  <2> HIDE DEF v
  <2>3. NoneLeft(Narrowed(h, v, Zero), o.n)
    BY <1>2, <2>2, NarrowedNoneLeft
  <2> QED
    BY <1>1, <2>1, <2>3, ReversedNoneLeft
<1>7. CASE o.as = "text"
  <2>1. Output(h, k) = [j \in 1..o.n |-> IF j <= Looped THEN v[j] ELSE Zero]
    BY <1>7 DEF Output
  <2> HIDE DEF v
  <2>2. Zero[1] # "left"
    BY DEF Zero
  <2> QED
    BY <1>2, <2>1, <2>2 DEF NoneLeft, IsBytes
<1>8. CASE o.as \in {"raw", "members", "hton32"}
  <2>1. \/ Output(h, k) = MembersInHostOrder(h, Mirror, v)
        \/ \E narrow : Output(h, k) = MembersInHostOrder(h, Mirror,
                                         MembersSwapped(h, Mirror, narrow, v, Zero))
    BY <1>8 DEF Output
  <2> HIDE DEF v
  <2>2. IsBytes(v, StructSize) /\ o.n = StructSize
    BY <1>1, <1>2, <1>8 DEF NoneLeft
  <2>3. PICK q : q = Output(h, k)
    OBVIOUS
  <2>4. IsBytes(q, StructSize) /\ \A j \in 1..StructSize : q[j] \in {v[j], v[Mirror[j]], Zero}
    BY <2>1, <2>2, <2>3, StructBytes, SMTT(60)
  <2>5. \A j \in 1..StructSize : Mirror[j] \in 1..StructSize
    BY LayoutAssumption
  <2>6. Zero[1] # "left"
    BY DEF Zero
  <2> QED
    BY <1>2, <2>2, <2>3, <2>4, <2>5, <2>6 DEF NoneLeft
<1> QED
  BY <1>1, <1>3, <1>4, <1>5, <1>6, <1>7, <1>8

\* Every byte of an output is in what goes into the packet, but for what is cut from a
\* text, and on a little-endian host from a narrow value or member.
LEMMA OutputKeeps ==
    ASSUME NEW h \in BOOLEAN, NEW k, row.out[k] \in AnyOut,
           row.out[k].as = "narrow" => ~h /\ row.out[k].n <= 4,
           NEW j \in 1..row.out[k].n,
           row.out[k].as = "text" => j <= Looped,
           row.out[k].as = "hton32" => ~(h /\ j \in Narrow)
    PROVE  \E i \in 1..row.out[k].n : Output(h, k)[i] = Source(k, row.out[k])[j]
<1> DEFINE o == row.out[k]
           v == Source(k, o)
<1>1. /\ o.n \in Nat
      /\ o.as \in {"bytes", "host", "net", "narrow", "text", "raw", "members", "hton32"}
      /\ o.as \in {"raw", "members", "hton32"} => o.n = StructSize
  BY DEF AnyOut
<1>2. IsBytes(v, o.n)
  BY DEF Source, IsBytes
<1>3. CASE o.as = "bytes"
  BY <1>3 DEF Output
<1>4. CASE o.as = "host"
  <2>1. Output(h, k) = IF h THEN Reverse(v) ELSE v
    BY <1>4 DEF Output, InHostOrder
  <2> HIDE DEF v
  <2>2. o.n - j + 1 \in 1..o.n /\ o.n - (o.n - j + 1) + 1 = j
    BY <1>1
  <2>3. Reverse(v)[o.n - j + 1] = v[j]
    <3>1. \A i \in 1..o.n : Reverse(v)[i] = v[o.n - i + 1]
      BY <1>1, <1>2, Reversed
    <3> QED
      BY <2>2, <3>1
  <2> QED
    BY <2>1, <2>2, <2>3 DEF v
<1>5. CASE o.as = "net"
  <2>1. Output(h, k) = IF h THEN Reverse(Reverse(v)) ELSE v
    BY <1>5 DEF Output, InHostOrder, csp_ntoh
  <2> HIDE DEF v
  <2>2. Output(h, k) = v
    BY <1>1, <1>2, <2>1, ReversedTwice
  <2> QED
    BY <2>2 DEF v
<1>6. CASE o.as = "narrow"
  <2>1. Output(h, k) = Narrowed(h, v, Zero)
    BY <1>6 DEF Output, InHostOrder
  <2>2. o.n \in 0..4 /\ ~h
    BY <1>1, <1>6
  <2> HIDE DEF v
  <2>3. Narrowed(h, v, Zero)[j] = v[j]
    BY <1>2, <2>2, NarrowedBytes
  <2> QED
    BY <2>1, <2>3 DEF v
<1>7. CASE o.as = "text"
  BY <1>7 DEF Output
<1>8. CASE o.as = "raw"
  <2>1. Output(h, k) = MembersInHostOrder(h, Mirror, v)
    BY <1>8 DEF Output
  <2> HIDE DEF v
  <2>2. IsBytes(v, StructSize) /\ o.n = StructSize
    BY <1>1, <1>2, <1>8
  <2>3. \A i \in 1..StructSize :
           /\ Mirror[i] \in 1..StructSize /\ Mirror[Mirror[i]] = i
           /\ Output(h, k)[i] = IF h THEN v[Mirror[i]] ELSE v[i]
    BY <2>1, <2>2, StructBytes
  <2>4. Output(h, k)[IF h THEN Mirror[j] ELSE j] = v[j]
    BY <2>2, <2>3
  <2> QED
    BY <2>2, <2>3, <2>4 DEF v
<1>9. CASE o.as \in {"members", "hton32"}
  <2>1. PICK narrow :
           /\ Output(h, k) = MembersInHostOrder(h, Mirror,
                                 MembersSwapped(h, Mirror, narrow, v, Zero))
           /\ o.as = "members" => narrow = {}
           /\ o.as = "hton32" => narrow = Narrow
    BY <1>9 DEF Output
  <2> HIDE DEF v
  <2>2. IsBytes(v, StructSize) /\ o.n = StructSize
    BY <1>1, <1>2, <1>9
  <2>3. \A i \in 1..StructSize :
           /\ Mirror[i] \in 1..StructSize /\ Mirror[Mirror[i]] = i
           /\ Output(h, k)[i] = IF h /\ Mirror[i] \in narrow THEN Zero ELSE v[i]
    <3>1. PICK c : c = MembersInHostOrder(h, Mirror, MembersSwapped(h, Mirror, narrow, v, Zero))
      OBVIOUS
    <3>2. \A i \in 1..StructSize :
             /\ Mirror[i] \in 1..StructSize /\ Mirror[Mirror[i]] = i
             /\ c[i] = IF h /\ Mirror[i] \in narrow THEN Zero ELSE v[i]
      BY ONLY h \in BOOLEAN, <2>2, <3>1, StructBytes, SMTT(60)
    <3>3. Output(h, k) = c
      BY <2>1, <3>1, Zenon
    <3> QED
      BY <3>2, <3>3, Zenon
  <2>4. ~(h /\ Mirror[j] \in narrow)
    BY <1>9, <2>1, <2>2, <2>3, LayoutAssumption
  <2>5. Output(h, k)[j] = v[j]
    BY <2>2, <2>3, <2>4
  <2> QED
    BY <2>5 DEF v
<1> QED
  BY <1>1, <1>3, <1>4, <1>5, <1>6, <1>7, <1>8, <1>9

-----------------------------------------------------------------------------
(***************************************************************************)
(* The request as it lies in the packet until it is answered.              *)
(***************************************************************************)
Request(n, ends) ==
    [i \in Place |-> IF i >= n THEN <<"left", i>>
                     ELSE IF ends /\ i = n - 1 THEN Zero
                     ELSE <<"request", i>>]

Holds(ends) ==
    /\ packet = Request(length, ends)
    /\ whole = (length >= Needed(subservice) \/ ends)
    /\ ends => HasText(subservice)

Asked ==
    /\ little \in BOOLEAN
    /\ pc \in {"read", "call", "answer"} => \E ends \in BOOLEAN : Holds(ends)
    /\ pc \in {"call", "answer"} => args = Inputs(little, packet)

LEMMA AskedInit == Init => Asked
BY DEF Init, Asked

\* Nothing of it changes between two steps that leave the packet alone.
LEMMA StillAsked ==
    ASSUME Asked, pc \in {"read", "call", "answer"},
           UNCHANGED <<packet, length, whole, subservice, little>>,
           pc' \in {"call", "answer"} => args' = Inputs(little, packet)
    PROVE  Asked'
<1>1. PICK ends \in BOOLEAN : Holds(ends)
  <2>1. \E ends \in BOOLEAN : Holds(ends)
    BY ONLY Asked, pc \in {"read", "call", "answer"}, ZenonT(60) DEF Asked
  <2> QED
    BY ONLY <2>1
<1>2. Holds(ends)'
  BY <1>1, SMTT(60) DEF Holds, Request
<1>3. pc' \in {"call", "answer"} => args' = Inputs(little', packet')
  BY ZenonT(60) DEF Inputs, row, Input
<1>4. little' \in BOOLEAN
  BY DEF Asked
<1> QED
  BY <1>2, <1>3, <1>4 DEF Asked, Inputs, row

LEMMA AskedStep == Asked /\ [Next]_vars => Asked'
<1> SUFFICES ASSUME Asked, [Next]_vars PROVE Asked'
  OBVIOUS
<1>1. ASSUME NEW s \in Subservice, NEW n \in RequestLengths(s), NEW ends \in BOOLEAN,
             ends => HasText(s), Receive(s, n, ends)
      PROVE  Asked'
  <2>1. /\ packet' = Request(n, ends) /\ whole' = (n >= Needed(s) \/ ends)
        /\ length' = n /\ subservice' = s /\ pc' = "read" /\ little' = little
    BY <1>1 DEF Receive, Request
  <2>2. little \in BOOLEAN
    BY DEF Asked
  <2>3. Holds(ends)'
    BY <1>1, <2>1 DEF Holds, Request
  <2> QED
    BY <2>1, <2>2, <2>3 DEF Asked
<1>2. CASE Read
  BY <1>2, StillAsked DEF Read
<1>3. CASE Call
  BY <1>3, StillAsked DEF Call, Asked
<1>4. CASE Answer
  BY <1>4 DEF Answer, Asked
<1>5. CASE Finish
  BY <1>5 DEF Finish, Asked
<1>6. CASE UNCHANGED vars
  <2>1. UNCHANGED <<packet, length, whole, subservice, little, args, pc>>
    BY <1>6 DEF vars
  <2>2. CASE pc \in {"read", "call", "answer"}
    BY <2>1, <2>2, StillAsked DEF Asked
  <2>3. CASE pc \notin {"read", "call", "answer"}
    BY <2>1, <2>3 DEF Asked
  <2> QED
    BY <2>2, <2>3
<1> QED
  BY <1>1, <1>2, <1>3, <1>4, <1>5, <1>6 DEF Next

\* The outputs are written, and the place i of the packet is one of output k.
WritesOutputs == row \in Row /\ Tiled(row.out) /\ refused = FALSE /\ ~(row.ifok /\ status # 0)

Of(i, k) == i - 1 - row.out[k].at \in 1..row.out[k].n

\* What is written at place i when output k reaches it: nothing else does.
LEMMA WrittenAt ==
    ASSUME WritesOutputs
    PROVE  \A i \in Place : \A k \in DOMAIN row.out :
              Of(i, k) => \A p : WithOutputs(p)[i] = Output(little, k)[i - 1 - row.out[k].at]
<1> SUFFICES ASSUME row \in Row, Tiled(row.out), refused = FALSE, ~(row.ifok /\ status # 0),
                    NEW i \in Place, NEW k \in DOMAIN row.out,
                    i - 1 - row.out[k].at \in 1..row.out[k].n, NEW p
             PROVE  WithOutputs(p)[i] = Output(little, k)[i - 1 - row.out[k].at]
  BY DEF WritesOutputs, Of
<1>1. row.out \in Seq(AnyOut)
  BY DEF Row
<1>2. PICK f : Parts(row.out, f)
  BY <1>1, OutParts
<1>3. DOMAIN row.out = 1..Len(row.out) /\ Len(row.out) \in Nat /\ i - 1 \in Int
  BY <1>1, TopAssumption DEF Place
<1>4. \A m \in DOMAIN row.out : m # k => ~(i - 1 - row.out[m].at \in 1..row.out[m].n)
  BY <1>2, <1>3, PartsApart
<1>5. Reaching(i) = {k}
  BY <1>4 DEF Reaching
<1>6. Max({k}) = k
  BY <1>3 DEF Max
<1> QED
  BY <1>5, <1>6 DEF WithOutputs

\* Every input lies before the end of the inputs.
LEMMA InputWithin ==
    ASSUME NEW s \in Subservice, Rows[s].in \in Seq(AnyIn), NEW k \in DOMAIN Rows[s].in
    PROVE  /\ Rows[s].in[k].at \in Nat /\ Rows[s].in[k].n \in Nat
           /\ Rows[s].in[k].at + Rows[s].in[k].n < Needed(s)
<1> DEFINE End(m) == Rows[s].in[m].at + Rows[s].in[m].n
<1>1. PICK n \in Nat : n = Len(Rows[s].in) /\ DOMAIN Rows[s].in = 1..n
  OBVIOUS
<1>2. \A m \in 1..n : Rows[s].in[m].at \in Nat /\ Rows[s].in[m].n \in Nat /\ End(m) \in Nat
  <2>1. \A m \in 1..n : Rows[s].in[m] \in AnyIn
    BY <1>1
  <2>2. \A m \in 1..n : Rows[s].in[m].at \in Nat /\ Rows[s].in[m].n \in Nat
    BY <2>1 DEF AnyIn
  <2>3. ASSUME NEW m \in 1..n PROVE End(m) \in Nat
    <3>1. PICK a \in Nat, b \in Nat : a = Rows[s].in[m].at /\ b = Rows[s].in[m].n
      BY <2>2
    <3>2. End(m) = a + b
      BY <3>1
    <3>3. a + b \in Nat
      OBVIOUS
    <3> HIDE DEF End
    <3> QED
      BY <3>2, <3>3
  <2> QED
    BY <2>2, <2>3
<1>3. PICK g \in [0..n -> Nat] :
         /\ \A m \in 1..n : g[m] = IF g[m - 1] > End(m) THEN g[m - 1] ELSE End(m)
         /\ Needed(s) = 1 + g[n]
  BY <1>1, NeededIsFurthest
<1> DEFINE T == {d \in Nat : k + d <= n => End(k) <= g[k + d]}
<1>4. k \in 1..n
  BY <1>1
<1> HIDE DEF End
<1>5. 0 \in T
  <2>1. g[k] = (IF g[k - 1] > End(k) THEN g[k - 1] ELSE End(k)) /\ g[k - 1] \in Nat
    BY <1>3, <1>4
  <2>2. End(k) <= g[k]
    BY <1>2, <1>4, <2>1
  <2> QED
    BY <1>4, <2>2
<1>6. ASSUME NEW d \in Nat, d \in T PROVE d + 1 \in T
  <2> SUFFICES ASSUME k + d + 1 <= n PROVE End(k) <= g[k + d + 1]
    BY <1>4
  <2>1. End(k) <= g[k + d]
    BY <1>4, <1>6
  <2>2. PICK m \in 1..n : m = k + d + 1 /\ m - 1 = k + d /\ m - 1 \in 0..n
    BY <1>4
  <2>3. g[m] = (IF g[m - 1] > End(m) THEN g[m - 1] ELSE End(m)) /\ g[m - 1] \in Nat
    BY <1>3, <2>2
  <2>4. End(k) \in Nat /\ End(m) \in Nat
    BY <1>2, <1>4
  <2>5. End(k) <= g[m]
    BY <2>1, <2>2, <2>3, <2>4
  <2> QED
    BY <2>2, <2>5
<1>7. Nat \subseteq T
  <2> HIDE DEF T
  <2> QED
    BY <1>5, <1>6, SetInduction
<1>8. End(k) <= g[n]
  <2>1. PICK d \in Nat : k + d = n
    <3>1. n - k \in Nat /\ k + (n - k) = n
      BY <1>4
    <3> QED
      BY <3>1
  <2>2. d \in T
    BY <1>7
  <2>3. k + d <= n
    BY <2>1
  <2>4. End(k) <= g[k + d]
    BY <2>2, <2>3
  <2> QED
    BY <2>1, <2>4
<1>9. End(k) < 1 + g[n] /\ g[n] \in Nat
  <2>1. g[n] \in Nat /\ End(k) \in Nat
    BY <1>2, <1>3, <1>4
  <2> QED
    BY <1>8, <2>1
<1> QED
  BY <1>2, <1>3, <1>4, <1>9 DEF End

LEMMA NeededFits ==
    ASSUME NEW s \in Subservice, Rows[s].in \in Seq(AnyIn)
    PROVE  /\ Needed(s) \in Nat /\ Needed(s) <= Top /\ Top \in Nat
           /\ \A n \in RequestLengths(s) : n \in Nat /\ n <= Needed(s) + 1
<1>1. Needed(s) \in Nat /\ Needed(s) >= 1
  <2>1. PICK n \in Nat : n = Len(Rows[s].in)
    OBVIOUS
  <2>2. PICK g \in [0..n -> Nat] : Needed(s) = 1 + g[n]
    BY <2>1, NeededIsFurthest
  <2> QED
    BY <2>2
<1>2. Needed(s) <= Top /\ Top \in Nat
  BY TopAssumption
<1>3. ASSUME NEW n \in RequestLengths(s) PROVE n \in Nat /\ n <= Needed(s) + 1
  <2>1. CASE ~HasText(s)
    BY <1>1, <1>3, <2>1 DEF RequestLengths
  <2>2. CASE HasText(s)
    <3>1. 1 \in DOMAIN Rows[s].in
      BY <2>2 DEF HasText
    <3>2. Rows[s].in[1].at \in Nat
      BY <3>1, InputWithin
    <3> QED
      BY <1>1, <1>3, <2>2, <3>2, SMTT(60) DEF RequestLengths
  <2> QED
    BY <2>1, <2>2
<1> QED
  BY <1>1, <1>2, <1>3

\* A reply repeats only what the request held.
LEMMA ArgumentFromRequest ==
    ASSUME Answering, Announced, Asked, pc = "answer", whole, NEW k \in DOMAIN row.out,
           row.out[k].from = "argument"
    PROVE  \A j \in 1..row.out[k].n : args[1][j][1] # "left"
<1> DEFINE f == row.in[1]
<1>1. /\ subservice \in Subservice /\ row \in Row /\ ArgumentGiven(row.in, row.out)
      /\ Rows[subservice] = row
  BY RowFits DEF Answering, RequestKnown, Fits, RowOK, row
<1>2. row.in \in Seq(AnyIn) /\ row.out[k] \in AnyOut
  <2>1. row.in \in Seq(AnyIn) /\ row.out \in Seq(AnyOut)
    BY <1>1 DEF Row
  <2> QED
    BY <2>1
<1>3. /\ row.in # <<>> /\ f.as = "bytes" /\ row.out[k].n <= f.n
      /\ \A i \in DOMAIN row.in : row.in[i].as \notin {"text", "padded"}
  BY <1>1 DEF ArgumentGiven
<1>4. 1 \in DOMAIN row.in
  BY <1>2, <1>3
<1>5. /\ f.at \in Nat /\ f.n \in Nat /\ f.at + f.n < Needed(subservice)
      /\ row.out[k].n \in Nat
  BY <1>1, <1>2, <1>4, InputWithin DEF AnyOut
<1>6. PICK ends \in BOOLEAN : Holds(ends)
  <2>1. \E ends \in BOOLEAN : Holds(ends)
    BY ONLY Asked, pc = "answer", ZenonT(60) DEF Asked
  <2> QED
    BY ONLY <2>1
<1>7. ends = FALSE /\ length >= Needed(subservice)
  BY <1>1, <1>3, <1>6 DEF HasText, Holds
<1>8. /\ Needed(subservice) \in Nat /\ Needed(subservice) <= Top /\ Top \in Nat
      /\ length \in Nat
  BY <1>1, <1>2, NeededFits, SMTT(60) DEF Announced
<1>9. args[1] = Bytes(packet, 1 + f.at, f.n)
  BY <1>3, <1>4 DEF Asked, Inputs, Input
<1> SUFFICES ASSUME NEW j \in 1..row.out[k].n PROVE args[1][j][1] # "left"
  OBVIOUS
<1> HIDE DEF f
<1>10. PICK i \in Place : i = 1 + f.at + j - 1 /\ ~(i >= length) /\ j \in 1..f.n
  BY <1>3, <1>5, <1>7, <1>8, SMTT(60) DEF Place
<1>11. args[1][j] = packet[i]
  BY <1>9, <1>10 DEF Bytes
<1>12. packet[i] = <<"request", i>>
  BY <1>6, <1>7, <1>10 DEF Request, Holds
<1> QED
  BY <1>11, <1>12


\* The answer of a whole request holds nothing older than it.
LEMMA AnswerIsNew ==
    ASSUME Answering, Announced, Asked, Answer, whole, subservice # "ADCS_GET_LOG_CONFIG",
           ~(row.ifok /\ status # 0)
    PROVE  \A i \in 1..(length' - 1) : packet'[i][1] # "left"
<1> DEFINE p == [packet EXCEPT ![1] = <<"status", status>>]
<1>1. /\ subservice \in Subservice /\ row \in Row /\ Sized(row) /\ Tiled(row.out)
      /\ Rows[subservice] = row /\ Top >= 2
  BY RowFits DEF Answering, RequestKnown, Fits, RowOK, row, Answer
<1>2. row.in \in Seq(AnyIn) /\ row.out \in Seq(AnyOut) /\ row.len \in Nat
  BY <1>1 DEF Row
<1>3. Top \in Nat /\ 1 \in Place /\ DOMAIN packet = Place /\ refused \in BOOLEAN
  BY <1>1, TopAssumption DEF Place, Answering, RequestKnown
<1>4. p[1][1] # "left" /\ DOMAIN p = Place
  BY <1>3
<1>5. CASE refused
  <2>1. length' = 2 /\ packet' = p
    BY <1>5 DEF Answer, WithOutputs
  <2> HIDE DEF p
  <2>2. \A i \in 1..(length' - 1) : i = 1
    BY <2>1
  <2> QED
    BY <1>4, <2>1, <2>2
<1>6. CASE ~refused /\ row.len = 0
  <2>1. packet' = packet /\ length' = length
    BY <1>6 DEF Answer
  <2>2. PICK ends \in BOOLEAN : packet = Request(length, ends)
    BY DEF Asked, Holds, Answer
  <2>3. length \in Nat /\ length <= Top + 1
    <3>1. length \in RequestLengths(subservice)
      BY DEF Announced, Answer
    <3>2. /\ Needed(subservice) \in Nat /\ Needed(subservice) <= Top
          /\ length \in Nat /\ length <= Needed(subservice) + 1
      BY <1>1, <1>2, <3>1, NeededFits
    <3> QED
      BY <1>3, <3>2
  <2> SUFFICES ASSUME NEW i \in 1..(length - 1) PROVE packet[i][1] # "left"
    BY <2>1
  <2>4. i \in Place /\ ~(i >= length)
    BY <1>3, <2>3 DEF Place
  <2>5. packet[i] \in {Zero, <<"request", i>>}
    BY <2>2, <2>4 DEF Request
  <2> QED
    BY <2>5 DEF Zero
<1>7. CASE ~refused /\ row.len # 0
  <2>1. length' = row.len /\ packet' = WithOutputs(p)
    BY <1>7 DEF Answer
  <2> HIDE DEF p
  <2>2. packet'[1][1] # "left"
    BY <1>1, <1>3, <1>4, <2>1, OutputsAfterStatus
  <2>3. PICK f : Parts(row.out, f) /\ OutSize(row.out) = f[Len(row.out)]
    BY <1>1, <1>2, OutParts
  <2>4. row.len <= 2 + OutSize(row.out) /\ 2 + OutSize(row.out) <= Top
    BY <1>1, <1>7, TopAssumption DEF Sized
  <2>5. ASSUME NEW i \in 1..(row.len - 1), i # 1 PROVE packet'[i][1] # "left"
    <3>1. OutSize(row.out) \in Nat
      BY <1>2, OutSizes
    <3>2. PICK x \in 1..f[Len(row.out)] : x = i - 1 /\ i \in Place
      BY <1>2, <1>3, <2>3, <2>4, <2>5, <3>1, SMTT(60) DEF Place
    <3>3. PICK k \in 1..Len(row.out) : x - row.out[k].at \in 1..row.out[k].n
      BY <2>3, PartsCover
    <3>4. k \in DOMAIN row.out /\ row.out[k] \in AnyOut
      BY <1>2
    <3>5. packet'[i] = Output(little, k)[i - 1 - row.out[k].at]
      <4>1. refused = FALSE /\ i \in Place /\ i - 1 - row.out[k].at \in 1..row.out[k].n
        BY <1>3, <1>7, <3>2, <3>3
      <4>2. WithOutputs(p)[i] = Output(little, k)[i - 1 - row.out[k].at]
        <5>1. WritesOutputs
          BY <1>1, <4>1 DEF WritesOutputs
        <5>2. Of(i, k)
          BY <4>1 DEF Of
        <5> QED
          BY ONLY <3>4, <4>1, <5>1, <5>2, WrittenAt, ZenonT(60)
      <4> QED
        BY <2>1, <4>2
    <3>6. row.out[k].as = "narrow" => row.out[k].n <= 4
      BY <1>1, <3>4 DEF Sized
    <3>7. row.out[k].from = "argument" =>
             \A j \in 1..row.out[k].n : args[1][j][1] # "left"
      BY <3>4, ArgumentFromRequest DEF Answer
    <3>8. NoneLeft(Output(little, k), row.out[k].n)
      BY <3>4, <3>6, <3>7, OutputNoneLeft DEF Asked
    <3> QED
      BY <3>2, <3>3, <3>5, <3>8 DEF NoneLeft
  <2> QED
    BY <2>1, <2>2, <2>5
<1> QED
  BY <1>3, <1>5, <1>6, <1>7

\* What is written about a reply stays as it is until the reply is sent.
LEMMA DoneByAnswer ==
    ASSUME [Next]_vars, pc' = "done"
    PROVE  \/ Answer /\ UNCHANGED <<subservice, whole, row, status, refused>>
           \/ UNCHANGED vars
<1>1. \/ Answer \/ UNCHANGED vars
  BY DEF Next, Receive, Read, Call, Finish
<1>2. Answer => UNCHANGED <<subservice, whole, row, status, refused>>
  BY DEF Answer, row, status, Sum
<1> QED
  BY <1>1, <1>2

\* Every byte of a reply that is sent comes from its request or from its handler, never
\* from an earlier packet in the buffer, whatever the sizes of structures and texts, if
\* the request was whole: the outputs lie one after the other up to the announced length,
\* but for the log configuration and the values that a failed driver leaves out.
THEOREM RepliesAreNew == Spec => []NothingLeftOver
<1>1. Init => NothingLeftOver
  BY DEF Init, NothingLeftOver, Sent
<1>2. Answering /\ Announced /\ Asked /\ NothingLeftOver /\ [Next]_vars => NothingLeftOver'
  <2> SUFFICES ASSUME Answering, Announced, Asked, NothingLeftOver, [Next]_vars, Sent',
                      whole', subservice' # "ADCS_GET_LOG_CONFIG",
                      ~(row'.ifok /\ status' # 0)
               PROVE  \A b \in ReplyBytes' : b[1] # "left"
    BY DEF NothingLeftOver
  <2>1. CASE Answer /\ UNCHANGED <<subservice, whole, row, status, refused>>
    <3>1. \A i \in 1..(length' - 1) : packet'[i][1] # "left"
      BY <2>1, AnswerIsNew
    <3> QED
      BY <3>1 DEF ReplyBytes
  <2>2. CASE UNCHANGED vars
    BY <2>2 DEF vars, NothingLeftOver, Sent, row, status, Sum, ReplyBytes
  <2> QED
    BY <2>1, <2>2, DoneByAnswer DEF Sent
<1> QED
  BY <1>1, <1>2, AnsweringInit, AnsweringStep, AnnouncedInit, AnnouncedStep, AskedInit,
     AskedStep, PTL DEF Spec

-----------------------------------------------------------------------------
(***************************************************************************)
(* What the driver reported arrives.                                       *)
(***************************************************************************)
Reported == told \in DeviceLengths

LEMMA ReportedInit == Init => Reported
<1>1. DeviceLengths \in SUBSET Nat /\ DeviceLengths # {}
  BY LengthAssumption
<1>2. Min(DeviceLengths) \in DeviceLengths
  BY <1>1, MinIs
<1> QED
  BY <1>2 DEF Init, Reported

LEMMA ReportedStep == Reported /\ [Next]_vars => Reported'
<1> SUFFICES ASSUME Reported, [Next]_vars PROVE Reported'
  OBVIOUS
<1> USE DEF Reported
<1>1. CASE UNCHANGED told
  BY <1>1
<1>2. CASE Call
  BY <1>2 DEF Call
<1>3. CASE Finish
  <2>1. DeviceLengths \in SUBSET Nat /\ DeviceLengths # {}
    BY LengthAssumption
  <2>2. Min(DeviceLengths) \in DeviceLengths
    BY <2>1, MinIs
  <2> QED
    BY <1>3, <2>2 DEF Finish
<1> QED
  BY <1>1, <1>2, <1>3 DEF Next, Receive, Read, Answer, vars

LEMMA AnswerKeeps ==
    ASSUME Answering, Asked, Reported, Answer, row.len # 0, status = 0,
           subservice # "ADCS_GET_LOG_CONFIG",
           ~(little /\ subservice \in NarrowValues),
           NEW k \in DOMAIN row.out, FromDriver(row.out[k]), NEW j \in 1..row.out[k].n,
           ~(row.out[k].as = "text" /\ j > Looped),
           ~(little /\ subservice \in NarrowMembers /\ j \in Narrow)
    PROVE  \E i \in 1..(length' - 1) : packet'[i] = <<"value", k, j>>
<1> DEFINE p == [packet EXCEPT ![1] = <<"status", status>>]
           o == row.out[k]
<1>1. /\ subservice \in Subservice /\ row \in Row /\ Sized(row) /\ Tiled(row.out)
      /\ Top \in Nat /\ 2 + OutSize(row.out) <= Top
      /\ subservice \in NarrowValues \/ o.as # "narrow"
      /\ subservice \in NarrowMembers \/ o.as # "hton32"
  BY RowFits, TopAssumption DEF Answering, RequestKnown, Fits, RowOK, row, Answer
<1>2. row.out \in Seq(AnyOut) /\ DOMAIN row.out = 1..Len(row.out) /\ o \in AnyOut
  <2>1. row.out \in Seq(AnyOut)
    BY <1>1 DEF Row
  <2> QED
    BY <2>1
<1>3. refused = FALSE /\ ~(row.ifok /\ status # 0)
  <2>1. refused \in BOOLEAN /\ (refused = TRUE => status = -1)
    BY DEF Answering, RequestKnown, status
  <2> QED
    BY <2>1
<1>4. AllSucceeded
  BY <1>1, <1>3, StatusIsZero DEF Answering, ResultsKnown, Answer, AllSucceeded
<1>5. Source(k, o)[j] = <<"value", k, j>>
  BY <1>4 DEF Source, FromDriver
<1>6. /\ o.as = "narrow" => ~little /\ o.n <= 4
      /\ o.as = "text" => j <= Looped
      /\ o.as = "hton32" => ~(little /\ j \in Narrow)
  <2>1. o.as = "narrow" => o.n <= 4
    BY <1>1 DEF Sized
  <2>2. Looped \in Nat /\ o.n \in Nat
    BY <1>2, LengthAssumption DEF Looped, Reported, AnyOut
  <2> QED
    BY <1>1, <2>1, <2>2
<1>7. PICK i \in 1..o.n : Output(little, k)[i] = <<"value", k, j>>
  <2>1. little \in BOOLEAN
    BY DEF Asked
  <2>2. PICK i \in 1..row.out[k].n : Output(little, k)[i] = Source(k, row.out[k])[j]
    BY ONLY <1>2, <1>6, <2>1, j \in 1..row.out[k].n, OutputKeeps
  <2> QED
    BY <1>5, <2>2
<1>8. PICK f : Parts(row.out, f) /\ OutSize(row.out) = f[Len(row.out)]
  BY <1>1, <1>2, OutParts
<1>9. /\ o.at \in Nat /\ o.n \in Nat /\ o.at + o.n <= OutSize(row.out)
      /\ OutSize(row.out) \in Nat
  BY <1>2, <1>8, PartsWithin
<1>10. length' = row.len /\ packet' = WithOutputs(p) /\ row.len = 2 + OutSize(row.out)
  BY <1>1, <1>3 DEF Answer, Sized
<1> HIDE DEF p
<1>11. PICK x \in 1..(length' - 1) :
          x \in Place /\ x - 1 - o.at \in 1..o.n /\ x - 1 - o.at = i
  <2>1. PICK a \in Nat, n \in Nat, m \in Nat :
           a = o.at /\ n = o.n /\ m = OutSize(row.out) /\ a + n <= m /\ 2 + m <= Top
    BY <1>1, <1>9
  <2>2. length' = 2 + m /\ i \in 1..n
    BY <1>10, <2>1
  <2>3. PICK x \in 1..(1 + m) : x = i + 1 + a
    BY <2>1, <2>2
  <2>4. x \in 1..(length' - 1) /\ x \in Place /\ x - 1 - a = i
    BY <1>1, <2>1, <2>2, <2>3 DEF Place
  <2> QED
    BY <2>1, <2>2, <2>4
<1>12. WithOutputs(p)[x] = Output(little, k)[x - 1 - o.at]
  <2>1. WritesOutputs
    BY <1>1, <1>3 DEF WritesOutputs
  <2>2. Of(x, k)
    BY <1>11 DEF Of
  <2> QED
    BY ONLY <1>11, <2>1, <2>2, k \in DOMAIN row.out, WrittenAt, ZenonT(60)
<1> QED
  BY <1>7, <1>10, <1>11, <1>12

\* What the driver reported is in every reply that says success, each byte of it inside
\* the announced length, whatever the sizes of structures and texts: outputs do not
\* overlap, the announced length covers them all, and the conversions move bytes without
\* losing one, but for the log configuration and, on a little-endian host, the values and
\* the members cut by csp_hton32.
THEOREM ReportsArrive == Spec => []ValuesArrive
<1>1. Init => ValuesArrive
  BY DEF Init, ValuesArrive, Sent
<1>2. Answering /\ Asked /\ Reported /\ ValuesArrive /\ [Next]_vars => ValuesArrive'
  <2> SUFFICES ASSUME Answering, Asked, Reported, ValuesArrive, [Next]_vars, Sent',
                      row'.len # 0, status' = 0, subservice' # "ADCS_GET_LOG_CONFIG",
                      ~(little' /\ subservice' \in NarrowValues),
                      NEW k \in DOMAIN row'.out, row'.out[k].from \in {"driver", "preset"},
                      NEW j \in 1..row'.out[k].n
               PROVE  \/ <<"value", k, j>> \in ReplyBytes'
                      \/ row'.out[k].as = "text" /\ j > Looped'
                      \/ little' /\ subservice' \in NarrowMembers /\ j \in Narrow
    BY DEF ValuesArrive
  <2>1. CASE Answer /\ UNCHANGED <<subservice, whole, row, status, refused>>
    <3>1. little' = little /\ Looped' = Looped
      BY <2>1 DEF Answer, Looped
    <3>2. SUFFICES ASSUME ~(row.out[k].as = "text" /\ j > Looped),
                          ~(little /\ subservice \in NarrowMembers /\ j \in Narrow)
                   PROVE  <<"value", k, j>> \in ReplyBytes'
      BY <2>1, <3>1
    <3>3. \E i \in 1..(length' - 1) : packet'[i] = <<"value", k, j>>
      BY <2>1, <3>1, <3>2, AnswerKeeps DEF FromDriver
    <3> QED
      BY <3>3 DEF ReplyBytes
  <2>2. CASE UNCHANGED vars
    <3>1. /\ UNCHANGED <<row, status, subservice, little>>
          /\ Sent /\ ReplyBytes' = ReplyBytes /\ Looped' = Looped
      BY <2>2 DEF vars, row, status, Sum, Sent, ReplyBytes, Looped
    <3>2. ValuesArrive
      OBVIOUS
    <3> QED
      BY ONLY <3>1, <3>2, row'.len # 0, status' = 0, subservice' # "ADCS_GET_LOG_CONFIG",
              ~(little' /\ subservice' \in NarrowValues), k \in DOMAIN row'.out,
              row'.out[k].from \in {"driver", "preset"}, j \in 1..row'.out[k].n,
              ZenonT(60) DEF ValuesArrive
  <2> QED
    BY <2>1, <2>2, DoneByAnswer DEF Sent
<1> QED
  BY <1>1, <1>2, AnsweringInit, AnsweringStep, AskedInit, AskedStep, ReportedInit,
     ReportedStep, PTL DEF Spec

-----------------------------------------------------------------------------
(***************************************************************************)
(* What the drivers are called with.                                       *)
(***************************************************************************)

\* A change of the order of n bytes that undoes itself.
Turns(n) == {m \in [1..n -> 1..n] : \A j \in 1..n : m[m[j]] = j}

LEMMA SomeTurns ==
    ASSUME NEW n \in Nat
    PROVE  [j \in 1..n |-> j] \in Turns(n) /\ [j \in 1..n |-> n - j + 1] \in Turns(n)
<1>1. [j \in 1..n |-> j] \in Turns(n)
  BY DEF Turns
<1>2. PICK m : m = [j \in 1..n |-> n - j + 1]
  OBVIOUS
<1>3. \A j \in 1..n : n - j + 1 \in 1..n /\ n - (n - j + 1) + 1 = j
  OBVIOUS
<1>4. m \in [1..n -> 1..n] /\ \A j \in 1..n : m[j] = n - j + 1
  BY <1>2, <1>3
<1>5. \A j \in 1..n : m[m[j]] = j
  BY <1>3, <1>4
<1> QED
  BY <1>1, <1>2, <1>4, <1>5 DEF Turns

\* An input that is a number or bytes, and of which nothing is cut.
Movable(h, f) ==
    /\ f.as \in {"bytes", "net", "net16", "host", "cnv", "cnv16", "narrow", "raw"}
    /\ f.as = "narrow" => ~h /\ f.n <= 4

\* b are the bytes of f in the packet p, each at a place of its own.
Moved(b, p, f) ==
    /\ Len(b) = f.n
    /\ \E m \in Turns(f.n) : \A j \in 1..f.n : b[j] = p[f.at + m[j]]

\* A conversion of an input leaves its bytes in the order of the packet, turns them round,
\* or turns the members of a structure round, but for csp_ntoh32 of a narrow value on a
\* little-endian host.
LEMMA InputMoves ==
    ASSUME NEW p, NEW h \in BOOLEAN, NEW f \in AnyIn, Movable(h, f)
    PROVE  Moved(Input(h, p, f), p, f)
<1> USE DEF Movable, Moved
<1> DEFINE s == Bytes(p, 1 + f.at, f.n)
<1>1. f.n \in Nat /\ f.at \in Nat /\ IsBytes(s, f.n)
  BY DEF Bytes, IsBytes, AnyIn
<1>2. \A j \in 1..f.n : s[j] = p[f.at + j]
  <2>1. PICK a \in Nat, n \in Nat : a = f.at /\ n = f.n
    BY <1>1
  <2>2. \A j \in 1..n : (1 + a) + j - 1 = a + j
    BY <2>1
  <2>3. \A j \in 1..n : s[j] = p[(1 + a) + j - 1]
    BY <2>1 DEF Bytes
  <2> QED
    BY <2>1, <2>2, <2>3
<1>3. ASSUME f.as # "raw" PROVE Input(h, p, f) \in {s, Reverse(s)}
  <2>1. Reverse(Reverse(s)) = s /\ Reverse(Reverse(Reverse(s))) = Reverse(s)
    <3> HIDE DEF s
    <3> QED
      BY <1>1, ReversedTwice
  <2>2. CASE f.as = "narrow"
    <3>1. Input(h, p, f) = Narrowed(h, s, Zero) /\ f.n \in 0..4 /\ ~h
      BY <1>1, <2>2 DEF Input
    <3> HIDE DEF s
    <3>2. Narrowed(h, s, Zero) = s
      <4>1. /\ IsBytes(Narrowed(h, s, Zero), f.n)
            /\ \A i \in 1..f.n : Narrowed(h, s, Zero)[i] = s[i]
        BY <1>1, <3>1, NarrowedBytes
      <4> QED
        BY <1>1, <4>1 DEF IsBytes
    <3> QED
      BY <3>1, <3>2
  <2>3. CASE f.as # "narrow"
    BY <1>3, <2>1, <2>3 DEF Input, csp_ntoh, cnv8_32, cnv8_16, InHostOrder
  <2> QED
    BY <2>2, <2>3
<1> HIDE DEF s
<1>4. Len(s) = f.n /\ Len(Reverse(s)) = f.n /\ \A j \in 1..f.n : Reverse(s)[j] = s[f.n - j + 1]
  <2>1. IsBytes(Reverse(s), f.n)
    BY <1>1, Reversed
  <2> QED
    BY <1>1, <2>1, Reversed
<1>5. \A j \in 1..f.n : f.n - j + 1 \in 1..f.n
  BY <1>1
<1>6. \A j \in 1..f.n : Reverse(s)[j] = p[f.at + (f.n - j + 1)]
  BY <1>2, <1>4, <1>5
<1> DEFINE same == [j \in 1..f.n |-> j]
           back == [j \in 1..f.n |-> f.n - j + 1]
<1>7. /\ same \in Turns(f.n) /\ \A j \in 1..f.n : same[j] = j
      /\ back \in Turns(f.n) /\ \A j \in 1..f.n : back[j] = f.n - j + 1
  BY <1>1, SomeTurns
<1> HIDE DEF same, back
<1>8. CASE f.as # "raw"
  <2>1. CASE Input(h, p, f) = s
    <3>1. \A j \in 1..f.n : s[j] = p[f.at + same[j]]
      BY <1>2, <1>7
    <3> QED
      BY <1>4, <1>7, <2>1, <3>1, Zenon
  <2>2. CASE Input(h, p, f) = Reverse(s)
    <3>1. \A j \in 1..f.n : Reverse(s)[j] = p[f.at + back[j]]
      BY <1>6, <1>7
    <3> QED
      BY ONLY <1>4, <1>7, <2>2, <3>1, SMTT(60)
  <2> QED
    BY <1>3, <1>8, <2>1, <2>2
<1>9. CASE f.as = "raw"
  <2>1. f.n = StructSize /\ Input(h, p, f) = MembersInHostOrder(h, Mirror, s)
    BY <1>9 DEF AnyIn, Input, s
  <2>2. PICK q : q = Input(h, p, f)
    OBVIOUS
  <2>3. /\ IsBytes(q, f.n)
        /\ \A j \in 1..f.n : /\ Mirror[j] \in 1..f.n
                             /\ q[j] = IF h THEN s[Mirror[j]] ELSE s[j]
    BY <1>1, <2>1, <2>2, StructBytes
  <2>4. Len(q) = f.n
    BY <1>1, <2>3, Reversed
  <2>5. Mirror \in Turns(f.n)
    BY <2>1, LayoutAssumption DEF Turns
  <2>6. CASE h
    BY <1>2, <2>2, <2>3, <2>4, <2>5, <2>6
  <2>7. CASE ~h
    <3>1. \A j \in 1..f.n : q[j] = p[f.at + same[j]]
      BY <1>2, <1>7, <2>3, <2>7
    <3> QED
      BY <1>7, <2>2, <2>4, <3>1, Zenon
  <2> QED
    BY <2>6, <2>7
<1> QED
  BY <1>8, <1>9

\* The bytes of the arguments a, and that each is a byte of the request of its own.
Places(a) == {p \in (1..Len(a)) \X (1..Top) : p[2] <= Len(a[p[1]])}

Own(a) ==
    /\ \A p \in Places(a) : a[p[1]][p[2]][1] = "request"
    /\ \A p, q \in Places(a) : a[p[1]][p[2]] = a[q[1]][q[2]] => p = q

LEMMA PlaceInside ==
    \A b, n, y, m \in Int :
       0 <= b /\ 1 <= y /\ y <= n /\ b + n <= m =>
          1 <= b + y /\ b + y <= m /\ (b + y) - b = y
OBVIOUS

\* The bytes of a, one of them for each place before the end of the parts.
LEMMA PlacesCounted ==
    ASSUME NEW q, NEW f, Parts(q, f), Top \in Nat, f[Len(q)] <= Top,
           NEW a, Len(a) = Len(q),
           \A k \in 1..Len(q) :
              /\ Len(a[k]) = q[k].n
              /\ \E m \in Turns(q[k].n) :
                    \A j \in 1..q[k].n : a[k][j] = <<"request", q[k].at + m[j]>>
    PROVE  Own(a) /\ Cardinality(Places(a)) = f[Len(q)]
<1> DEFINE places == {p \in (1..Len(a)) \X (1..Top) : p[2] <= Len(a[p[1]])}
           At(p) == a[p[1]][p[2]]
           N == f[Len(q)]
<1>1. \A k \in 1..Len(q) : /\ q[k].at \in Nat /\ q[k].n \in Nat /\ q[k].at + q[k].n <= N
                           /\ N \in Nat
  BY PartsWithin
<1>2. ASSUME NEW p \in places
      PROVE  /\ p[1] \in 1..Len(q) /\ p[2] \in 1..q[p[1]].n
             /\ \E x \in 1..N : /\ At(p) = <<"request", x>>
                                /\ x - q[p[1]].at \in 1..q[p[1]].n
  <2>1. PICK k \in 1..Len(q) : k = p[1]
    OBVIOUS
  <2>2. PICK j \in 1..q[k].n : j = p[2]
    BY <1>1, <2>1
  <2>3. PICK b \in Nat, n \in Nat : b = q[k].at /\ n = q[k].n /\ b + n <= N /\ N \in Nat
    BY <1>1
  <2>4. \E y \in 1..n : a[k][j] = <<"request", b + y>>
    <3>1. PICK m \in Turns(n) : \A i \in 1..n : a[k][i] = <<"request", b + m[i]>>
      BY <2>3
    <3>2. j \in 1..n /\ m[j] \in 1..n
      BY <2>2, <2>3 DEF Turns
    <3> QED
      BY <3>1, <3>2
  <2>5. PICK y \in 1..n : a[k][j] = <<"request", b + y>>
    BY <2>4
  <2> HIDE DEF N
  <2>6. PICK x : x = b + y
    OBVIOUS
  <2>7. x \in 1..N /\ x - b \in 1..n
    <3>1. /\ b \in Int /\ n \in Int /\ y \in Int /\ N \in Int
          /\ 0 <= b /\ 1 <= y /\ y <= n /\ b + n <= N
      BY ONLY <2>3, <2>5, SMTT(60)
    <3>2. 1 <= b + y /\ b + y <= N /\ (b + y) - b = y
      BY ONLY <3>1, PlaceInside, SMTT(60)
    <3> QED
      BY ONLY <2>6, <3>1, <3>2, SMTT(60)
  <2> QED
    BY <2>1, <2>2, <2>3, <2>5, <2>6, <2>7
<1>3. ASSUME NEW p \in places, NEW r \in places, At(p) = At(r) PROVE p = r
  <2>1. PICK x \in 1..N : At(p) = <<"request", x>> /\ x - q[p[1]].at \in 1..q[p[1]].n
    BY <1>2
  <2>2. PICK y \in 1..N : At(r) = <<"request", y>> /\ y - q[r[1]].at \in 1..q[r[1]].n
    BY <1>2
  <2>3. x = y /\ x \in Int /\ p[1] \in 1..Len(q) /\ r[1] \in 1..Len(q)
    <3>1. <<"request", x>> = <<"request", y>>
      BY <1>3, <2>1, <2>2
    <3>2. p[1] \in 1..Len(q) /\ r[1] \in 1..Len(q)
      BY <1>2
    <3> HIDE DEF N
    <3>3. x \in Int
      BY <1>1, <3>2
    <3> QED
      BY <3>1, <3>2, <3>3
  <2>4. p[1] = r[1]
    BY <2>1, <2>2, <2>3, PartsApart
  <2>5. PICK k \in 1..Len(q) : k = p[1]
    BY <2>3
  <2>6. PICK b \in Nat, n \in Nat : b = q[k].at /\ n = q[k].n
    BY <1>1
  <2>7. PICK i \in 1..n, j \in 1..n : i = p[2] /\ j = r[2]
    BY <1>2, <2>4, <2>5, <2>6
  <2>8. a[k][i] = a[k][j]
    BY <1>3, <2>4, <2>5, <2>7
  <2>9. PICK m \in Turns(n) : \A t \in 1..n : a[k][t] = <<"request", b + m[t]>>
    BY <2>6
  <2>10. b + m[i] = b + m[j] /\ m[i] \in Nat /\ m[j] \in Nat
    <3>1. a[k][i] = <<"request", b + m[i]>> /\ a[k][j] = <<"request", b + m[j]>>
      BY <2>7, <2>9
    <3>2. m[i] \in 1..n /\ m[j] \in 1..n
      BY <2>7, <2>9 DEF Turns
    <3>3. PICK c \in 1..n, d \in 1..n : c = m[i] /\ d = m[j]
      BY <3>2
    <3>4. <<"request", b + c>> = <<"request", b + d>>
      BY <2>8, <3>1, <3>3, Zenon
    <3>5. b + c = b + d /\ c \in Nat /\ d \in Nat
      BY ONLY <2>6, <3>4, SMT
    <3> QED
      BY <3>3, <3>5, Zenon
  <2>11. i = j
    <3>1. m[i] = m[j]
      BY ONLY <2>6, <2>10
    <3>2. m[m[i]] = i /\ m[m[j]] = j
      BY <2>7, <2>9 DEF Turns
    <3> QED
      BY ONLY <3>1, <3>2
  <2> QED
    <3>1. p = <<p[1], p[2]>> /\ r = <<r[1], r[2]>>
      OBVIOUS
    <3>2. p[1] = r[1] /\ p[2] = r[2]
      BY <2>4, <2>7, <2>11
    <3> QED
      BY ONLY <3>1, <3>2
<1>4. ASSUME NEW x \in 1..N PROVE \E p \in places : At(p) = <<"request", x>>
  <2>1. PICK k \in 1..Len(q) : x - q[k].at \in 1..q[k].n
    BY PartsCover
  <2>2. PICK b \in Nat, n \in Nat : b = q[k].at /\ n = q[k].n /\ b + n <= N /\ N \in Nat
    BY <1>1
  <2>3. PICK i \in 1..n : i = x - b
    BY <2>1, <2>2
  <2>4. PICK m \in Turns(n) : \A j \in 1..n : a[k][j] = <<"request", b + m[j]>>
    BY <2>2
  <2> HIDE DEF N
  <2>5. m[i] \in 1..n /\ m[m[i]] = i /\ b + i = x
    BY <2>2, <2>3 DEF Turns
  <2>6. a[k][m[i]] = <<"request", x>>
    BY <2>4, <2>5
  <2>7. \A j \in 1..n : j \in 1..Top /\ j <= Len(a[k])
    BY <2>2, SMTT(60) DEF N
  <2>8. <<k, m[i]>> \in places
    BY <2>5, <2>7
  <2> QED
    BY <2>6, <2>8
<1>5. Cardinality(places) = N
  <2> DEFINE g == [p \in places |-> At(p)[2]]
  <2>1. \A p \in places : At(p) = <<"request", g[p]>> /\ g[p] \in 1..N
    BY <1>2
  <2>2. g \in [places -> 1..N] /\ DOMAIN g = places
    BY <2>1
  <2> HIDE DEF g, places, At, N
  <2>3. \A p, r \in places : g[p] = g[r] => p = r
    BY <1>3, <2>1
  <2>4. \A x \in 1..N : \E p \in places : g[p] = x
    BY <1>4, <2>1
  <2>5. g \in Bijection(places, 1..N)
    BY <2>2, <2>3, <2>4 DEF Bijection, Injection, Surjection, IsInjective
  <2>6. ExistsBijection(1..N, places)
    BY <2>5, Fun_ExistsBijSymmetric DEF ExistsBijection
  <2>7. N \in Nat
    BY DEF Parts, N
  <2> QED
    BY <2>6, <2>7, FS_CountingElements
<1>6. Places(a) = places
  BY DEF Places
<1> QED
  BY <1>2, <1>3, <1>5, <1>6 DEF Own

\* A text is what comes before the first zero.
LEMMA TextIsPrefix ==
    ASSUME NEW n \in Nat, NEW s, IsBytes(s, n)
    PROVE  /\ Len(Text(s)) \in 0..n
           /\ \A j \in 1..Len(Text(s)) : Text(s)[j] = s[j]
           /\ \A i \in 1..n : s[i] = Zero => Len(Text(s)) < i
<1> DEFINE S == {i - 1 : i \in {j \in DOMAIN s : s[j] = Zero}} \cup {Len(s)}
           T == {s[i] : i \in 1..n}
           m == TextLength(s)
<1>1. Len(s) = n /\ DOMAIN s = 1..n /\ s \in Seq(T)
  <2>1. PICK q : q = [i \in 1..n |-> s[i]]
    OBVIOUS
  <2>2. Len(q) = n /\ DOMAIN q = 1..n /\ q \in Seq(T) /\ q = s
    BY <2>1 DEF IsBytes
  <2> QED
    BY <2>2
<1>2. S \in SUBSET Nat /\ n \in S
  BY <1>1
<1>3. m \in S /\ \A y \in S : m <= y
  <2>1. m = Min(S)
    BY DEF TextLength
  <2> HIDE DEF S, m
  <2> QED
    BY <1>2, <2>1, MinIs
<1>4. m \in 0..n
  BY <1>1, <1>3
<1>5. \A i \in 1..n : s[i] = Zero => m < i
  <2> SUFFICES ASSUME NEW i \in 1..n, s[i] = Zero PROVE m < i
    OBVIOUS
  <2>1. i - 1 \in S
    BY <1>1
  <2> HIDE DEF S, m
  <2>2. m <= i - 1
    BY <1>3, <2>1
  <2> QED
    BY <1>4, <2>2
<1> HIDE DEF m, S, T
<1>6. Text(s) = SubSeq(s, 1, m)
  BY DEF Text, m
<1>7. \A i \in 1..m : s[i] \in T
  BY <1>4 DEF T
<1>8. Len(Text(s)) = m
  <2>1. Len(SubSeq(s, 1, m)) = IF 1 <= m THEN m - 1 + 1 ELSE 0
    BY <1>4, <1>7, SubSeqProperties
  <2> QED
    BY <1>4, <1>6, <2>1
<1>9. \A j \in 1..m : Text(s)[j] = s[j]
  <2>1. \A j \in 1..(m - 1 + 1) : SubSeq(s, 1, m)[j] = s[1 + j - 1]
    BY <1>4, <1>7, SubSeqProperties
  <2>2. m - 1 + 1 = m /\ \A j \in 1..m : 1 + j - 1 = j
    BY <1>4
  <2> QED
    BY <1>6, <2>1, <2>2
<1> QED
  BY <1>4, <1>5, <1>8, <1>9

\* A whole request without a text: every driver gets bytes of its own, and all are given.
LEMMA NumbersFromRequest ==
    ASSUME Asked, Announced, pc \in {"call", "answer"}, whole, subservice \in Subservice,
           row \in Row, FromRequest(row.in), ~HasText(subservice),
           \A k \in DOMAIN row.in : row.in[k].as = "narrow" => ~little
    PROVE  Own(args) /\ Cardinality(Places(args)) = Needed(subservice) - 1
<1>1. /\ row.in \in Seq(AnyIn) /\ Rows[subservice] = row
      /\ DOMAIN row.in = 1..Len(row.in) /\ Len(row.in) \in Nat
  <2>1. row.in \in Seq(AnyIn)
    BY DEF Row
  <2> QED
    BY <2>1 DEF row
<1>2. /\ Tiled(row.in)
      /\ \A k \in DOMAIN row.in :
            /\ row.in[k].as \in {"bytes", "net", "net16", "host", "cnv", "cnv16", "narrow",
                                 "raw"}
            /\ row.in[k].as = "narrow" => ~little /\ row.in[k].n <= 4
  <2>1. \A k \in DOMAIN row.in : row.in[k].as # "text"
    BY <1>1 DEF HasText
  <2>2. Len(row.in) = 1 /\ row.in[1].as = "text" => FALSE
    BY <1>1, <2>1
  <2>3. Tiled(row.in)
    BY <2>2 DEF FromRequest
  <2> QED
    BY <2>1, <2>3 DEF FromRequest
<1>3. PICK f : Parts(row.in, f) /\ Needed(subservice) = 1 + f[Len(row.in)]
  BY <1>1, <1>2, InParts
<1>4. /\ Needed(subservice) \in Nat /\ Needed(subservice) <= Top /\ Top \in Nat
      /\ f[Len(row.in)] \in Nat
  <2>1. f[Len(row.in)] \in Nat
    BY <1>3 DEF Parts
  <2> QED
    BY <1>1, <2>1, NeededFits
<1>5. args = Inputs(little, packet) /\ little \in BOOLEAN
  BY DEF Asked
<1>6. PICK ends \in BOOLEAN : Holds(ends)
  BY DEF Asked
<1>7. packet = Request(length, FALSE) /\ length >= Needed(subservice)
  BY <1>6 DEF Holds
<1>8. Len(args) = Len(row.in)
  BY <1>1, <1>5 DEF Inputs
<1>9. ASSUME NEW k \in 1..Len(row.in)
      PROVE  /\ Len(args[k]) = row.in[k].n
             /\ \E m \in Turns(row.in[k].n) : \A j \in 1..row.in[k].n :
                   args[k][j] = <<"request", row.in[k].at + m[j]>>
  <2> DEFINE o == row.in[k]
  <2>1. args[k] = Input(little, packet, o) /\ o \in AnyIn
    BY <1>1, <1>5 DEF Inputs
  <2>2. /\ Len(args[k]) = o.n
        /\ \E m \in Turns(o.n) : \A j \in 1..o.n : args[k][j] = packet[o.at + m[j]]
    <3>1. /\ o.as \in {"bytes", "net", "net16", "host", "cnv", "cnv16", "narrow", "raw"}
          /\ o.as = "narrow" => ~little /\ o.n <= 4
      BY <1>1, <1>2
    <3> HIDE DEF o
    <3>2. /\ Len(Input(little, packet, o)) = o.n
          /\ \E m \in Turns(o.n) :
                \A j \in 1..o.n : Input(little, packet, o)[j] = packet[o.at + m[j]]
      <4>1. Movable(little, o)
        BY <3>1 DEF Movable
      <4>2. Moved(Input(little, packet, o), packet, o)
        BY ONLY <1>5, <2>1, <4>1, InputMoves
      <4> QED
        BY <4>2 DEF Moved
    <3> QED
      BY <2>1, <3>2
  <2>3. PICK b \in Nat, n \in Nat : b = o.at /\ n = o.n /\ b + n < Needed(subservice)
    BY <1>1, InputWithin
  <2>4. ASSUME NEW y \in 1..n PROVE packet[b + y] = <<"request", b + y>>
    <3>1. b + y \in Place /\ ~(b + y >= length)
      <4>1. /\ b \in Nat /\ n \in Nat /\ y \in 1..n /\ b + n < Needed(subservice)
            /\ Needed(subservice) <= Top /\ Top \in Nat /\ Needed(subservice) \in Nat
        BY <1>4, <2>3
      <4>2. b + y \in Nat /\ b + y <= Top /\ b + y < Needed(subservice)
        BY ONLY <4>1
      <4>3. length \in Nat
        BY <1>1, NeededFits DEF Announced
      <4> QED
        BY <1>4, <1>7, <4>2, <4>3 DEF Place
    <3> QED
      BY <1>7, <3>1 DEF Request
  <2>5. PICK m \in Turns(n) : \A j \in 1..n : args[k][j] = packet[b + m[j]]
    BY <2>2, <2>3
  <2>6. \A j \in 1..n : m[j] \in 1..n
    BY DEF Turns
  <2>7. \A j \in 1..n : args[k][j] = <<"request", b + m[j]>>
    BY <2>4, <2>5, <2>6
  <2> QED
    BY <2>2, <2>3, <2>7
<1> QED
  <2>1. f[Len(row.in)] <= Top /\ f[Len(row.in)] = Needed(subservice) - 1
    BY <1>3, <1>4
  <2>2. Own(args) /\ Cardinality(Places(args)) = f[Len(row.in)]
    BY ONLY <1>3, <1>4, <1>8, <1>9, <2>1, PlacesCounted
  <2> QED
    BY <2>1, <2>2

\* A whole request that is one text: the driver gets it up to where it ends.
LEMMA TextFromRequest ==
    ASSUME Asked, Announced, pc \in {"call", "answer"}, whole, subservice \in Subservice,
           row \in Row, Len(row.in) = 1, row.in[1].as = "text"
    PROVE  Own(args)
<1> DEFINE o == row.in[1]
           s == Bytes(packet, 1 + o.at, o.n)
<1>1. /\ row.in \in Seq(AnyIn) /\ Rows[subservice] = row
      /\ DOMAIN row.in = {1} /\ o \in AnyIn
  <2>1. row.in \in Seq(AnyIn)
    BY DEF Row
  <2> QED
    BY <2>1 DEF row
<1>2. args = Inputs(little, packet) /\ little \in BOOLEAN
  BY DEF Asked
<1>3. Len(args) = 1 /\ args[1] = Text(s)
  <2>1. args = [i \in 1..Len(row.in) |-> Input(little, packet, row.in[i])]
    BY <1>1, <1>2 DEF Inputs
  <2> HIDE DEF o, s
  <2>2. Len(args) = 1 /\ args[1] = Input(little, packet, o)
    BY <2>1 DEF o
  <2>3. o.as = "text"
    BY DEF o
  <2>4. Input(little, packet, o) = Text(s)
    BY ONLY <2>3 DEF Input, s
  <2> QED
    BY <2>2, <2>4
<1>4. PICK b \in Nat, n \in Nat : b = o.at /\ n = o.n /\ b + n < Needed(subservice)
  BY <1>1, InputWithin
<1>5. IsBytes(s, n) /\ \A j \in 1..n : s[j] = packet[b + j]
  <2>1. \A j \in 1..n : (1 + b) + j - 1 = b + j
    BY <1>4
  <2> QED
    BY <1>4, <2>1 DEF Bytes, IsBytes
<1> HIDE DEF s, o
<1>6. /\ Len(Text(s)) \in 0..n /\ \A j \in 1..Len(Text(s)) : Text(s)[j] = s[j]
      /\ \A i \in 1..n : s[i] = Zero => Len(Text(s)) < i
  BY ONLY <1>4, <1>5, TextIsPrefix
<1>7. PICK ends \in BOOLEAN : Holds(ends)
  BY DEF Asked
<1>8. /\ packet = Request(length, ends)
      /\ length >= Needed(subservice) \/ (ends /\ length >= 2 + b)
      /\ length \in Nat /\ Needed(subservice) \in Nat
      /\ Needed(subservice) <= Top /\ Top \in Nat
  <2>1. HasText(subservice)
    BY <1>1 DEF HasText, o
  <2>2. length \in RequestLengths(subservice)
    BY DEF Announced
  <2>3. /\ Needed(subservice) \in Nat /\ length \in Nat
        /\ Needed(subservice) <= Top /\ Top \in Nat
    BY <1>1, <2>2, NeededFits
  <2>4. length >= 2 + b
    BY <1>1, <1>4, <2>1, <2>2, <2>3 DEF RequestLengths, o
  <2>5. packet = Request(length, ends) /\ (length >= Needed(subservice) \/ ends)
    BY <1>7 DEF Holds
  <2> QED
    BY <2>3, <2>4, <2>5
<1>9. ASSUME NEW j \in 1..Len(Text(s)) PROVE Text(s)[j] = <<"request", b + j>>
  <2>1. /\ j \in 1..n /\ b + j \in Place /\ b + j \in Nat /\ b + j < Needed(subservice)
        /\ b + n < Needed(subservice)
    <3>1. j \in 1..n
      BY <1>6
    <3> QED
      BY <1>4, <1>8, <3>1, SMTT(60) DEF Place
  <2>2. Text(s)[j] = packet[b + j]
    BY <1>5, <1>6, <2>1
  <2>3. packet[b + j] # Zero
    BY <1>5, <1>6, <2>1, <2>2
  <2>4. b + j < length
    <3>1. CASE length >= Needed(subservice)
      BY <1>8, <2>1, <3>1
    <3>2. CASE ends /\ length >= 2 + b /\ ~(length >= Needed(subservice))
      <4>1. SUFFICES ASSUME b + j >= length PROVE FALSE
        BY <1>8, <2>1
      <4>2. PICK z \in 1..n : b + z = length - 1 /\ z < j
        <5>1. PICK z \in Nat : z = length - 1 - b
          BY <1>4, <1>8, <3>2
        <5>2. /\ b \in Nat /\ n \in Nat /\ j \in 1..n /\ length \in Nat
              /\ length >= 2 + b /\ b + j >= length
          BY <1>4, <1>8, <2>1, <3>2, <4>1
        <5>3. z \in 1..n /\ b + z = length - 1 /\ z < j
          BY ONLY <5>1, <5>2
        <5> QED
          BY <5>3
      <4>3. packet[b + z] = Zero
        <5>1. b + z \in Place /\ ~(b + z >= length)
          <6>1. /\ b \in Nat /\ n \in Nat /\ z \in 1..n /\ length \in Nat /\ Top \in Nat
                /\ Needed(subservice) \in Nat /\ Needed(subservice) <= Top
                /\ b + n < Needed(subservice) /\ b + z = length - 1
            BY <1>4, <1>8, <4>2
          <6>2. b + z \in Nat /\ b + z <= Top /\ ~(b + z >= length)
            BY ONLY <6>1
          <6> QED
            BY <1>8, <6>2 DEF Place
        <5> QED
          BY <1>8, <3>2, <4>2, <5>1 DEF Request
      <4>4. Len(Text(s)) < z
        BY <1>5, <1>6, <4>2, <4>3
      <4> QED
        BY <1>6, <4>2, <4>4
    <3> QED
      BY <1>8, <3>1, <3>2
  <2>5. packet[b + j] \in {Zero, <<"request", b + j>>}
    BY <1>8, <2>1, <2>4 DEF Request
  <2> QED
    BY <2>2, <2>3, <2>5
<1>10. \A p \in Places(args) : /\ p = <<1, p[2]>> /\ p[2] \in 1..Len(Text(s))
                               /\ args[p[1]][p[2]] = <<"request", b + p[2]>>
  <2> SUFFICES ASSUME NEW p \in Places(args)
               PROVE  /\ p = <<1, p[2]>> /\ p[2] \in 1..Len(Text(s))
                      /\ args[p[1]][p[2]] = <<"request", b + p[2]>>
    OBVIOUS
  <2>1. p \in (1..1) \X (1..Top) /\ p[2] <= Len(args[p[1]])
    BY <1>3 DEF Places
  <2>2. p = <<1, p[2]>> /\ p[1] = 1 /\ p[2] \in 1..Top
    BY <2>1
  <2>3. p[2] \in 1..Len(Text(s))
    BY <1>3, <1>6, <1>8, <2>1, <2>2
  <2> QED
    BY <1>3, <1>9, <2>2, <2>3
<1>11. ASSUME NEW p \in Places(args), NEW q \in Places(args),
              args[p[1]][p[2]] = args[q[1]][q[2]]
       PROVE  p = q
  <2>1. PICK i \in Nat, j \in Nat : p = <<1, i>> /\ q = <<1, j>> /\ i = p[2] /\ j = q[2]
    BY <1>6, <1>10
  <2>2. <<"request", b + i>> = <<"request", b + j>>
    BY <1>10, <1>11, <2>1
  <2>3. b + i = b + j
    BY <2>2
  <2> QED
    BY <1>4, <2>1, <2>3
<1>12. ASSUME NEW p \in Places(args) PROVE args[p[1]][p[2]][1] = "request"
  <2>1. <<"request", b + p[2]>>[1] = "request"
    OBVIOUS
  <2> QED
    BY <1>10, <2>1
<1> QED
  BY <1>11, <1>12 DEF Own

\* A driver is called with bytes of the request, each of them in one argument only; a
\* request without a text is used up whole.  For every size of structures and texts: the
\* inputs of a subservice lie one after the other and conversions move bytes, but for the
\* exceptions that the property names.
THEOREM SettingsArrive == Spec => []SettingsFromRequest
<1>1. Answering /\ Announced /\ Asked => SettingsFromRequest
  <2> SUFFICES ASSUME Answering, Announced, Asked, pc \in {"call", "answer"}, whole,
                      subservice \notin {"ADCS_FILE_UPLOAD_PACKET", "ADCS_SET_LOG_CONFIG",
                          "UHF_SET_DEST", "UHF_SET_SRC", "SET_UHF_WATCHDOG_TIMEOUT",
                          "SET_SBAND_WATCHDOG_TIMEOUT", "SET_CHARON_WATCHDOG_TIMEOUT",
                          "DEPLOY_DEPLOYABLES"},
                      ~(little /\ subservice = "UHF_SET_I2C")
               PROVE  /\ Own(args)
                      /\ ~HasText(subservice) =>
                            Cardinality(Places(args)) = Needed(subservice) - 1
    BY DEF SettingsFromRequest, Own, Places
  <2>1. /\ subservice \in Subservice /\ row \in Row /\ Rows[subservice] = row
        /\ FromRequest(row.in)
        /\ \A k \in DOMAIN row.in : row.in[k].as = "narrow" => ~little
    BY RowFits DEF Answering, RequestKnown, Fits, row
  <2>2. CASE ~HasText(subservice)
    BY <2>1, <2>2, NumbersFromRequest
  <2>3. CASE HasText(subservice)
    <3>1. Len(row.in) = 1 /\ row.in[1].as = "text"
      BY <2>1, <2>3 DEF HasText, FromRequest
    <3> QED
      BY <2>1, <2>3, <3>1, TextFromRequest
  <2> QED
    BY <2>2, <2>3
<1> QED
  BY <1>1, AnsweringInit, AnsweringStep, AnnouncedInit, AnnouncedStep, AskedInit,
     AskedStep, PTL DEF Spec
=============================================================================
