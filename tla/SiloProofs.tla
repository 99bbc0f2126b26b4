------------------------------ MODULE SiloProofs ------------------------------
(***************************************************************************)
(* The registry of Silo, for any declarations, sizes and interleaving of    *)
(* its operations: a name means one entry, transfers find the memory they   *)
(* copy, device copies follow their entries, values have places of their    *)
(* own within the memory, and the end leaves nothing.                       *)
(*                                                                         *)
(* The first part is about the layout of an entry alone: its strides, and   *)
(* the places they give its indices.  The rest needs the fields of an entry *)
(* but not their types: an operation keeps the fields, and what it does to  *)
(* the statuses, the sizes and the buffer decides the rest.                 *)
(***************************************************************************)
EXTENDS Silo, FiniteSetTheorems, FunctionTheorems, NaturalsInduction, WellFoundedInduction,
        TLAPS

-----------------------------------------------------------------------------
(* Folds over a sequence.                                                   *)

\* what holds of 0 and passes from each number to the next holds up to n
LEMMA UpTo ==
    ASSUME NEW n \in Nat, NEW T, 0 \in T, \A k \in 0 .. n - 1 : k \in T => k + 1 \in T
    PROVE  0 .. n \subseteq T
<1> DEFINE Bad == (0 .. n) \ T
<1>1. SUFFICES ASSUME Bad # {} PROVE FALSE
  OBVIOUS
<1>2. Bad \subseteq Nat
  OBVIOUS
<1>3. PICK k \in Bad : \A j \in Bad : ~(<<j, k>> \in OpToRel(<, Nat))
  <2> HIDE DEF Bad
  <2>1. QED
    BY <1>1, <1>2, WFMin, NatLessThanWellFounded
<1>4. k \in 0 .. n /\ k \notin T /\ k # 0
  BY <1>3
<1>5. k - 1 \in 0 .. n - 1 /\ (k - 1) + 1 = k /\ k - 1 \in Nat
  BY <1>4
<1>6. <<k - 1, k>> \in OpToRel(<, Nat)
  BY <1>4, <1>5 DEF OpToRel
<1>7. k - 1 \in T
  <2>1. k - 1 \notin Bad
    BY <1>3, <1>6
  <2>2. k - 1 \in 0 .. n
    BY <1>5
  <2>3. QED
    BY <2>1, <2>2
<1>8. QED
  BY <1>4, <1>5, <1>7

\* a set of positions has a last one
LEMMA LastOf ==
    ASSUME NEW n \in Nat, NEW t \in SUBSET (1 .. n), t # {}
    PROVE  Max(t) \in t /\ \A y \in t : Max(t) >= y
<1> DEFINE Rest == {n - x : x \in t}
<1>1. Rest \subseteq Nat /\ Rest # {}
  <2>1. \A x \in t : x \in 1 .. n
    OBVIOUS
  <2>2. \A x \in t : n - x \in Nat
    BY <2>1
  <2>3. QED
    BY <2>2
<1>2. PICK k \in Rest : \A j \in Rest : ~(<<j, k>> \in OpToRel(<, Nat))
  <2> HIDE DEF Rest
  <2>1. QED
    BY <1>1, WFMin, NatLessThanWellFounded
<1>3. ASSUME NEW j \in Rest, ~(k <= j)
      PROVE  FALSE
  <2>1. j \in Nat /\ k \in Nat
    BY <1>1
  <2>2. j < k
    BY <1>3, <2>1
  <2>3. <<j, k>> \in OpToRel(<, Nat)
    BY <2>1, <2>2 DEF OpToRel
  <2>4. QED
    BY <1>2, <2>3
<1>4. PICK x \in t : k = n - x
  OBVIOUS
<1>5. \A y \in t : x >= y
  <2> TAKE y \in t
  <2>1. k <= n - y
    BY <1>3
  <2>2. QED
    BY <1>4, <2>1
<1>6. QED
  BY <1>5 DEF Max

LEMMA LastOfInterval ==
    ASSUME NEW k \in Nat \ {0}
    PROVE  Max(1 .. k) = k /\ (1 .. k) \ {k} = 1 .. k - 1
<1>1. PICK t, m : t = 1 .. k /\ m = Max(t)
  OBVIOUS
<1>2. m \in t /\ \A y \in t : m >= y
  <2>1. t \in SUBSET (1 .. k) /\ t # {} /\ k \in Nat
    BY <1>1
  <2>2. QED
    BY <1>1, <2>1, LastOf
<1>3. k \in t
  BY <1>1
<1>4. m = k
  BY <1>1, <1>2, <1>3
<1>5. QED
  BY <1>1, <1>4

\* the recursion of FoldLeft over the sets of positions, G being what a step makes of
\* the value so far at a position
Folds(h, G, base, n) ==
    \A t \in SUBSET (1 .. n) :
        h[t] = IF t = {} THEN base ELSE G[<<h[t \ {Max(t)}], Max(t)>>]

\* it has a solution
LEMMA FoldExists ==
    ASSUME NEW n \in Nat, NEW V, NEW base \in V, NEW G,
           \A v \in V, i \in 1 .. n : G[<<v, i>>] \in V
    PROVE  \E h \in [SUBSET (1 .. n) -> V] : Folds(h, G, base, n)
<1> DEFINE S == 1 .. n
           Up(k) == {t \in SUBSET S : Cardinality(t) <= k}
           Body(h, t) == IF t = {} THEN base ELSE G[<<h[t \ {Max(t)}], Max(t)>>]
           Solves(h, k) == h \in [Up(k) -> V] /\ \A t \in Up(k) : h[t] = Body(h, t)
           T == {k \in Nat : \E h : Solves(h, k)}
<1>1. IsFiniteSet(S) /\ Cardinality(S) = n
  BY FS_Interval
<1>2. \A t \in SUBSET S : IsFiniteSet(t) /\ Cardinality(t) \in Nat /\ Cardinality(t) <= n
  <2> HIDE DEF S
  <2> TAKE t \in SUBSET S
  <2>1. QED
    BY <1>1, FS_Subset, FS_CardinalityType
<1>3. \A t \in SUBSET S : t # {} => Max(t) \in t
  BY LastOf
<1>4. 0 \in T
  <2> DEFINE h == [t \in Up(0) |-> base]
  <2>1. \A t \in Up(0) : t = {}
    BY <1>2, FS_EmptySet
  <2>2. Solves(h, 0)
    BY <2>1
  <2>3. QED
    BY <2>2
<1>5. ASSUME NEW k \in Nat, k \in T
      PROVE  k + 1 \in T
  <2>1. PICK g : Solves(g, k)
    BY <1>5
  <2> DEFINE h == [t \in Up(k + 1) |-> Body(g, t)]
  <2>2. ASSUME NEW t \in Up(k + 1), t # {}
        PROVE  t \ {Max(t)} \in Up(k) /\ Max(t) \in S
    <3>1. Max(t) \in t
      BY <1>3, <2>2
    <3>2. Cardinality(t \ {Max(t)}) <= k
      BY <1>2, <3>1, FS_RemoveElement
    <3>3. QED
      BY <3>1, <3>2
  <2>3. ASSUME NEW t \in Up(k)
        PROVE  t \in Up(k + 1) /\ h[t] = g[t]
    <3>1. t \in Up(k + 1)
      BY <1>2
    <3>2. g[t] = Body(g, t)
      BY <2>1
    <3>3. QED
      BY <3>1, <3>2
  <2>4. ASSUME NEW t \in Up(k + 1)
        PROVE  h[t] \in V /\ h[t] = Body(h, t)
    <3>1. CASE t = {}
      BY <3>1
    <3>2. CASE t # {}
      <4>1. PICK u, i : u = t \ {Max(t)} /\ i = Max(t)
        OBVIOUS
      <4>2. u \in Up(k) /\ i \in S
        BY <2>2, <3>2, <4>1
      <4>3. g[u] \in V /\ h[u] = g[u]
        BY <2>1, <2>3, <4>2
      <4>4. h[t] = G[<<g[u], i>>] /\ Body(h, t) = G[<<h[u], i>>]
        BY <3>2, <4>1
      <4>5. QED
        BY <4>2, <4>3, <4>4
    <3>3. QED
      BY <3>1, <3>2
  <2>5. Solves(h, k + 1)
    BY <2>4
  <2> HIDE DEF Solves
  <2>6. QED
    BY <2>5
<1>6. n \in T
  <2> HIDE DEF T
  <2>1. QED
    BY <1>4, <1>5, UpTo
<1>7. PICK h : Solves(h, n)
  BY <1>6
<1>8. Up(n) = SUBSET S
  BY <1>2
<1>9. QED
  BY <1>7, <1>8 DEF Folds

\* what a fold is over the first k positions, for every k
Steps(P, h, G, base, n) ==
    /\ P[0] = base /\ P[n] = h[1 .. n]
    /\ \A k \in 1 .. n : P[k] = G[<<P[k - 1], k>>]

LEMMA FoldSteps ==
    ASSUME NEW n \in Nat, NEW V, NEW base \in V, NEW G,
           \A v \in V, i \in 1 .. n : G[<<v, i>>] \in V,
           NEW h, h[{}] = base,
           \A t \in SUBSET (1 .. n) : t # {} /\ h[t \ {Max(t)}] \in V =>
               h[t] = G[<<h[t \ {Max(t)}], Max(t)>>]
    PROVE  \E P \in [0 .. n -> V] : Steps(P, h, G, base, n)
<1> DEFINE P == [k \in 0 .. n |-> h[1 .. k]]
           T == {k \in 0 .. n : P[k] \in V}
<1>1. P[0] = base
  <2>1. 1 .. 0 = {}
    OBVIOUS
  <2>2. QED
    BY <2>1
<1>2. ASSUME NEW k \in 1 .. n, P[k - 1] \in V
      PROVE  P[k] = G[<<P[k - 1], k>>] /\ P[k] \in V
  <2>1. PICK t, u : t = 1 .. k /\ u = 1 .. k - 1
    OBVIOUS
  <2>2. Max(t) = k /\ t \ {k} = u
    BY <2>1, LastOfInterval
  <2>3. k \in t /\ t \in SUBSET (1 .. n)
    BY <2>1
  <2>4. h[u] \in V /\ P[k - 1] = h[u] /\ P[k] = h[t]
    BY <1>2, <2>1
  <2>5. h[t] = G[<<h[u], k>>]
    BY <2>2, <2>4, <2>3
  <2>6. QED
    BY <2>4, <2>5
<1>3. 0 .. n \subseteq T
  <2>1. 0 \in T
    BY <1>1
  <2>2. ASSUME NEW k \in 0 .. n - 1, k \in T
        PROVE  k + 1 \in T
    <3>1. k + 1 \in 1 .. n /\ (k + 1) - 1 = k
      OBVIOUS
    <3>2. P[k + 1] \in V
      BY <1>2, <2>2, <3>1
    <3>3. QED
      BY <3>1, <3>2
  <2> HIDE DEF T
  <2>3. QED
    BY <2>1, <2>2, UpTo
<1>4. \A k \in 0 .. n : P[k] \in V
  BY <1>3
<1>5. P \in [0 .. n -> V] /\ P[n] = h[1 .. n]
  BY <1>4
<1>6. \A k \in 1 .. n : P[k] = G[<<P[k - 1], k>>]
  BY <1>2, <1>4
<1> HIDE DEF P
<1>7. QED
  BY <1>1, <1>5, <1>6 DEF Steps

\* the folds of Offsets and Place
Volume(s) == FoldLeft(LAMBDA a, b : a * b, 1, s)
Divided(v, s) == FoldLeft(LAMBDA offsets, extent : Append(offsets, Last(offsets) \div extent),
                          <<v>>, s)
SumOf(s) == FoldLeft(LAMBDA a, b : a + b, 0, s)

VolumeFold(h, s) ==
    h = [t \in SUBSET (DOMAIN s) |->
            IF t = {} THEN 1 ELSE h[t \ {Max(t)}] * s[Max(t)]]
DividedFold(h, v, s) ==
    h = [t \in SUBSET (DOMAIN s) |->
            IF t = {} THEN <<v>>
            ELSE Append(h[t \ {Max(t)}], Last(h[t \ {Max(t)}]) \div s[Max(t)])]
SumFold(h, s) ==
    h = [t \in SUBSET (DOMAIN s) |->
            IF t = {} THEN 0 ELSE h[t \ {Max(t)}] + s[Max(t)]]

Products(P, s, n) ==
    /\ P \in [0 .. n -> Nat \ {0}] /\ P[0] = 1 /\ P[n] = Volume(s)
    /\ \A k \in 1 .. n : P[k] = P[k - 1] * s[k]

LEMMA VolumeIs ==
    ASSUME NEW n \in Nat, NEW s, DOMAIN s = 1 .. n, \A i \in 1 .. n : s[i] \in Nat \ {0}
    PROVE  \E P : Products(P, s, n)
<1> DEFINE V == Nat \ {0}
           G == [p \in V \X (1 .. n) |-> p[1] * s[p[2]]]
<1>1. \A v \in V, i \in 1 .. n : v * s[i] \in V
  BY SMTT(30)
<1>2. \A v \in V, i \in 1 .. n : G[<<v, i>>] = v * s[i] /\ G[<<v, i>>] \in V
  BY <1>1
<1> HIDE DEF G
<1>3. 1 \in V
  OBVIOUS
<1> HIDE DEF V
<1>4. \E h : VolumeFold(h, s)
  <2>1. PICK h \in [SUBSET (1 .. n) -> V] : Folds(h, G, 1, n)
    BY <1>2, <1>3, FoldExists
  <2>2. ASSUME NEW t \in SUBSET (1 .. n)
        PROVE  h[t] = IF t = {} THEN 1 ELSE h[t \ {Max(t)}] * s[Max(t)]
    <3>1. h[t] = IF t = {} THEN 1 ELSE G[<<h[t \ {Max(t)}], Max(t)>>]
      BY <2>1 DEF Folds
    <3>2. CASE t # {}
      <4>1. Max(t) \in 1 .. n /\ h[t \ {Max(t)}] \in V
        BY <3>2, LastOf
      <4>2. QED
        BY <1>2, <3>1, <3>2, <4>1
    <3>3. QED
      BY <3>1, <3>2
  <2>3. VolumeFold(h, s)
    BY <2>2 DEF VolumeFold
  <2>4. QED
    BY <2>3
<1>5. PICK h : h = CHOOSE g : VolumeFold(g, s)
  OBVIOUS
<1>6. VolumeFold(h, s)
  BY <1>4, <1>5
<1>7. Volume(s) = h[1 .. n]
  <2>1. Volume(s) = (CHOOSE g : VolumeFold(g, s))[DOMAIN s]
    BY DEF Volume, FoldLeft, MapThenFoldSet, VolumeFold
  <2>2. QED
    BY <1>5, <2>1
<1>8. h[{}] = 1
  BY <1>6 DEF VolumeFold
<1>9. ASSUME NEW t \in SUBSET (1 .. n), t # {}, h[t \ {Max(t)}] \in V
      PROVE  h[t] = G[<<h[t \ {Max(t)}], Max(t)>>]
  <2>1. h[t] = h[t \ {Max(t)}] * s[Max(t)]
    BY <1>6, <1>9 DEF VolumeFold
  <2>2. Max(t) \in 1 .. n
    BY <1>9, LastOf
  <2>3. QED
    BY <1>2, <1>9, <2>1, <2>2
<1>10. PICK P \in [0 .. n -> V] : Steps(P, h, G, 1, n)
  BY <1>2, <1>3, <1>8, <1>9, FoldSteps
<1>11. ASSUME NEW k \in 1 .. n
       PROVE  P[k] = P[k - 1] * s[k]
  <2>1. k - 1 \in 0 .. n
    OBVIOUS
  <2>2. P[k - 1] \in V /\ P[k] = G[<<P[k - 1], k>>]
    BY <1>10, <2>1 DEF Steps
  <2>3. QED
    BY <1>2, <2>2
<1>12. P[0] = 1 /\ P[n] = Volume(s)
  BY <1>7, <1>10 DEF Steps
<1>13. QED
  BY <1>10, <1>11, <1>12 DEF Products, V

Sums(P, s, n) ==
    /\ P \in [0 .. n -> Nat] /\ P[0] = 0 /\ P[n] = SumOf(s)
    /\ \A k \in 1 .. n : P[k] = P[k - 1] + s[k]

LEMMA SumOfIs ==
    ASSUME NEW n \in Nat, NEW s, DOMAIN s = 1 .. n, \A i \in 1 .. n : s[i] \in Nat
    PROVE  \E P : Sums(P, s, n)
<1> DEFINE V == Nat
           G == [p \in V \X (1 .. n) |-> p[1] + s[p[2]]]
<1>1. \A v \in V, i \in 1 .. n : v + s[i] \in V
  OBVIOUS
<1>2. \A v \in V, i \in 1 .. n : G[<<v, i>>] = v + s[i] /\ G[<<v, i>>] \in V
  BY <1>1
<1> HIDE DEF G
<1>3. 0 \in V /\ n \in Nat
  OBVIOUS
<1> HIDE DEF V
<1>4. \E h : SumFold(h, s)
  <2>1. PICK h \in [SUBSET (1 .. n) -> V] : Folds(h, G, 0, n)
    BY <1>2, <1>3, FoldExists
  <2>2. ASSUME NEW t \in SUBSET (1 .. n)
        PROVE  h[t] = IF t = {} THEN 0 ELSE h[t \ {Max(t)}] + s[Max(t)]
    <3>1. h[t] = IF t = {} THEN 0 ELSE G[<<h[t \ {Max(t)}], Max(t)>>]
      BY <2>1 DEF Folds
    <3>2. CASE t # {}
      <4>1. Max(t) \in 1 .. n /\ h[t \ {Max(t)}] \in V
        BY <3>2, LastOf
      <4>2. QED
        BY <1>2, <3>1, <3>2, <4>1
    <3>3. QED
      BY <3>1, <3>2
  <2>3. SumFold(h, s)
    BY <2>2 DEF SumFold
  <2>4. QED
    BY <2>3
<1>5. PICK h : h = CHOOSE g : SumFold(g, s)
  OBVIOUS
<1>6. SumFold(h, s)
  BY <1>4, <1>5
<1>7. SumOf(s) = h[1 .. n]
  <2>1. SumOf(s) = (CHOOSE g : SumFold(g, s))[DOMAIN s]
    BY DEF SumOf, FoldLeft, MapThenFoldSet, SumFold
  <2>2. QED
    BY <1>5, <2>1
<1>8. h[{}] = 0
  BY <1>6 DEF SumFold
<1>9. ASSUME NEW t \in SUBSET (1 .. n), t # {}, h[t \ {Max(t)}] \in V
      PROVE  h[t] = G[<<h[t \ {Max(t)}], Max(t)>>]
  <2>1. h[t] = h[t \ {Max(t)}] + s[Max(t)]
    BY <1>6, <1>9 DEF SumFold
  <2>2. Max(t) \in 1 .. n
    BY <1>9, LastOf
  <2>3. QED
    BY <1>2, <1>9, <2>1, <2>2
<1>10. PICK P \in [0 .. n -> V] : Steps(P, h, G, 0, n)
  <2>1. PICK z : z = 0
    OBVIOUS
  <2>2. z \in V /\ h[{}] = z
    BY <1>3, <1>8, <2>1
  <2>3. \E P \in [0 .. n -> V] : Steps(P, h, G, z, n)
    BY ONLY n \in Nat, <1>2, <1>9, <2>2, FoldSteps
  <2>4. QED
    BY <2>1, <2>3
<1>11. ASSUME NEW k \in 1 .. n
       PROVE  P[k] = P[k - 1] + s[k]
  <2>1. k - 1 \in 0 .. n
    OBVIOUS
  <2>2. P[k - 1] \in V /\ P[k] = G[<<P[k - 1], k>>]
    BY <1>10, <2>1 DEF Steps
  <2>3. QED
    BY <1>2, <2>2
<1>12. P[0] = 0 /\ P[n] = SumOf(s)
  BY <1>7, <1>10 DEF Steps
<1>13. QED
  BY <1>10, <1>11, <1>12 DEF Sums, V

LEMMA QuotientIn ==
    ASSUME NEW b \in Nat \ {0}, NEW a \in Nat
    PROVE  a \div b \in Nat
OBVIOUS

LEMMA QuotientIs ==
    ASSUME NEW b \in Nat \ {0}, NEW r \in Nat
    PROVE  (b * r) \div b = r
<1>1. PICK a, q : a = b * r /\ q = a \div b
  OBVIOUS
<1>2. a \in Nat /\ b > 0
  BY <1>1, SMTT(30)
<1>3. q \in Int /\ b * q <= a /\ a < b * q + b
  BY <1>1, <1>2, SMTT(30)
<1>4. q = r
  BY <1>1, <1>2, <1>3, SMTT(30)
<1>5. QED
  BY <1>1, <1>4

Quotients(P, v, s, n) ==
    /\ \A k \in 0 .. n : P[k] \in Seq(Nat) /\ P[k] # <<>>
    /\ P[0] = <<v>> /\ P[n] = Divided(v, s)
    /\ \A k \in 1 .. n : P[k] = Append(P[k - 1], Last(P[k - 1]) \div s[k])

LEMMA DividedIs ==
    ASSUME NEW n \in Nat, NEW s, DOMAIN s = 1 .. n, \A i \in 1 .. n : s[i] \in Nat \ {0},
           NEW v \in Nat
    PROVE  \E P : Quotients(P, v, s, n)
<1> DEFINE V == Seq(Nat) \ {<<>>}
           G == [p \in V \X (1 .. n) |-> Append(p[1], Last(p[1]) \div s[p[2]])]
<1>1. ASSUME NEW o \in V, NEW i \in 1 .. n
      PROVE  Append(o, Last(o) \div s[i]) \in V
  <2>1. Len(o) \in Nat /\ Len(o) # 0
    OBVIOUS
  <2>2. Last(o) \in Nat
    BY <2>1 DEF Last
  <2>3. PICK a, b, q : a = Last(o) /\ b = s[i] /\ q = a \div b
    OBVIOUS
  <2>4. q \in Nat
    <3>1. a \in Nat /\ b \in Nat \ {0}
      BY <2>2, <2>3
    <3>2. QED
      BY ONLY <2>3, <3>1, QuotientIn
  <2>5. Append(o, q) \in Seq(Nat) /\ Len(Append(o, q)) = Len(o) + 1 /\ Len(<<>>) = 0
    BY <2>4
  <2>6. Append(o, q) # <<>>
    BY ONLY <2>1, <2>5
  <2>7. QED
    BY <2>3, <2>5, <2>6
<1>2. \A o \in V, i \in 1 .. n :
          G[<<o, i>>] = Append(o, Last(o) \div s[i]) /\ G[<<o, i>>] \in V
  <2> HIDE DEF V
  <2>1. QED
    BY <1>1
<1> HIDE DEF G
<1>3. <<v>> \in V
  OBVIOUS
<1> HIDE DEF V
<1>4. \E h : DividedFold(h, v, s)
  <2>1. PICK h \in [SUBSET (1 .. n) -> V] : Folds(h, G, <<v>>, n)
    BY <1>2, <1>3, FoldExists
  <2>2. ASSUME NEW t \in SUBSET (1 .. n)
        PROVE  h[t] = IF t = {} THEN <<v>>
                      ELSE Append(h[t \ {Max(t)}], Last(h[t \ {Max(t)}]) \div s[Max(t)])
    <3>1. h[t] = IF t = {} THEN <<v>> ELSE G[<<h[t \ {Max(t)}], Max(t)>>]
      BY <2>1 DEF Folds
    <3>2. CASE t # {}
      <4>1. Max(t) \in 1 .. n /\ h[t \ {Max(t)}] \in V
        BY <3>2, LastOf
      <4>2. PICK o, i : o = h[t \ {Max(t)}] /\ i = Max(t)
        OBVIOUS
      <4>3. G[<<o, i>>] = Append(o, Last(o) \div s[i])
        BY <1>2, <4>1, <4>2
      <4>4. QED
        BY ONLY <3>1, <3>2, <4>2, <4>3
    <3>3. QED
      BY <3>1, <3>2
  <2>3. DividedFold(h, v, s)
    BY <2>2 DEF DividedFold
  <2>4. QED
    BY <2>3
<1>5. PICK h : h = CHOOSE g : DividedFold(g, v, s)
  OBVIOUS
<1>6. DividedFold(h, v, s)
  BY <1>4, <1>5
<1>7. Divided(v, s) = h[1 .. n]
  <2>1. Divided(v, s) = (CHOOSE g : DividedFold(g, v, s))[DOMAIN s]
    BY DEF Divided, FoldLeft, MapThenFoldSet, DividedFold
  <2>2. QED
    BY <1>5, <2>1
<1>8. h[{}] = <<v>>
  BY <1>6 DEF DividedFold
<1>9. ASSUME NEW t \in SUBSET (1 .. n), t # {}, h[t \ {Max(t)}] \in V
      PROVE  h[t] = G[<<h[t \ {Max(t)}], Max(t)>>]
  <2>1. h[t] = Append(h[t \ {Max(t)}], Last(h[t \ {Max(t)}]) \div s[Max(t)])
    BY <1>6, <1>9 DEF DividedFold
  <2>2. Max(t) \in 1 .. n
    BY <1>9, LastOf
  <2>3. PICK o, i : o = h[t \ {Max(t)}] /\ i = Max(t)
    OBVIOUS
  <2>4. G[<<o, i>>] = Append(o, Last(o) \div s[i])
    BY <1>2, <1>9, <2>2, <2>3
  <2>5. QED
    BY ONLY <2>1, <2>3, <2>4
<1>10. PICK P \in [0 .. n -> V] : Steps(P, h, G, <<v>>, n)
  BY <1>2, <1>3, <1>8, <1>9, FoldSteps
<1>11. ASSUME NEW k \in 1 .. n
       PROVE  P[k] = Append(P[k - 1], Last(P[k - 1]) \div s[k])
  <2>1. k - 1 \in 0 .. n
    OBVIOUS
  <2>2. P[k - 1] \in V /\ P[k] = G[<<P[k - 1], k>>]
    BY <1>10, <2>1 DEF Steps
  <2>3. QED
    BY <1>2, <2>2
<1>12. P[0] = <<v>> /\ P[n] = Divided(v, s)
  BY <1>7, <1>10 DEF Steps
<1>13. \A k \in 0 .. n : P[k] \in Seq(Nat) /\ P[k] # <<>>
  BY <1>10 DEF V
<1>14. QED
  BY <1>11, <1>12, <1>13 DEF Quotients

-----------------------------------------------------------------------------
(* The offsets of a shape.                                                 *)

\* the offsets F of a shape s of n dimensions: a stride for each index, the last one 1
Strides(F, s, n) ==
    /\ F \in Seq(Nat) /\ Len(F) = n + 1
    /\ \A k \in 1 .. n + 1 : F[k] \in Nat \ {0}
    /\ F[n + 1] = 1
    /\ \A k \in 1 .. n : F[k] = s[k] * F[k + 1]

\* the k-th sequence of the division has one quotient more than the one before
Built(q, v, s, k) ==
    /\ q \in Seq(Nat) /\ Len(q) = k + 1 /\ q[1] = v
    /\ \A j \in 1 .. k : q[j + 1] = q[j] \div s[j]

LEMMA BuiltStep ==
    ASSUME NEW k \in Nat, NEW s, NEW v, NEW q, Built(q, v, s, k), NEW p,
           p = Append(q, Last(q) \div s[k + 1]), p \in Seq(Nat)
    PROVE  Built(p, v, s, k + 1)
<1>1. q \in Seq(Nat) /\ Len(q) = k + 1 /\ q[1] = v /\ Last(q) = q[k + 1]
  BY DEF Built, Last
<1>2. PICK e : e = q[k + 1] \div s[k + 1]
  OBVIOUS
<1>3. p = Append(q, e)
  BY <1>1, <1>2
<1>4. /\ Len(p) = k + 2 /\ p[k + 2] = e
      /\ \A j \in 1 .. k + 1 : p[j] = q[j]
  BY ONLY <1>1, <1>3, k \in Nat
<1>5. ASSUME NEW j \in 1 .. k + 1
      PROVE  p[j + 1] = p[j] \div s[j]
  <2>1. CASE j = k + 1
    BY <1>2, <1>4, <2>1
  <2>2. CASE j # k + 1
    <3>1. j \in 1 .. k /\ j \in 1 .. k + 1 /\ j + 1 \in 1 .. k + 1
      BY <2>2
    <3>2. q[j + 1] = q[j] \div s[j]
      BY <3>1 DEF Built
    <3>3. QED
      BY <1>4, <3>1, <3>2
  <2>3. QED
    BY <2>1, <2>2
<1>6. p[1] = v /\ Len(p) = (k + 1) + 1
  BY <1>1, <1>4
<1>7. QED
  BY <1>5, <1>6 DEF Built

LEMMA AllBuilt ==
    ASSUME NEW n \in Nat, NEW s, NEW v \in Nat, NEW P, Quotients(P, v, s, n)
    PROVE  Built(P[n], v, s, n)
<1> DEFINE T == {k \in 0 .. n : Built(P[k], v, s, k)}
<1>1. 0 \in T
  <2>1. PICK q : q = <<v>>
    OBVIOUS
  <2>2. q \in Seq(Nat) /\ Len(q) = 1 /\ q[1] = v
    BY <2>1
  <2>3. Built(q, v, s, 0)
    BY <2>2 DEF Built
  <2>4. P[0] = q
    BY <2>1 DEF Quotients
  <2>5. QED
    BY <2>3, <2>4
<1>2. ASSUME NEW k \in 0 .. n - 1, k \in T
      PROVE  k + 1 \in T
  <2>1. PICK q, p : q = P[k] /\ p = P[k + 1]
    OBVIOUS
  <2>2. k + 1 \in 1 .. n /\ (k + 1) - 1 = k /\ k \in Nat /\ k + 1 \in 0 .. n
    OBVIOUS
  <2>3. p = Append(q, Last(q) \div s[k + 1]) /\ p \in Seq(Nat)
    BY <2>1, <2>2 DEF Quotients
  <2>4. Built(q, v, s, k)
    BY <1>2, <2>1
  <2>5. Built(p, v, s, k + 1)
    BY <2>2, <2>3, <2>4, BuiltStep
  <2>6. QED
    BY <2>1, <2>2, <2>5
<1>3. n \in T
  <2> HIDE DEF T
  <2>1. QED
    BY <1>1, <1>2, UpTo
<1>4. QED
  BY <1>3

\* the product of the first dimensions divides that of all
LEMMA Divides ==
    ASSUME NEW n \in Nat, NEW s, \A i \in 1 .. n : s[i] \in Nat \ {0}, NEW P, Products(P, s, n)
    PROVE  \A k \in 0 .. n : \E r \in Nat \ {0} : P[n] = P[k] * r
<1> DEFINE T == {m \in 0 .. n : \E r \in Nat \ {0} : P[n] = P[n - m] * r}
<1>1. 0 \in T
  <2>1. P[n] \in Nat /\ n - 0 = n
    BY DEF Products
  <2>2. P[n] = P[n - 0] * 1
    BY <2>1
  <2>3. QED
    BY <2>2
<1>2. ASSUME NEW m \in 0 .. n - 1, m \in T
      PROVE  m + 1 \in T
  <2>1. PICK r \in Nat \ {0} : P[n] = P[n - m] * r
    BY <1>2
  <2>2. PICK k : k = n - m
    OBVIOUS
  <2>3. k \in 1 .. n /\ k - 1 = n - (m + 1) /\ k - 1 \in 0 .. n
    BY <2>2
  <2>4. PICK a, b, c : a = P[k - 1] /\ b = s[k] /\ c = P[n]
    OBVIOUS
  <2>5. a \in Nat /\ b \in Nat \ {0} /\ c = (a * b) * r
    BY <2>1, <2>2, <2>3, <2>4 DEF Products
  <2>6. b * r \in Nat \ {0} /\ c = a * (b * r)
    BY ONLY <2>5, r \in Nat \ {0}, SMTT(30)
  <2>7. P[n] = P[n - (m + 1)] * (b * r)
    BY <2>3, <2>4, <2>6
  <2>8. m + 1 \in 0 .. n
    OBVIOUS
  <2>9. QED
    BY <2>6, <2>7, <2>8
<1>3. 0 .. n \subseteq T
  <2> HIDE DEF T
  <2>1. QED
    BY <1>1, <1>2, UpTo
<1>4. ASSUME NEW k \in 0 .. n
      PROVE  \E r \in Nat \ {0} : P[n] = P[k] * r
  <2>1. n - k \in T /\ n - (n - k) = k
    BY <1>3
  <2>2. QED
    BY <2>1
<1>5. QED
  BY <1>4

LEMMA Cancel ==
    ASSUME NEW a \in Nat \ {0}, NEW b \in Nat \ {0}, NEW r \in Nat \ {0}, NEW f \in Nat,
           f * a = (a * b) * r
    PROVE  f = b * r /\ f \div b = r
<1>1. f = b * r
  <2>1. PICK g : g = b * r
    OBVIOUS
  <2>2. g \in Nat /\ (a * b) * r = a * g
    BY <2>1, SMTT(30)
  <2>3. f * a = g * a
    BY <2>2
  <2>4. (f - g) * a = 0
    BY <2>2, <2>3, SMTT(30)
  <2>5. f - g = 0
    BY <2>2, <2>4, SMTT(30)
  <2>6. QED
    BY <2>1, <2>2, <2>5
<1>2. QED
  BY <1>1, QuotientIs

LEMMA OffsetsAre ==
    ASSUME NEW n \in Nat \ {0}, NEW s, DOMAIN s = 1 .. n, \A i \in 1 .. n : s[i] \in Nat \ {0}
    PROVE  Strides(Offsets(s), s, n)
<1>1. PICK P : Products(P, s, n)
  BY VolumeIs
<1>2. PICK v : v = Volume(s)
  OBVIOUS
<1>3. v = P[n] /\ v \in Nat \ {0}
  BY <1>1, <1>2 DEF Products
<1>4. PICK Q : Quotients(Q, v, s, n)
  BY <1>3, DividedIs
<1>5. PICK F : F = Q[n]
  OBVIOUS
<1>6. Offsets(s) = F
  <2>1. s # <<>>
    <3>1. 1 \in DOMAIN s
      OBVIOUS
    <3>2. DOMAIN <<>> = {}
      OBVIOUS
    <3>3. QED
      BY ONLY <3>1, <3>2
  <2>2. Offsets(s) = Divided(Volume(s), s)
    BY ONLY <2>1 DEF Offsets, Divided, Volume
  <2>3. QED
    BY <1>2, <1>4, <1>5, <2>2 DEF Quotients
<1>7. Built(F, v, s, n)
  BY <1>3, <1>4, <1>5, AllBuilt
<1>8. F \in Seq(Nat) /\ Len(F) = n + 1 /\ F[1] = v /\ \A j \in 1 .. n : F[j + 1] = F[j] \div s[j]
  BY <1>7 DEF Built
<1> DEFINE Good(k) == F[k + 1] \in Nat \ {0} /\ F[k + 1] * P[k] = v
<1>9. ASSUME NEW k \in 0 .. n - 1, Good(k)
      PROVE  Good(k + 1) /\ F[k + 1] = s[k + 1] * F[(k + 1) + 1]
  <2>1. k + 1 \in 1 .. n /\ (k + 1) - 1 = k /\ k \in 0 .. n /\ k + 1 \in 0 .. n
    OBVIOUS
  <2>2. PICK a, b, f, e : a = P[k] /\ b = s[k + 1] /\ f = F[k + 1] /\ e = F[(k + 1) + 1]
    OBVIOUS
  <2>3. PICK r \in Nat \ {0} : P[n] = P[k + 1] * r
    BY <1>1, <2>1, Divides
  <2>4. a \in Nat \ {0} /\ b \in Nat \ {0} /\ f \in Nat \ {0} /\ P[k + 1] = a * b
    BY <1>1, <1>9, <2>1, <2>2 DEF Products
  <2>5. f * a = v /\ v = (a * b) * r
    BY <1>3, <1>9, <2>2, <2>3, <2>4
  <2>6. f = b * r /\ f \div b = r
    BY <2>3, <2>4, <2>5, Cancel
  <2>7. e = r
    BY <1>8, <2>1, <2>2, <2>6
  <2>8. e * P[k + 1] = v
    BY <2>3, <2>4, <2>5, <2>7, <1>3, SMTT(30)
  <2>9. f = b * e
    BY <2>6, <2>7
  <2>10. QED
    BY <2>2, <2>7, <2>8, <2>9
<1> DEFINE T == {k \in 0 .. n : Good(k)}
<1>10. 0 .. n \subseteq T
  <2>1. 0 \in T
    <3>1. P[0] = 1 /\ F[0 + 1] = v
      BY <1>1, <1>8 DEF Products
    <3>2. v * 1 = v
      BY <1>3
    <3>3. Good(0)
      BY <1>3, <3>1, <3>2
    <3>4. QED
      BY <3>3
  <2>2. ASSUME NEW k \in 0 .. n - 1, k \in T
        PROVE  k + 1 \in T
    <3>1. Good(k + 1)
      BY <1>9, <2>2
    <3>2. k + 1 \in 0 .. n
      OBVIOUS
    <3>3. QED
      BY <3>1, <3>2
  <2> HIDE DEF T
  <2>3. QED
    BY <2>1, <2>2, UpTo
<1>11. \A k \in 0 .. n : Good(k)
  BY <1>10
<1>12. ASSUME NEW k \in 1 .. n + 1
       PROVE  F[k] \in Nat \ {0}
  <2>1. k - 1 \in 0 .. n /\ (k - 1) + 1 = k
    OBVIOUS
  <2>2. QED
    BY <1>11, <2>1
<1>13. ASSUME NEW k \in 1 .. n
       PROVE  F[k] = s[k] * F[k + 1]
  <2>1. PICK j : j = k - 1
    OBVIOUS
  <2>2. j \in 0 .. n - 1 /\ j \in 0 .. n /\ j + 1 = k /\ (j + 1) + 1 = k + 1
    BY <2>1
  <2>3. F[j + 1] = s[j + 1] * F[(j + 1) + 1]
    BY <1>9, <1>11, <2>2
  <2>4. QED
    BY <2>2, <2>3
<1>14. F[n + 1] = 1
  <2>1. n \in 0 .. n
    OBVIOUS
  <2>2. PICK f : f = F[n + 1]
    OBVIOUS
  <2>3. f \in Nat \ {0} /\ f * v = v
    BY <1>3, <1>11, <2>1, <2>2
  <2>4. f = 1
    <3>1. PICK b, r : b = 1 /\ r = 1
      OBVIOUS
    <3>2. b \in Nat \ {0} /\ r \in Nat \ {0} /\ f * v = (v * b) * r /\ b * r = 1
      BY ONLY <1>3, <2>3, <3>1
    <3>3. f = b * r
      BY <1>3, <2>3, <3>2, Cancel
    <3>4. QED
      BY <3>2, <3>3
  <2>5. QED
    BY <2>2, <2>4
<1>15. QED
  BY <1>6, <1>8, <1>12, <1>13, <1>14 DEF Strides

-----------------------------------------------------------------------------
(* The places of the values of an entry.                                    *)

\* an index x of an entry of n values with the shape s of d dimensions, and the place Q[k]
\* that its first k components lead to
IndexOf(x, s, d, n) ==
    /\ DOMAIN x = 1 .. d + 1
    /\ \A k \in 1 .. d + 1 : x[k] \in Nat
    /\ x[1] < n /\ \A k \in 1 .. d : x[k + 1] < s[k]

Partial(Q, x, F, d) ==
    /\ Q \in [0 .. d + 1 -> Nat] /\ Q[0] = 0 /\ Q[d + 1] = Place(F, x)
    /\ \A k \in 1 .. d + 1 : Q[k] = Q[k - 1] + F[k] * x[k]

LEMMA PartialExists ==
    ASSUME NEW d \in Nat \ {0}, NEW s, NEW F, Strides(F, s, d),
           NEW n \in Nat, NEW x, IndexOf(x, s, d, n)
    PROVE  \E Q : Partial(Q, x, F, d)
<1>1. DOMAIN F = 1 .. d + 1 /\ F # <<>> /\ \A k \in 1 .. d + 1 : F[k] \in Nat
  <2>1. F \in Seq(Nat) /\ Len(F) = d + 1 /\ Len(<<>>) = 0
    BY DEF Strides
  <2>2. F # <<>> /\ DOMAIN F = 1 .. d + 1
    BY ONLY <2>1, d \in Nat \ {0}
  <2>3. QED
    BY <2>2 DEF Strides
<1>2. PICK m, f : m = d + 1 /\ f = [k \in DOMAIN F |-> F[k] * x[k]]
  OBVIOUS
<1>3. m \in Nat /\ DOMAIN f = 1 .. m /\ \A k \in 1 .. m : f[k] = F[k] * x[k]
  BY <1>1, <1>2
<1>4. \A k \in 1 .. m : f[k] \in Nat
  <2> TAKE k \in 1 .. m
  <2>1. F[k] \in Nat /\ x[k] \in Nat
    BY <1>1, <1>2 DEF IndexOf
  <2>2. F[k] * x[k] \in Nat
    BY <2>1, SMTT(30)
  <2>3. QED
    BY <1>3, <2>2
<1>5. PICK Q : Sums(Q, f, m)
  BY <1>3, <1>4, SumOfIs
<1>6. Place(F, x) = SumOf(f)
  BY ONLY <1>1, <1>2 DEF Place, SumOf
<1>7. Partial(Q, x, F, d)
  BY <1>2, <1>3, <1>5, <1>6 DEF Sums, Partial
<1>8. QED
  BY <1>7

LEMMA Wider ==
    ASSUME NEW q \in Nat, NEW f \in Nat \ {0}, NEW b \in Nat \ {0}, NEW e \in Nat, f = b * e,
           NEW x \in Nat, x < b
    PROVE  (q + e * x) + e <= q + f
<1>1. e * (x + 1) <= e * b
  BY SMTT(30)
<1>2. e * (x + 1) = e * x + e /\ e * b = f
  BY SMTT(30)
<1>3. PICK u : u = e * x
  OBVIOUS
<1>4. u \in Nat
  BY <1>3, SMTT(30)
<1>5. u + e <= f
  BY <1>1, <1>2, <1>3
<1>6. (q + u) + e <= q + f
  BY ONLY <1>4, <1>5, q \in Nat, f \in Nat \ {0}, e \in Nat
<1>7. QED
  BY <1>3, <1>6

LEMMA OneMore ==
    ASSUME NEW f \in Nat, NEW i \in Nat, NEW n \in Nat, i < n
    PROVE  f * i + f <= f * n
<1>1. f * (i + 1) <= f * n
  BY SMTT(30)
<1>2. f * (i + 1) = f * i + f
  BY SMTT(30)
<1>3. QED
  BY <1>1, <1>2

\* a place lies before the end of all the values
LEMMA PlaceBound ==
    ASSUME NEW d \in Nat \ {0}, NEW s, \A i \in 1 .. d : s[i] \in Nat \ {0},
           NEW F, Strides(F, s, d),
           NEW n \in Nat, NEW x, IndexOf(x, s, d, n), NEW Q, Partial(Q, x, F, d)
    PROVE  Place(F, x) \in Nat /\ Place(F, x) + 1 <= F[1] * n
<1> DEFINE T == {m \in 0 .. d : Q[m + 1] + F[m + 1] <= F[1] * n}
<1>1. 0 \in T
  <2>1. PICK f, i, e : f = F[1] /\ i = x[1] /\ e = f * i
    OBVIOUS
  <2>2. f \in Nat /\ i \in Nat /\ i < n
    BY <2>1 DEF Strides, IndexOf
  <2>3. Q[1] = 0 + e
    BY <2>1 DEF Partial
  <2>4. e \in Nat
    BY <2>1, <2>2, SMTT(30)
  <2>5. e + f <= f * n
    BY ONLY <2>1, <2>2, n \in Nat, OneMore
  <2>6. Q[0 + 1] + F[0 + 1] <= F[1] * n
    BY <2>1, <2>3, <2>4, <2>5
  <2>7. QED
    BY <2>6
<1>2. ASSUME NEW m \in 0 .. d - 1, m \in T
      PROVE  m + 1 \in T
  <2>1. PICK k, j : k = m + 1 /\ j = k + 1
    OBVIOUS
  <2>2. /\ k \in 1 .. d /\ j \in 1 .. d + 1 /\ j - 1 = k /\ k \in 1 .. d + 1
        /\ k \in 0 .. d + 1 /\ m + 1 = k /\ (m + 1) + 1 = j
    BY <2>1
  <2>3. PICK q, f, b, e, i, N : /\ q = Q[k] /\ f = F[k] /\ b = s[k] /\ e = F[j]
                                /\ i = x[j] /\ N = F[1] * n
    OBVIOUS
  <2>4. q \in Nat /\ Q[j] = q + e * i
    BY <2>2, <2>3 DEF Partial
  <2>5. f \in Nat \ {0} /\ b \in Nat \ {0} /\ e \in Nat /\ f = b * e
    BY <2>1, <2>2, <2>3 DEF Strides
  <2>6. i \in Nat /\ i < b
    BY <2>1, <2>2, <2>3 DEF IndexOf
  <2>7. Q[j] + e <= q + f
    BY <2>4, <2>5, <2>6, Wider
  <2>8. q + f <= N
    BY <1>2, <2>2, <2>3
  <2>9. N \in Nat
    <3>1. F[1] \in Nat /\ n \in Nat
      BY DEF Strides
    <3>2. QED
      BY <2>3, <3>1, SMTT(30)
  <2>10. Q[j] \in Nat
    BY <2>2 DEF Partial
  <2>11. Q[j] + e <= N
    BY <2>4, <2>5, <2>7, <2>8, <2>9, <2>10
  <2>12. Q[(m + 1) + 1] + F[(m + 1) + 1] <= F[1] * n
    BY <2>2, <2>3, <2>11
  <2>13. QED
    BY <2>2, <2>12
<1>3. d \in T
  <2> HIDE DEF T
  <2>1. d \in Nat
    OBVIOUS
  <2>2. 0 .. d \subseteq T
    BY ONLY <1>1, <1>2, <2>1, UpTo
  <2>3. QED
    BY <2>1, <2>2
<1>4. Q[d + 1] + F[d + 1] <= F[1] * n /\ F[d + 1] = 1
  BY <1>3 DEF Strides
<1>5. Q[d + 1] = Place(F, x) /\ Q[d + 1] \in Nat
  <2>1. d + 1 \in 0 .. d + 1
    OBVIOUS
  <2>2. QED
    BY <2>1 DEF Partial
<1>6. QED
  BY <1>4, <1>5

\* two indices agree so far, or the place of one is a stride behind that of the other
Apart(x, y, P, Q, F, m) ==
    \/ P[m] = Q[m] /\ \A k \in 1 .. m : x[k] = y[k]
    \/ m > 0 /\ P[m] + F[m] <= Q[m]
    \/ m > 0 /\ Q[m] + F[m] <= P[m]

LEMMA Behind ==
    ASSUME NEW p \in Nat, NEW q \in Nat, NEW e \in Nat, NEW i \in Nat, NEW j \in Nat, i < j,
           p = q
    PROVE  (p + e * i) + e <= q + e * j
<1>1. e * (i + 1) <= e * j /\ e * (i + 1) = e * i + e
  BY SMTT(30)
<1>2. PICK u, v : u = e * i /\ v = e * j
  OBVIOUS
<1>3. u \in Nat /\ v \in Nat
  BY <1>2, SMTT(30)
<1>4. u + e <= v
  BY <1>1, <1>2
<1>5. (p + u) + e <= q + v
  BY ONLY <1>3, <1>4, p \in Nat, q \in Nat, e \in Nat, p = q
<1>6. QED
  BY <1>2, <1>5

LEMMA StaysBehind ==
    ASSUME NEW p \in Nat, NEW q \in Nat, NEW f \in Nat \ {0}, NEW b \in Nat \ {0},
           NEW e \in Nat, f = b * e, NEW i \in Nat, i < b, NEW j \in Nat, p + f <= q
    PROVE  (p + e * i) + e <= q + e * j
<1>1. (p + e * i) + e <= p + f
  BY Wider
<1>2. PICK u, v : u = e * i /\ v = e * j
  OBVIOUS
<1>3. u \in Nat /\ v \in Nat
  BY <1>2, SMTT(30)
<1>4. (p + u) + e <= q + v
  BY ONLY <1>1, <1>2, <1>3, p \in Nat, q \in Nat, e \in Nat, p + f <= q, f \in Nat \ {0}
<1>5. QED
  BY <1>2, <1>4

LEMMA ApartStep ==
    ASSUME NEW d \in Nat \ {0}, NEW s, \A k \in 1 .. d : s[k] \in Nat \ {0},
           NEW F, Strides(F, s, d), NEW n \in Nat,
           NEW x, IndexOf(x, s, d, n), NEW P, Partial(P, x, F, d),
           NEW y, IndexOf(y, s, d, n), NEW Q, Partial(Q, y, F, d),
           NEW m \in 0 .. d, Apart(x, y, P, Q, F, m)
    PROVE  Apart(x, y, P, Q, F, m + 1)
<1>1. PICK k : k = m + 1
  OBVIOUS
<1>2. k \in 1 .. d + 1 /\ k - 1 = m /\ m \in 0 .. d + 1 /\ k > 0 /\ k \in Nat /\ m \in Nat
  BY <1>1
<1>3. PICK p, q, e, i, j : p = P[m] /\ q = Q[m] /\ e = F[k] /\ i = x[k] /\ j = y[k]
  OBVIOUS
<1>4. p \in Nat /\ q \in Nat /\ P[k] = p + e * i /\ Q[k] = q + e * j
  BY <1>2, <1>3 DEF Partial
<1>5. e \in Nat /\ i \in Nat /\ j \in Nat
  BY <1>2, <1>3 DEF Strides, IndexOf
<1>6. CASE p = q /\ \A l \in 1 .. m : x[l] = y[l]
  <2>1. CASE i = j
    <3>1. ASSUME NEW l \in 1 .. k
          PROVE  x[l] = y[l]
      <4>1. l \in 1 .. m \/ l = k
        BY <1>2
      <4>2. QED
        BY <1>3, <1>6, <2>1, <4>1
    <3>2. P[k] = Q[k]
      BY <1>4, <1>6, <2>1
    <3>3. QED
      BY <1>1, <3>1, <3>2 DEF Apart
  <2>2. CASE i < j
    <3>1. P[k] + e <= Q[k]
      BY <1>4, <1>5, <1>6, <2>2, Behind
    <3>2. QED
      BY <1>1, <1>2, <1>3, <3>1 DEF Apart
  <2>3. CASE j < i
    <3>1. Q[k] + e <= P[k]
      BY <1>4, <1>5, <1>6, <2>3, Behind
    <3>2. QED
      BY <1>1, <1>2, <1>3, <3>1 DEF Apart
  <2>4. QED
    BY <1>5, <2>1, <2>2, <2>3
<1>7. ASSUME m > 0
      PROVE  /\ p + F[m] <= q => P[k] + e <= Q[k]
             /\ q + F[m] <= p => Q[k] + e <= P[k]
  <2>1. m \in 1 .. d /\ m + 1 = k /\ m \in 1 .. d + 1
    BY <1>1, <1>7
  <2>2. PICK f, b : f = F[m] /\ b = s[m]
    OBVIOUS
  <2>3. f \in Nat \ {0} /\ b \in Nat \ {0} /\ f = b * e
    BY <1>3, <2>1, <2>2 DEF Strides
  <2>4. i < b /\ j < b
    BY <1>3, <2>1, <2>2 DEF IndexOf
  <2>5. ASSUME p + f <= q
        PROVE  P[k] + e <= Q[k]
    BY <1>4, <1>5, <2>3, <2>4, <2>5, StaysBehind
  <2>6. ASSUME q + f <= p
        PROVE  Q[k] + e <= P[k]
    BY <1>4, <1>5, <2>3, <2>4, <2>6, StaysBehind
  <2>7. QED
    BY <2>2, <2>5, <2>6
<1>8. CASE m > 0 /\ p + F[m] <= q
  BY <1>1, <1>2, <1>3, <1>7, <1>8 DEF Apart
<1>9. CASE m > 0 /\ q + F[m] <= p
  BY <1>1, <1>2, <1>3, <1>7, <1>9 DEF Apart
<1>10. QED
  BY <1>3, <1>6, <1>8, <1>9 DEF Apart

\* different indices denote different places
LEMMA PlaceDiffers ==
    ASSUME NEW d \in Nat \ {0}, NEW s, \A k \in 1 .. d : s[k] \in Nat \ {0},
           NEW F, Strides(F, s, d), NEW n \in Nat,
           NEW x, IndexOf(x, s, d, n), NEW y, IndexOf(y, s, d, n),
           Place(F, x) = Place(F, y)
    PROVE  \A k \in 1 .. d + 1 : x[k] = y[k]
<1>1. PICK P : Partial(P, x, F, d)
  BY PartialExists
<1>2. PICK Q : Partial(Q, y, F, d)
  BY PartialExists
<1> DEFINE T == {m \in 0 .. d + 1 : Apart(x, y, P, Q, F, m)}
<1>3. 0 \in T
  <2>1. P[0] = Q[0]
    BY <1>1, <1>2 DEF Partial
  <2>2. Apart(x, y, P, Q, F, 0)
    BY <2>1 DEF Apart
  <2>3. QED
    BY <2>2
<1>4. ASSUME NEW m \in 0 .. (d + 1) - 1, m \in T
      PROVE  m + 1 \in T
  <2>1. m \in 0 .. d /\ Apart(x, y, P, Q, F, m)
    BY <1>4
  <2>2. Apart(x, y, P, Q, F, m + 1)
    BY <1>1, <1>2, <2>1, ApartStep
  <2>3. QED
    BY <2>1, <2>2
<1>5. Apart(x, y, P, Q, F, d + 1)
  <2>1. d + 1 \in T
    <3> HIDE DEF T
    <3>1. d + 1 \in Nat
      OBVIOUS
    <3>2. QED
      BY <1>3, <1>4, <3>1, UpTo
  <2>2. QED
    BY <2>1
<1>6. P[d + 1] = Q[d + 1] /\ P[d + 1] \in Nat /\ F[d + 1] = 1
  <2>1. d + 1 \in 0 .. d + 1
    OBVIOUS
  <2>2. QED
    BY <1>1, <1>2, <2>1 DEF Partial, Strides
<1>7. QED
  BY <1>5, <1>6 DEF Apart

\* how many values an entry has for each that its type counts
EntryValues(F) == IF F = <<>> THEN 1 ELSE F[1]

LEMMA IndexIs ==
    ASSUME NEW s \in Seq(Nat \ {0}), NEW n \in Nat, NEW x \in Indices(s, n)
    PROVE  /\ x = [k \in 1 .. Len(s) + 1 |-> x[k]]
           /\ \A k \in 1 .. Len(s) + 1 : x[k] \in Nat
           /\ x[1] < n /\ \A k \in 1 .. Len(s) : x[k + 1] < s[k]
<1>1. PICK E : E = Max({n} \union Range(s)) - 1
  OBVIOUS
<1>2. x \in [1 .. Len(s) + 1 -> 0 .. E]
  BY <1>1 DEF Indices
<1>3. \A e \in 0 .. E : e \in Nat
  OBVIOUS
<1>4. DOMAIN s = 1 .. Len(s)
  OBVIOUS
<1>5. x[1] < n /\ \A k \in 1 .. Len(s) : x[k + 1] < s[k]
  BY <1>4 DEF Indices
<1>6. QED
  BY <1>2, <1>3, <1>5

LEMMA ImageCardinality ==
    ASSUME NEW S, NEW P, IsFiniteSet(P), NEW f \in [S -> P],
           \A p \in P : \E x \in S : f[x] = p,
           \A x, y \in S : f[x] = f[y] => x = y
    PROVE  Cardinality(P) = Cardinality(S)
<1>1. f \in Bijection(S, P)
  BY DEF Bijection, Injection, Surjection, IsInjective
<1>2. ExistsBijection(S, P)
  BY <1>1 DEF ExistsBijection
<1>3. ExistsBijection(P, S)
  BY <1>2, Fun_ExistsBijSymmetric
<1>4. QED
  BY <1>3, FS_Bijection

\* The places of the indices of an entry are different, and before the end of its values:
\* what indexer::access finds with the offsets of set_offsets.
PlacesFit(F, all, n) ==
    LET places == {Place(F, x) : x \in all}
    IN  /\ Cardinality(places) = Cardinality(all)
        /\ \A p \in places : p \in Nat /\ p + 1 <= EntryValues(F) * n

LEMMA PlacesOf ==
    ASSUME NEW F, NEW S, NEW m \in Nat, NEW n, m = EntryValues(F) * n,
           \A x \in S : Place(F, x) \in Nat /\ Place(F, x) + 1 <= m,
           \A x, y \in S : Place(F, x) = Place(F, y) => x = y
    PROVE  PlacesFit(F, S, n)
<1> DEFINE P == {Place(F, x) : x \in S}
           f == [x \in S |-> Place(F, x)]
<1>1. \A p \in P : p \in Nat /\ p + 1 <= m
  OBVIOUS
<1>2. P \subseteq 0 .. m
  BY <1>1
<1>3. IsFiniteSet(P)
  <2>1. IsFiniteSet(0 .. m)
    BY FS_Interval
  <2> HIDE DEF P
  <2>2. QED
    BY <1>2, <2>1, FS_Subset
<1>4. \A x \in S : f[x] = Place(F, x) /\ f[x] \in P
  OBVIOUS
<1>5. \A p \in P : \E x \in S : f[x] = p
  OBVIOUS
<1>6. f \in [S -> P]
  OBVIOUS
<1>7. \A x, y \in S : f[x] = f[y] => x = y
  BY <1>4
<1> HIDE DEF P
<1> HIDE DEF f
<1>8. Cardinality(P) = Cardinality(S)
  BY ONLY <1>3, <1>5, <1>6, <1>7, ImageCardinality
<1>9. QED
  BY <1>1, <1>8 DEF PlacesFit, P

LEMMA ShapeFits ==
    ASSUME NEW s \in Seq(Nat \ {0}), NEW n \in Nat
    PROVE  EntryValues(Offsets(s)) \in Nat \ {0} /\ PlacesFit(Offsets(s), Indices(s, n), n)
<1>1. CASE s = <<>>
  <2>1. PICK F : F = Offsets(s)
    OBVIOUS
  <2>2. F = <<>>
    BY <1>1, <2>1 DEF Offsets
  <2>3. EntryValues(F) = 1 /\ n = EntryValues(F) * n
    BY <2>2 DEF EntryValues
  <2>4. \A x : Place(F, x) = x[1]
    BY <2>2 DEF Place
  <2>5. Len(s) = 0
    BY <1>1
  <2>6. ASSUME NEW x \in Indices(s, n)
        PROVE  x = [k \in 1 .. 1 |-> x[k]] /\ x[1] \in Nat /\ x[1] + 1 <= n
    <3>1. /\ x = [k \in 1 .. Len(s) + 1 |-> x[k]]
          /\ \A k \in 1 .. Len(s) + 1 : x[k] \in Nat
          /\ x[1] < n
      BY IndexIs
    <3>2. QED
      BY <2>5, <3>1
  <2>7. \A x, y \in Indices(s, n) : x[1] = y[1] => x = y
    <3> SUFFICES ASSUME NEW x \in Indices(s, n), NEW y \in Indices(s, n), x[1] = y[1]
                 PROVE  x = y
      OBVIOUS
    <3>1. x = [k \in 1 .. 1 |-> x[k]] /\ y = [k \in 1 .. 1 |-> y[k]]
      BY <2>6
    <3>2. \A k \in 1 .. 1 : x[k] = y[k]
      OBVIOUS
    <3>3. [k \in 1 .. 1 |-> x[k]] = [k \in 1 .. 1 |-> y[k]]
      BY <3>2
    <3>4. QED
      BY ONLY <3>1, <3>3
  <2>8. PICK S : S = Indices(s, n)
    OBVIOUS
  <2>9. PlacesFit(F, S, n)
    <3>1. \A x \in S : Place(F, x) \in Nat /\ Place(F, x) + 1 <= n
      BY <2>4, <2>6, <2>8
    <3>2. \A x, y \in S : Place(F, x) = Place(F, y) => x = y
      BY <2>4, <2>7, <2>8
    <3>3. QED
      BY ONLY <2>3, <3>1, <3>2, n \in Nat, PlacesOf
  <2>10. QED
    BY <2>1, <2>3, <2>8, <2>9
<1>2. CASE s # <<>>
  <2>1. PICK F, d, S : F = Offsets(s) /\ d = Len(s) /\ S = Indices(s, n)
    OBVIOUS
  <2>2. d \in Nat \ {0} /\ DOMAIN s = 1 .. d /\ \A k \in 1 .. d : s[k] \in Nat \ {0}
    BY <1>2, <2>1
  <2>3. Strides(F, s, d)
    BY <2>1, <2>2, OffsetsAre
  <2>4. F # <<>> /\ F[1] \in Nat \ {0}
    <3>1. F \in Seq(Nat) /\ Len(F) = d + 1 /\ F[1] \in Nat \ {0}
      BY <2>2, <2>3 DEF Strides
    <3>2. QED
      BY <2>2, <3>1
  <2>5. PICK m : m = F[1] * n
    OBVIOUS
  <2>6. m \in Nat /\ EntryValues(F) = F[1]
    <3>1. m \in Nat
      BY <2>4, <2>5, SMTT(30)
    <3>2. QED
      BY <2>4, <3>1 DEF EntryValues
  <2>7. ASSUME NEW x \in S
        PROVE  IndexOf(x, s, d, n) /\ x = [k \in 1 .. d + 1 |-> x[k]]
    BY <2>1, IndexIs DEF IndexOf
  <2>8. ASSUME NEW x \in S
        PROVE  Place(F, x) \in Nat /\ Place(F, x) + 1 <= m
    <3>1. IndexOf(x, s, d, n)
      BY <2>7
    <3>2. PICK Q : Partial(Q, x, F, d)
      BY <2>2, <2>3, <3>1, PartialExists
    <3>3. Place(F, x) \in Nat /\ Place(F, x) + 1 <= F[1] * n
      BY ONLY <2>2, <2>3, <3>1, <3>2, n \in Nat, PlaceBound
    <3>4. QED
      BY <2>5, <3>3
  <2>9. ASSUME NEW x \in S, NEW y \in S, Place(F, x) = Place(F, y)
        PROVE  x = y
    <3>1. IndexOf(x, s, d, n) /\ IndexOf(y, s, d, n)
      BY <2>7
    <3>2. \A k \in 1 .. d + 1 : x[k] = y[k]
      BY ONLY <2>2, <2>3, <2>9, <3>1, n \in Nat, PlaceDiffers
    <3>3. [k \in 1 .. d + 1 |-> x[k]] = [k \in 1 .. d + 1 |-> y[k]]
      BY <3>2
    <3>4. x = [k \in 1 .. d + 1 |-> x[k]] /\ y = [k \in 1 .. d + 1 |-> y[k]]
      BY <2>7
    <3>5. QED
      BY ONLY <3>3, <3>4
  <2>10. PlacesFit(F, S, n)
    <3>1. m = EntryValues(F) * n
      BY <2>5, <2>6
    <3>2. QED
      BY ONLY <2>6, <2>8, <2>9, <3>1, PlacesOf
  <2>11. QED
    BY <2>1, <2>4, <2>6, <2>10
<1>3. QED
  BY <1>1, <1>2

-----------------------------------------------------------------------------
(* What the operations of XpuDataSet do to the fields of a data set.        *)

DataFields == {"exists", "mapped", "size", "prot", "host", "instance",
               "cpu", "gpu", "buffer", "dev", "lost"}
IsDataSet(d) == d = [f \in DataFields |-> d[f]]

\* e is d up to its statuses and the copies of its values
Keeps(d, e) ==
    /\ IsDataSet(e)
    /\ e.exists = d.exists /\ e.mapped = d.mapped
    /\ e.size = d.size /\ e.instance = d.instance

\* an entry that does not exist has no copies, so no device owns one
Idle(d) == ~d.exists => d.cpu = "NOT_ALLOCATED" /\ d.gpu = "NOT_ALLOCATED"

LEMMA KeepsTransitive ==
    ASSUME NEW d, NEW e, NEW f, Keeps(d, e), Keeps(e, f)
    PROVE  Keeps(d, f)
BY DEF Keeps

LEMMA NewDataSetFields ==
    ASSUME NEW exists \in BOOLEAN, NEW n
    PROVE  LET d == NewDataSet(exists, n)
           IN  /\ IsDataSet(d) /\ Idle(d)
               /\ d.exists = exists /\ d.size = n /\ d.instance = FALSE
               /\ d.cpu = "NOT_ALLOCATED" /\ d.gpu = "NOT_ALLOCATED"
               /\ d.buffer = 0 /\ d.lost = FALSE
BY DEF IsDataSet, DataFields, NewDataSet, Idle

LEMMA AllocateFields ==
    ASSUME NEW d, IsDataSet(d)
    PROVE  LET e == AllocateGpuDataPtr(d)
           IN  /\ Keeps(d, e)
               /\ e.cpu = "UP_TO_DATE_WRITE" /\ e.gpu = "OUT_OF_DATE"
               /\ e.buffer = d.size
               /\ d.lost = FALSE /\ d.buffer = 0 => e.lost = FALSE
<1> DEFINE e == AllocateGpuDataPtr(d)
<1>1. /\ Keeps(d, e)
      /\ e.cpu = "UP_TO_DATE_WRITE" /\ e.gpu = "OUT_OF_DATE"
      /\ e.buffer = d.size
      /\ e.lost = (d.lost \/ d.buffer > 0)
  BY DEF IsDataSet, DataFields, Keeps, AllocateGpuDataPtr, BufferOf
<1> HIDE DEF e
<1>2. ASSUME d.lost = FALSE, d.buffer = 0
      PROVE  e.lost = FALSE
  <2>1. (d.lost \/ d.buffer > 0) = FALSE
    BY <1>2
  <2>2. QED
    BY <1>1, <2>1
<1>3. QED
  BY <1>1, <1>2 DEF e

LEMMA DeallocateFields ==
    ASSUME NEW d, IsDataSet(d)
    PROVE  LET e == DeallocateGpuDataPtr(d)
           IN  /\ Keeps(d, e)
               /\ e.lost = d.lost
               /\ e.buffer = IF d.size = 0 THEN d.buffer ELSE 0
BY DEF IsDataSet, DataFields, Keeps, DeallocateGpuDataPtr

LEMMA ResizeGpuFields ==
    ASSUME NEW d, IsDataSet(d)
    PROVE  LET e == ResizeGpuDataPtr(d)
           IN  /\ Keeps(d, e)
               /\ e.cpu = "UP_TO_DATE_WRITE" /\ e.gpu = "OUT_OF_DATE"
               /\ e.buffer = d.size
               /\ d.lost = FALSE /\ (d.size = 0 => d.buffer = 0) => e.lost = FALSE
<1> DEFINE e == DeallocateGpuDataPtr(d)
<1>1. Keeps(d, e) /\ e.lost = d.lost /\ e.buffer = IF d.size = 0 THEN d.buffer ELSE 0
  BY DeallocateFields
<1> HIDE DEF e
<1>2. IsDataSet(e) /\ e.size = d.size
  BY <1>1 DEF Keeps
<1>3. LET f == AllocateGpuDataPtr(e)
      IN  /\ Keeps(e, f)
          /\ f.cpu = "UP_TO_DATE_WRITE" /\ f.gpu = "OUT_OF_DATE"
          /\ f.buffer = e.size
          /\ e.lost = FALSE /\ e.buffer = 0 => f.lost = FALSE
  BY <1>2, AllocateFields
<1>4. ResizeGpuDataPtr(d) = AllocateGpuDataPtr(e)
  BY DEF ResizeGpuDataPtr, e
<1>5. QED
  BY <1>1, <1>2, <1>3, <1>4, KeepsTransitive

LEMMA AllocateInstanceFields ==
    ASSUME NEW d, IsDataSet(d)
    PROVE  LET e == AllocateGpuInstance(d)
           IN  /\ IsDataSet(e)
               /\ e.exists = d.exists /\ e.mapped = d.mapped /\ e.size = d.size
               /\ e.buffer = d.buffer /\ e.lost = d.lost
               /\ d.instance => e = d
               /\ ~d.instance => /\ e.instance = TRUE /\ e.gpu = "NOT_ALLOCATED"
                                 /\ ~d.exists => e.cpu = "NOT_ALLOCATED"
                                 /\ d.exists => e.cpu = "UP_TO_DATE_WRITE"
BY DEF IsDataSet, DataFields, AllocateGpuInstance

\* setup: an entry without a device buffer gets one if it exists
IsSetup(d, e) ==
    /\ IsDataSet(e)
    /\ e.exists = d.exists /\ e.mapped = d.mapped /\ e.size = d.size
    /\ e.instance
    /\ d.exists /\ (~d.instance \/ d.gpu = "NOT_ALLOCATED") =>
          /\ e.cpu = "UP_TO_DATE_WRITE" /\ e.gpu = "OUT_OF_DATE"
          /\ e.buffer = d.size
          /\ d.lost = FALSE /\ d.buffer = 0 => e.lost = FALSE
    /\ ~d.exists /\ ~d.instance =>
          /\ e.cpu = "NOT_ALLOCATED" /\ e.gpu = "NOT_ALLOCATED"
          /\ e.buffer = d.buffer /\ e.lost = d.lost
    /\ d.instance /\ ~(d.exists /\ d.gpu = "NOT_ALLOCATED") => e = d

LEMMA SetupFields ==
    ASSUME NEW d, IsDataSet(d)
    PROVE  IsSetup(d, Setup(d))
<1> DEFINE s == AllocateGpuInstance(d)
<1>1. /\ IsDataSet(s)
      /\ s.exists = d.exists /\ s.mapped = d.mapped /\ s.size = d.size
      /\ s.buffer = d.buffer /\ s.lost = d.lost
      /\ d.instance => s = d
      /\ ~d.instance => /\ s.instance = TRUE /\ s.gpu = "NOT_ALLOCATED"
                        /\ ~d.exists => s.cpu = "NOT_ALLOCATED"
                        /\ d.exists => s.cpu = "UP_TO_DATE_WRITE"
  BY AllocateInstanceFields
<1> HIDE DEF s
<1>2. LET e == AllocateGpuDataPtr(s)
      IN  /\ Keeps(s, e)
          /\ e.cpu = "UP_TO_DATE_WRITE" /\ e.gpu = "OUT_OF_DATE"
          /\ e.buffer = s.size
          /\ s.lost = FALSE /\ s.buffer = 0 => e.lost = FALSE
  BY <1>1, AllocateFields
<1>3. Setup(d) = IF s.exists /\ s.gpu = "NOT_ALLOCATED" THEN AllocateGpuDataPtr(s) ELSE s
  BY DEF Setup, s
<1>4. QED
  BY <1>1, <1>2, <1>3 DEF Keeps, IsSetup

LEMMA CopyFields ==
    ASSUME NEW d, IsDataSet(d), NEW e \in {d, HostToDevice(d), DeviceToHost(d)}
    PROVE  /\ Keeps(d, e)
           /\ e.cpu = d.cpu /\ e.gpu = d.gpu /\ e.buffer = d.buffer /\ e.lost = d.lost
BY DEF IsDataSet, DataFields, Keeps, HostToDevice, DeviceToHost

LEMMA ToGpuStatusFields ==
    ASSUME NEW d, IsDataSet(d), NEW mode
    PROVE  LET e == ProtectMData(ToGpuStatus(d, mode))
           IN  /\ Keeps(d, e) /\ e.buffer = d.buffer /\ e.lost = d.lost
               /\ e.cpu = CpuAfterToGpu(d, mode) /\ e.gpu = GpuAfterToGpu(d, mode)
BY DEF IsDataSet, DataFields, Keeps, ProtectMData, ToGpuStatus

LEMMA ToCpuStatusFields ==
    ASSUME NEW d, IsDataSet(d), NEW mode
    PROVE  LET e == ProtectMData(ToCpuStatus(d, mode))
           IN  /\ Keeps(d, e) /\ e.buffer = d.buffer /\ e.lost = d.lost
               /\ e.cpu = CpuAfterToCpu(d, mode) /\ e.gpu = GpuAfterToCpu(d, mode)
BY DEF IsDataSet, DataFields, Keeps, ProtectMData, ToCpuStatus

\* a transfer to the GPU gives a resized entry a new buffer
IsSentToGpu(d, e) ==
    /\ Keeps(d, e)
    /\ d.gpu = "NOT_ALLOCATED" => e = d
    /\ d.gpu # "NOT_ALLOCATED" =>
          /\ e.gpu \in {"UP_TO_DATE_WRITE", "UP_TO_DATE_READ", "TEMP_WRITE"}
          /\ d.cpu # "NOT_ALLOCATED" => e.cpu # "NOT_ALLOCATED"
    /\ d.gpu # "RESIZED_ON_CPU" => e.buffer = d.buffer /\ e.lost = d.lost
    /\ d.gpu = "RESIZED_ON_CPU" =>
          /\ e.buffer = d.size
          /\ d.lost = FALSE /\ (d.size = 0 => d.buffer = 0) => e.lost = FALSE

LEMMA TransferToGpuFields ==
    ASSUME NEW d, IsDataSet(d), NEW mode \in TransferMode
    PROVE  IsSentToGpu(d, TransferToGpu(d, mode))
<1> DEFINE sized  == IF d.gpu = "RESIZED_ON_CPU" THEN ResizeGpuDataPtr(d) ELSE d
           synced == IF ToGpuPush(d, mode) THEN HostToDevice(sized)
                     ELSE IF ToGpuPull(d, mode) THEN DeviceToHost(sized)
                     ELSE sized
           result == ProtectMData(ToGpuStatus(synced, mode))
<1>1. TransferToGpu(d, mode) = IF d.gpu = "NOT_ALLOCATED" THEN d ELSE result
  BY DEF TransferToGpu
<1>2. /\ Keeps(d, sized)
      /\ d.gpu # "RESIZED_ON_CPU" => sized = d
      /\ d.gpu = "RESIZED_ON_CPU" =>
            /\ sized.cpu = "UP_TO_DATE_WRITE" /\ sized.buffer = d.size
            /\ d.lost = FALSE /\ (d.size = 0 => d.buffer = 0) => sized.lost = FALSE
  BY ResizeGpuFields DEF Keeps
<1>3. synced \in {sized, HostToDevice(sized), DeviceToHost(sized)}
  OBVIOUS
<1> HIDE DEF sized
<1> HIDE DEF synced
<1>4. /\ Keeps(sized, synced)
      /\ synced.cpu = sized.cpu /\ synced.buffer = sized.buffer /\ synced.lost = sized.lost
  BY <1>2, <1>3, CopyFields DEF Keeps
<1>5. /\ Keeps(synced, result)
      /\ result.buffer = synced.buffer /\ result.lost = synced.lost
      /\ result.cpu = CpuAfterToGpu(synced, mode) /\ result.gpu = GpuAfterToGpu(synced, mode)
  BY <1>4, ToGpuStatusFields DEF Keeps
<1>6. /\ GpuAfterToGpu(synced, mode) \in {"UP_TO_DATE_WRITE", "UP_TO_DATE_READ", "TEMP_WRITE"}
      /\ synced.cpu # "NOT_ALLOCATED" => CpuAfterToGpu(synced, mode) # "NOT_ALLOCATED"
  BY DEF GpuAfterToGpu, CpuAfterToGpu, TransferMode
<1>7. Keeps(d, result) /\ Keeps(d, d)
  BY <1>2, <1>4, <1>5, KeepsTransitive DEF Keeps
<1> HIDE DEF result
<1>8. QED
  BY <1>1, <1>2, <1>4, <1>5, <1>6, <1>7 DEF IsSentToGpu

\* A transfer to the CPU makes a new buffer only when it is about to fill it, and
\* otherwise leaves a resized entry resized.
IsSentToCpu(d, e, mode) ==
    /\ Keeps(d, e)
    /\ ~d.instance \/ d.cpu = "NOT_ALLOCATED" => e = d
    /\ d.instance /\ d.cpu # "NOT_ALLOCATED" =>
          /\ e.cpu # "NOT_ALLOCATED"
          /\ d.gpu # "NOT_ALLOCATED" => e.gpu # "NOT_ALLOCATED"
          /\ d.gpu # "RESIZED_ON_CPU" => e.gpu # "RESIZED_ON_CPU"
          /\ mode = "SYNC_AND_MOVE" => e.gpu = "UP_TO_DATE_WRITE"
          /\ mode # "SYNC_AND_MOVE" /\ d.gpu = "RESIZED_ON_CPU" => e.gpu = "RESIZED_ON_CPU"
          /\ mode \notin {"COPY", "SYNC_AND_MOVE"} =>
                e.cpu \in {"UP_TO_DATE_WRITE", "UP_TO_DATE_READ"}
          /\ ~(ToCpuPush(d, mode) /\ d.gpu = "RESIZED_ON_CPU") =>
                e.buffer = d.buffer /\ e.lost = d.lost
          /\ ToCpuPush(d, mode) /\ d.gpu = "RESIZED_ON_CPU" =>
                /\ e.buffer = d.size
                /\ d.lost = FALSE /\ (d.size = 0 => d.buffer = 0) => e.lost = FALSE

LEMMA TransferToCpuFields ==
    ASSUME NEW d, IsDataSet(d), NEW mode \in TransferMode
    PROVE  IsSentToCpu(d, TransferToCpu(d, mode), mode)
<1> DEFINE sizes  == ToCpuPush(d, mode) /\ d.gpu = "RESIZED_ON_CPU"
           sized  == IF sizes THEN ResizeGpuDataPtr(d) ELSE d
           synced == IF ToCpuPull(d, mode) THEN DeviceToHost(sized)
                     ELSE IF ToCpuPush(d, mode) THEN HostToDevice(sized)
                     ELSE sized
           result == ProtectMData(ToCpuStatus(synced, mode))
<1>1. TransferToCpu(d, mode) =
        IF ~d.instance \/ d.cpu = "NOT_ALLOCATED" THEN d ELSE result
  BY DEF TransferToCpu
<1>2. sizes => mode = "SYNC_AND_MOVE"
  BY DEF ToCpuPush
<1>3. /\ Keeps(d, sized)
      /\ ~sizes => sized = d
      /\ sizes => /\ sized.gpu = "OUT_OF_DATE" /\ sized.buffer = d.size
                  /\ d.lost = FALSE /\ (d.size = 0 => d.buffer = 0) => sized.lost = FALSE
  BY ResizeGpuFields DEF Keeps
<1>4. synced \in {sized, HostToDevice(sized), DeviceToHost(sized)}
  OBVIOUS
<1> HIDE DEF sized
<1> HIDE DEF synced
<1>5. /\ Keeps(sized, synced)
      /\ synced.gpu = sized.gpu /\ synced.buffer = sized.buffer /\ synced.lost = sized.lost
  BY <1>3, <1>4, CopyFields DEF Keeps
<1>6. /\ Keeps(synced, result)
      /\ result.buffer = synced.buffer /\ result.lost = synced.lost
      /\ result.cpu = CpuAfterToCpu(synced, mode) /\ result.gpu = GpuAfterToCpu(synced, mode)
  BY <1>5, ToCpuStatusFields DEF Keeps
<1>7. /\ CpuAfterToCpu(synced, mode) # "NOT_ALLOCATED"
      /\ mode \notin {"COPY", "SYNC_AND_MOVE"} =>
            CpuAfterToCpu(synced, mode) \in {"UP_TO_DATE_WRITE", "UP_TO_DATE_READ"}
      /\ synced.gpu # "NOT_ALLOCATED" => GpuAfterToCpu(synced, mode) # "NOT_ALLOCATED"
      /\ synced.gpu # "RESIZED_ON_CPU" => GpuAfterToCpu(synced, mode) # "RESIZED_ON_CPU"
      /\ mode = "SYNC_AND_MOVE" => GpuAfterToCpu(synced, mode) = "UP_TO_DATE_WRITE"
      /\ mode # "SYNC_AND_MOVE" /\ synced.gpu = "RESIZED_ON_CPU" =>
            GpuAfterToCpu(synced, mode) = "RESIZED_ON_CPU"
  BY DEF GpuAfterToCpu, CpuAfterToCpu, TransferMode, UpToDate
<1>8. Keeps(d, result) /\ Keeps(d, d)
  BY <1>3, <1>5, <1>6, KeepsTransitive DEF Keeps
<1> HIDE DEF result
<1>9. QED
  BY <1>1, <1>2, <1>3, <1>5, <1>6, <1>7, <1>8 DEF IsSentToCpu

\* a resize outside of a const operator
ResizeData(d, n) == ResizeInternal(d, n, FALSE)

\* A resize touches neither the device buffer nor an entry without an instance;
\* an instance learns of it.
LEMMA ResizeFields ==
    ASSUME NEW d, IsDataSet(d), NEW n
    PROVE  LET e == ResizeData(d, n) IN
           /\ IsDataSet(e)
           /\ e.exists = d.exists /\ e.instance = d.instance /\ e.size = n
           /\ e.buffer = d.buffer /\ e.lost = d.lost
           /\ d.instance => e.gpu = "RESIZED_ON_CPU" /\ e.cpu = "UP_TO_DATE_WRITE"
           /\ ~d.instance => e.gpu = d.gpu /\ e.cpu = d.cpu
<1> DEFINE old     == IF ResizeFaults(d, n) THEN FaultTransfer(d, FALSE) ELSE d
           resized == IF n > 0 /\ ~d.exists
                      THEN [old EXCEPT !.size = n]
                      ELSE [old EXCEPT !.size = n,
                                       !.mapped = n > 0,
                                       !.prot = "rw",
                                       !.host = IF n > 0 /\ d.mapped THEN @ ELSE Zero]
<1>1. ResizeData(d, n) = SetGpuDataStatusToResized(resized)
  BY DEF ResizeData, ResizeInternal
<1>2. /\ Keeps(d, old) /\ old.buffer = d.buffer /\ old.lost = d.lost
      /\ ~d.instance => old = d
  <2>1. FaultTransfer(d, FALSE) = TransferToCpu(d, "MOVE") /\ "MOVE" \in TransferMode
    BY DEF FaultTransfer, TransferMode
  <2>2. ~ToCpuPush(d, "MOVE")
    BY DEF ToCpuPush
  <2>3. LET e == TransferToCpu(d, "MOVE")
        IN  /\ Keeps(d, e) /\ e.buffer = d.buffer /\ e.lost = d.lost
            /\ ~d.instance => e = d
    <3>1. PICK e, mode : mode = "MOVE" /\ e = TransferToCpu(d, mode)
      OBVIOUS
    <3>2. IsSentToCpu(d, e, mode)
      BY <2>1, <3>1, TransferToCpuFields
    <3>3. Keeps(d, e) /\ e.buffer = d.buffer /\ e.lost = d.lost /\ (~d.instance => e = d)
      BY <2>2, <3>1, <3>2 DEF Keeps, IsSentToCpu
    <3>4. QED
      BY <3>1, <3>3
  <2>4. Keeps(d, d)
    BY DEF Keeps
  <2>5. QED
    BY <2>1, <2>3, <2>4
<1> HIDE DEF old
<1>3. /\ IsDataSet(resized)
      /\ resized.exists = old.exists /\ resized.instance = old.instance /\ resized.size = n
      /\ resized.buffer = old.buffer /\ resized.lost = old.lost
      /\ resized.cpu = old.cpu /\ resized.gpu = old.gpu
  BY <1>2 DEF Keeps, IsDataSet, DataFields
<1> HIDE DEF resized
<1> DEFINE e == ResizeData(d, n)
<1>4. /\ IsDataSet(e)
      /\ e.exists = resized.exists /\ e.instance = resized.instance
      /\ e.size = resized.size
      /\ e.buffer = resized.buffer /\ e.lost = resized.lost
      /\ resized.instance => e.gpu = "RESIZED_ON_CPU" /\ e.cpu = "UP_TO_DATE_WRITE"
      /\ ~resized.instance => e = resized
  BY <1>1, <1>3 DEF SetGpuDataStatusToResized, IsDataSet, DataFields
<1>5. QED
  BY <1>1, <1>2, <1>3, <1>4 DEF Keeps

-----------------------------------------------------------------------------
(* What they do to the fields of an entry.                                  *)

EntryFields == {"type", "name", "pod", "shape", "d", "offsets", "bytes", "alloc",
                "devBytes", "devOffsets"}
IsEntry(o) == o = [f \in EntryFields |-> o[f]] /\ IsDataSet(o.d)

\* p is the same entry as o, and exists if o does
SameEntry(o, p) ==
    /\ IsEntry(p)
    /\ p.type = o.type /\ p.name = o.name /\ p.pod = o.pod /\ p.shape = o.shape
    /\ p.d.exists = o.d.exists

\* the layout of p on both devices is that of o
SameLayout(o, p) ==
    /\ p.offsets = o.offsets /\ p.bytes = o.bytes
    /\ p.devOffsets = o.devOffsets /\ p.devBytes = o.devBytes

\* the bytes of an entry as it is laid out before any resize
LaidBytes(pod, offsets, size) ==
    EntryValues(offsets) * size * ElementBytes(pod)

\* what is known of an entry the constructor made
IsNew(p, c, size, unresolved) ==
    /\ IsEntry(p) /\ Idle(p.d)
    /\ p.type = c.type /\ p.name = c.name /\ p.pod = c.pod /\ p.shape = c.shape
    /\ unresolved => p.d.exists = FALSE
    /\ ~unresolved => p.d.exists = TRUE
    /\ p.d.size = size /\ p.d.instance = FALSE
    /\ p.d.cpu = "NOT_ALLOCATED" /\ p.d.gpu = "NOT_ALLOCATED"
    /\ p.d.buffer = 0 /\ p.d.lost = FALSE
    /\ p.devOffsets = <<>>
    /\ unresolved => p.offsets = <<>>
    /\ ~unresolved => p.offsets = Offsets(c.shape)
    /\ ~unresolved => p.bytes = LaidBytes(c.pod, Offsets(c.shape), size)
    /\ p.d.mapped => p.alloc = p.bytes

LEMMA NewEntryFields ==
    ASSUME NEW c, NEW size, NEW unresolved \in BOOLEAN, NEW allocate_mem \in BOOLEAN
    PROVE  IsNew(NewEntry(c, size, unresolved, allocate_mem), c, size, unresolved)
<1> DEFINE new == NewDataSet(~unresolved, size)
           d == [new EXCEPT !.mapped = @ /\ allocate_mem]
           o == [type |-> c.type, name |-> c.name, pod |-> c.pod, shape |-> c.shape,
                 d |-> d, offsets |-> <<>>, bytes |-> 0, alloc |-> 0,
                 devBytes |-> 0, devOffsets |-> <<>>]
           laid == IF unresolved THEN o ELSE SetOffsets(o, c.shape)
<1>1. /\ IsDataSet(new) /\ Idle(new)
      /\ new.exists = ~unresolved /\ new.size = size /\ new.instance = FALSE
      /\ new.cpu = "NOT_ALLOCATED" /\ new.gpu = "NOT_ALLOCATED"
      /\ new.buffer = 0 /\ new.lost = FALSE
  BY NewDataSetFields
<1> HIDE DEF new
<1>2. /\ IsDataSet(d) /\ Idle(d)
      /\ d.exists = ~unresolved /\ d.size = size /\ d.instance = FALSE
      /\ d.cpu = "NOT_ALLOCATED" /\ d.gpu = "NOT_ALLOCATED"
      /\ d.buffer = 0 /\ d.lost = FALSE
  BY <1>1 DEF IsDataSet, DataFields, Idle
<1> HIDE DEF d
<1>3. /\ o = [f \in EntryFields |-> o[f]] /\ o.d = d
      /\ o.type = c.type /\ o.name = c.name /\ o.pod = c.pod /\ o.shape = c.shape
      /\ o.devOffsets = <<>> /\ o.offsets = <<>>
  BY DEF EntryFields
<1> HIDE DEF o
<1>4. /\ laid = [f \in EntryFields |-> laid[f]] /\ laid.d = d
      /\ laid.type = c.type /\ laid.name = c.name /\ laid.pod = c.pod
      /\ laid.shape = c.shape
      /\ laid.devOffsets = <<>>
      /\ unresolved => laid.offsets = <<>>
      /\ ~unresolved => laid.offsets = Offsets(c.shape)
      /\ ~unresolved => laid.bytes = LaidBytes(c.pod, Offsets(c.shape), size)
  <2>1. CASE unresolved
    BY <1>3, <2>1
  <2>2. CASE ~unresolved
    <3>1. laid = [o EXCEPT !.offsets = Offsets(c.shape),
                           !.bytes = LaidBytes(c.pod, Offsets(c.shape), size)]
      BY <1>2, <1>3, <2>2 DEF SetOffsets, LaidBytes, EntryValues
    <3>2. QED
      BY <1>3, <2>2, <3>1 DEF EntryFields
  <2>3. QED
    BY <2>1, <2>2
<1> HIDE DEF laid
<1>5. (unresolved => d.exists = FALSE) /\ (~unresolved => d.exists = TRUE)
  BY <1>2
<1>6. NewEntry(c, size, unresolved, allocate_mem)
        = [laid EXCEPT !.alloc = IF o.d.mapped THEN laid.bytes ELSE 0]
  BY DEF NewEntry, new, d, o, laid
<1>7. QED
  BY <1>2, <1>3, <1>4, <1>5, <1>6 DEF IsEntry, EntryFields, IsNew

LEMMA ResizeEntryFields ==
    ASSUME NEW o, IsEntry(o), NEW n
    PROVE  LET p == ResizeEntry(o, n)
           IN  /\ SameEntry(o, p)
               /\ p.d = ResizeData(o.d, n)
               /\ p.bytes = ResizedBytes(o, n)
               /\ o.d.exists => p.alloc = p.bytes
               /\ p.offsets = o.offsets
               /\ p.devOffsets = o.devOffsets /\ p.devBytes = o.devBytes
<1> DEFINE d == ResizeData(o.d, n)
<1>1. IsDataSet(d) /\ d.exists = o.d.exists
  BY ResizeFields DEF IsEntry
<1> HIDE DEF d
<1>2. ResizeEntry(o, n) = [o EXCEPT !.d = d, !.bytes = ResizedBytes(o, n),
          !.alloc = IF o.d.exists \/ n = 0 THEN ResizedBytes(o, n) ELSE @]
  BY DEF ResizeEntry, ResizeData, d
<1>3. QED
  BY <1>1, <1>2 DEF IsEntry, SameEntry, EntryFields, d

LEMMA SetupEntryFields ==
    ASSUME NEW o, IsEntry(o)
    PROVE  LET p == SetupEntry(o)
           IN  /\ SameEntry(o, p) /\ p.alloc = o.alloc
               /\ p.d = Setup(o.d)
               /\ p.d.gpu = o.d.gpu => SameLayout(o, p)
               /\ p.d.gpu # o.d.gpu =>
                     /\ p.offsets = o.offsets /\ p.bytes = o.bytes
                     /\ p.devOffsets = o.offsets /\ p.devBytes = o.bytes
<1> DEFINE d == Setup(o.d)
           s == [o EXCEPT !.d = d]
<1>1. IsDataSet(d) /\ d.exists = o.d.exists
  BY SetupFields DEF IsEntry, IsSetup
<1> HIDE DEF d
<1>2. SetupEntry(o) = IF s.d.gpu # o.d.gpu THEN SetDeviceOffsets([s EXCEPT !.devBytes = o.bytes])
                      ELSE s
  BY DEF SetupEntry, d
<1>3. SameEntry(o, s) /\ SameLayout(o, s) /\ s.d = d /\ s.alloc = o.alloc
  BY <1>1 DEF IsEntry, SameEntry, SameLayout, EntryFields
<1> HIDE DEF s
<1>4. LET p == SetDeviceOffsets([s EXCEPT !.devBytes = o.bytes])
      IN  /\ SameEntry(s, p) /\ p.d = s.d /\ p.alloc = s.alloc
          /\ p.offsets = s.offsets /\ p.bytes = s.bytes
          /\ p.devOffsets = s.offsets /\ p.devBytes = o.bytes
  BY <1>3 DEF IsEntry, SameEntry, EntryFields, SetDeviceOffsets
<1>5. QED
  BY <1>2, <1>3, <1>4 DEF SameEntry, SameLayout, d

LEMMA TransferredFields ==
    ASSUME NEW o, IsEntry(o), NEW d, Keeps(o.d, d)
    PROVE  LET p == Transferred(o, d)
           IN  /\ SameEntry(o, p) /\ p.d = d /\ p.alloc = o.alloc
               /\ p.offsets = o.offsets /\ p.bytes = o.bytes /\ p.devOffsets = o.devOffsets
               /\ p.devBytes = IF o.d.gpu = "RESIZED_ON_CPU" /\ d.gpu # "RESIZED_ON_CPU"
                               THEN o.bytes ELSE o.devBytes
BY DEF IsEntry, SameEntry, EntryFields, Keeps, Transferred

LEMMA DeallocatedFields ==
    ASSUME NEW o, IsEntry(o)
    PROVE  LET p == [o EXCEPT !.d.mapped = FALSE, !.alloc = 0]
           IN  /\ SameEntry(o, p) /\ SameLayout(o, p) /\ p.d.mapped = FALSE
               /\ p.d.size = o.d.size /\ p.d.instance = o.d.instance
               /\ p.d.cpu = o.d.cpu /\ p.d.gpu = o.d.gpu
               /\ p.d.buffer = o.d.buffer /\ p.d.lost = o.d.lost
BY DEF IsEntry, SameEntry, SameLayout, EntryFields, IsDataSet, DataFields

\* an entry that was only retrieved, once it is registered with this shape
Resolution(o, shape) == Resolved(SetOffsets([o EXCEPT !.d.exists = TRUE], shape))

IsResolved(o, p, shape) ==
    /\ IsEntry(p)
    /\ p.type = o.type /\ p.name = o.name /\ p.pod = o.pod /\ p.shape = o.shape
    /\ p.d.exists = TRUE /\ p.d.instance = o.d.instance
    /\ p.d.size = o.d.size
    /\ p.d.buffer = o.d.buffer /\ p.d.lost = o.d.lost
    /\ o.d.instance => p.d.gpu = "RESIZED_ON_CPU" /\ p.d.cpu = "UP_TO_DATE_WRITE"
    /\ ~o.d.instance => p.d.gpu = o.d.gpu /\ p.d.cpu = o.d.cpu
    /\ p.offsets = Offsets(shape)
    /\ p.bytes = ResizedBytes(p, o.d.size) /\ p.alloc = p.bytes
    /\ p.devOffsets = o.devOffsets /\ p.devBytes = o.devBytes

LEMMA ResolvedFields ==
    ASSUME NEW o, IsEntry(o), NEW shape
    PROVE  IsResolved(o, Resolution(o, shape), shape)
<1> DEFINE e == [o EXCEPT !.d.exists = TRUE]
           q == SetOffsets(e, shape)
           p == Resolved(q)
<1>1. /\ IsEntry(e)
      /\ e.type = o.type /\ e.name = o.name /\ e.pod = o.pod /\ e.shape = o.shape
      /\ e.d.exists = TRUE /\ e.d.instance = o.d.instance /\ e.d.size = o.d.size
      /\ e.d.buffer = o.d.buffer /\ e.d.lost = o.d.lost
      /\ e.d.cpu = o.d.cpu /\ e.d.gpu = o.d.gpu
      /\ e.devOffsets = o.devOffsets /\ e.devBytes = o.devBytes
  BY DEF IsEntry, EntryFields, IsDataSet, DataFields
<1> HIDE DEF e
<1>2. /\ SameEntry(e, q) /\ q.d = e.d /\ q.offsets = Offsets(shape)
      /\ q.devOffsets = e.devOffsets /\ q.devBytes = e.devBytes
  BY <1>1 DEF IsEntry, SameEntry, EntryFields, SetOffsets
<1> HIDE DEF q
<1>3. /\ SameEntry(q, p)
      /\ p.d = ResizeData(q.d, q.d.size)
      /\ p.bytes = ResizedBytes(q, q.d.size) /\ p.alloc = p.bytes
      /\ p.offsets = q.offsets
      /\ p.devOffsets = q.devOffsets /\ p.devBytes = q.devBytes
  BY <1>1, <1>2, ResizeEntryFields DEF Resolved, SameEntry
<1>4. /\ IsDataSet(p.d)
      /\ p.d.exists = q.d.exists /\ p.d.instance = q.d.instance /\ p.d.size = q.d.size
      /\ p.d.buffer = q.d.buffer /\ p.d.lost = q.d.lost
      /\ q.d.instance => p.d.gpu = "RESIZED_ON_CPU" /\ p.d.cpu = "UP_TO_DATE_WRITE"
      /\ ~q.d.instance => p.d.gpu = q.d.gpu /\ p.d.cpu = q.d.cpu
  BY <1>2, <1>3, ResizeFields DEF SameEntry, IsEntry
<1> HIDE DEF p
<1>5. QED
  <2>1. ResizedBytes(q, q.d.size) = ResizedBytes(p, o.d.size)
    BY <1>1, <1>2, <1>3 DEF ResizedBytes, SameEntry
  <2>2. QED
    BY <1>1, <1>2, <1>3, <1>4, <2>1 DEF SameEntry, Resolution, IsResolved, q, p, e

-----------------------------------------------------------------------------
(* The two tables.                                                         *)

NamesIn(data, unresolved, T) == DOMAIN data[T] \union DOMAIN unresolved[T]
IdIn(data, unresolved, T, name) ==
    IF name \in DOMAIN data[T] THEN data[T][name] ELSE unresolved[T][name]
Names(T) == NamesIn(m_data, m_unresolved_data, T)
IdOf(T, name) == IdIn(m_data, m_unresolved_data, T, name)

\* each name of a type is in one of the tables, with an entry of that type and
\* name that exists if the table says so; each entry and each reference is there
Tables ==
    /\ DOMAIN m_data = StorageTypes /\ DOMAIN m_unresolved_data = StorageTypes
    /\ \A T \in StorageTypes : DOMAIN m_data[T] \intersect DOMAIN m_unresolved_data[T] = {}
    /\ \A T \in StorageTypes : \A name \in Names(T) :
          LET o == heap[IdOf(T, name)]
          IN  /\ IdOf(T, name) \in DOMAIN heap
              /\ o.type = T /\ o.name = name
              /\ name \in DOMAIN m_data[T] => o.d.exists = TRUE
              /\ name \notin DOMAIN m_data[T] => o.d.exists = FALSE
    /\ \A id \in DOMAIN heap :
          LET o == heap[id]
          IN  /\ o.type \in StorageTypes /\ o.name \in Names(o.type)
              /\ IdOf(o.type, o.name) = id
    /\ \A h \in handles :
          /\ h.type \in StorageTypes /\ h.name \in Names(h.type)
          /\ h.id = IdOf(h.type, h.name)

Heap ==
    /\ heap \in Seq(Range(heap))
    /\ \A id \in DOMAIN heap : IsEntry(heap[id])

LEMMA SequenceOf ==
    ASSUME NEW s, NEW n \in Nat, DOMAIN s = 1 .. n, s = [i \in 1 .. n |-> s[i]]
    PROVE  s \in Seq(Range(s)) /\ Len(s) = n
<1>1. s \in [1 .. n -> Range(s)]
  BY DEF Range
<1>2. s \in Seq(Range(s))
  BY <1>1
<1>3. QED
  BY <1>2

LEMMA AppendFacts ==
    ASSUME NEW s, s \in Seq(Range(s)), NEW e
    PROVE  LET t == Append(s, e)
           IN  /\ t \in Seq(Range(t))
               /\ Len(s) \in Nat
               /\ DOMAIN s = 1 .. Len(s) /\ DOMAIN t = 1 .. Len(s) + 1
               /\ \A i \in DOMAIN s : t[i] = s[i]
               /\ t[Len(s) + 1] = e
<1> DEFINE S == Range(s) \union {e}
           t == Append(s, e)
<1>1. s \in [1 .. Len(s) -> S] /\ Len(s) \in Nat /\ DOMAIN s = 1 .. Len(s) /\ e \in S
  BY DEF Range
<1> HIDE DEF S
<1>2. /\ t \in Seq(S) /\ Len(t) = Len(s) + 1
      /\ DOMAIN t = 1 .. Len(s) + 1
      /\ \A i \in DOMAIN s : t[i] = s[i]
      /\ t[Len(s) + 1] = e
  <2>1. s \in Seq(S)
    BY <1>1
  <2>2. QED
    BY <1>1, <2>1
<1> HIDE DEF t
<1>3. t = [i \in 1 .. Len(s) + 1 |-> t[i]]
  <2>1. t \in [1 .. Len(t) -> S]
    BY <1>2
  <2>2. QED
    BY <1>2, <2>1
<1>4. t \in Seq(Range(t))
  BY <1>1, <1>2, <1>3, SequenceOf
<1>5. QED
  BY <1>1, <1>2, <1>4 DEF t

\* operations on entries in place leave the tables right
LEMMA InPlace ==
    ASSUME Tables, Heap,
           UNCHANGED <<m_data, m_unresolved_data, handles>>,
           heap' = [id \in DOMAIN heap |-> heap'[id]],
           \A id \in DOMAIN heap : SameEntry(heap[id], heap'[id])
    PROVE  Tables' /\ Heap'
<1>1. DOMAIN heap' = DOMAIN heap
  OBVIOUS
<1>2. Heap'
  <2>1. PICK n \in Nat : DOMAIN heap = 1 .. n
    BY DEF Heap
  <2>2. heap' \in Seq(Range(heap'))
    BY <1>1, <2>1, SequenceOf
  <2>3. QED
    BY <1>1, <2>2 DEF Heap, SameEntry
<1>3. Tables'
  BY <1>1 DEF Tables, SameEntry, Names, NamesIn, IdOf, IdIn
<1>4. QED
  BY <1>2, <1>3

-----------------------------------------------------------------------------
(* The operations on an entry in place.                                     *)

\* a resize, to a size of the program's or to the bytes allocate_memory passes
Resizes(o, p) ==
    \E n :
        /\ \/ n \in 0 .. MaxSize
           \/ /\ n = o.bytes /\ o.d.exists
              /\ "allocate_bytes" \notin Waived => o.pod = "UINT8" /\ o.shape = <<>>
        /\ MayResize(o, n)
        /\ p = ResizeEntry(o, n)

\* the setup of a kernel argument, and a transfer after it or without it
Moves(o, p) ==
    LET s == SetupEntry(o)
    IN  /\ MayMove(o)
        /\ \/ p = s
           \/ \E mode \in Modes : p = Transferred(s, TransferToGpu(s.d, mode))
           \/ \E mode \in Modes :
                  /\ o.d.instance => MayCopy(mode, o.d.gpu)
                  /\ p = Transferred(o, TransferToCpu(o.d, mode))

Frees(o, p) == p = [o EXCEPT !.d.mapped = FALSE, !.alloc = 0]

EntryStep(o, p) == p = o \/ Resizes(o, p) \/ Moves(o, p) \/ Frees(o, p)

\* every step leaves the entries that are in the heap alone or is one of these,
\* but for the resolving of an entry, the creation of one, and the end
InPlaceStep ==
    /\ UNCHANGED <<m_data, m_unresolved_data, handles>>
    /\ heap' = [id \in DOMAIN heap |-> heap'[id]]
    /\ \A id \in DOMAIN heap : EntryStep(heap[id], heap'[id])

\* the entry c was retrieved before and is registered now
Resolve(c) ==
    LET id == m_unresolved_data[c.type][c.name]
        o == [heap[id] EXCEPT !.d.exists = TRUE]
    IN  /\ c.name \in DOMAIN m_unresolved_data[c.type]
        /\ "multi_dim" \notin Waived /\ c.shape # <<>> => heap[id].d.size = 0
        /\ heap[id].pod = c.pod
        /\ heap' = [heap EXCEPT ![id] = Resolved(SetOffsets(o, c.shape))]
        /\ m_unresolved_data' =
               [m_unresolved_data EXCEPT ![c.type] = Restrict(@, DOMAIN @ \ {c.name})]
        /\ m_data' = Inserted(m_data, c, id)
        /\ handles' = handles \union {Handle(c, id)}

\* an entry c is made under a name that has none
Create(c) ==
    /\ c.name \notin Names(c.type)
    /\ \E allocate_mem, unresolved \in BOOLEAN : CreateEntry(c, allocate_mem, unresolved)

\* another reference to an entry
Refer(c) ==
    /\ c.name \in Names(c.type)
    /\ handles' = handles \union {Handle(c, IdOf(c.type, c.name))}
    /\ UNCHANGED <<m_data, m_unresolved_data, heap>>

LEMMA EntryStepFields ==
    ASSUME NEW o, IsEntry(o), NEW p, EntryStep(o, p)
    PROVE  SameEntry(o, p)
<1>1. CASE p = o
  BY <1>1 DEF SameEntry
<1>2. CASE Resizes(o, p)
  BY <1>2, ResizeEntryFields DEF Resizes
<1>3. CASE Moves(o, p)
  <2> DEFINE s == SetupEntry(o)
  <2>1. SameEntry(o, s)
    BY SetupEntryFields
  <2> HIDE DEF s
  <2>2. CASE p = s
    BY <2>1, <2>2
  <2>3. ASSUME NEW mode \in Modes, p = Transferred(s, TransferToGpu(s.d, mode))
        PROVE  SameEntry(o, p)
    <3>1. Keeps(s.d, TransferToGpu(s.d, mode))
      BY <2>1, TransferToGpuFields, ModesAssumption DEF SameEntry, IsEntry, IsSentToGpu
    <3>2. SameEntry(s, p)
      BY <2>1, <2>3, <3>1, TransferredFields DEF SameEntry
    <3>3. QED
      BY <2>1, <3>2 DEF SameEntry
  <2>4. ASSUME NEW mode \in Modes, p = Transferred(o, TransferToCpu(o.d, mode))
        PROVE  SameEntry(o, p)
    <3>1. Keeps(o.d, TransferToCpu(o.d, mode))
      BY TransferToCpuFields, ModesAssumption DEF IsEntry, IsSentToCpu
    <3>2. QED
      BY <2>4, <3>1, TransferredFields
  <2>5. QED
    BY <1>3, <2>2, <2>3, <2>4 DEF Moves, s
<1>4. CASE Frees(o, p)
  BY <1>4, DeallocatedFields DEF Frees
<1>5. QED
  BY <1>1, <1>2, <1>3, <1>4 DEF EntryStep

LEMMA InPlaceTables ==
    ASSUME Tables, Heap, InPlaceStep
    PROVE  Tables' /\ Heap'
BY InPlace, EntryStepFields DEF InPlaceStep, Heap

\* what an update of one entry is
LEMMA UpdateInPlace ==
    ASSUME Tables, Heap, NEW h \in handles, NEW o, EntryStep(heap[h.id], o),
           heap' = [heap EXCEPT ![h.id] = o],
           UNCHANGED <<m_data, m_unresolved_data, handles>>
    PROVE  InPlaceStep
<1>1. heap' = [id \in DOMAIN heap |-> heap'[id]]
  OBVIOUS
<1>2. \A id \in DOMAIN heap : EntryStep(heap[id], heap'[id])
  BY DEF EntryStep
<1>3. QED
  BY <1>1, <1>2 DEF InPlaceStep

LEMMA RegisterKinds ==
    ASSUME Tables, Heap, NEW c \in Declarations, NEW allocate_mem \in BOOLEAN,
           RegisterEntry(c, allocate_mem)
    PROVE  \/ Resolve(c) /\ phase' = phase
           \/ Create(c) /\ phase' = phase
           \/ InPlaceStep /\ phase' = "aborted"
<1> DEFINE id == m_unresolved_data[c.type][c.name]
           waiting == c.name \in DOMAIN m_unresolved_data[c.type]
           known == c.name \in DOMAIN m_data[c.type]
<1>1. CASE waiting /\ heap[id].pod = c.pod
  BY <1>1 DEF RegisterEntry, Resolve
<1>2. CASE ~(waiting /\ heap[id].pod = c.pod) /\ (waiting \/ known)
  <2>1. Abort
    BY <1>2 DEF RegisterEntry
  <2>2. QED
    BY <2>1 DEF Abort, InPlaceStep, EntryStep, Heap
<1>3. CASE ~waiting /\ ~known
  <2>1. CreateEntry(c, allocate_mem, FALSE)
    BY <1>3 DEF RegisterEntry
  <2>2. c.name \notin Names(c.type)
    BY <1>3 DEF Names, NamesIn
  <2>3. phase' = phase
    BY <2>1 DEF CreateEntry
  <2>4. QED
    BY <2>1, <2>2, <2>3 DEF Create
<1>4. QED
  BY <1>1, <1>2, <1>3

LEMMA RetrieveKinds ==
    ASSUME Tables, Heap, NEW c \in Declarations, RetrieveEntry(c)
    PROVE  \/ Create(c) /\ phase' = phase
           \/ Refer(c) /\ phase' = phase
           \/ InPlaceStep /\ phase' = "aborted"
<1>1. CASE Found(c) = {}
  <2>1. CreateEntry(c, FALSE, TRUE)
    BY <1>1 DEF RetrieveEntry
  <2>2. c.name \notin Names(c.type)
    BY <1>1 DEF Found, Names, NamesIn
  <2>3. phase' = phase
    BY <2>1 DEF CreateEntry
  <2>4. QED
    BY <2>1, <2>2, <2>3 DEF Create
<1>2. CASE Found(c) # {}
  <2>1. PICK id \in Found(c) :
               IF heap[id].pod # c.pod THEN Abort
               ELSE /\ handles' = handles \union {Handle(c, id)}
                    /\ UNCHANGED <<m_num_elements, m_data, m_unresolved_data, heap, phase>>
    BY <1>2 DEF RetrieveEntry
  <2>2. id = IdOf(c.type, c.name) /\ c.name \in Names(c.type)
    BY <1>2 DEF Found, IdOf, IdIn, Names, NamesIn
  <2>3. CASE heap[id].pod # c.pod
    BY <2>1, <2>3 DEF Abort, InPlaceStep, EntryStep, Heap
  <2>4. CASE heap[id].pod = c.pod
    BY <2>1, <2>2, <2>4 DEF Refer
  <2>5. QED
    BY <2>3, <2>4
<1>3. QED
  BY <1>1, <1>2

LEMMA ResizeKinds ==
    ASSUME Tables, Heap, NEW T, NEW n \in 0 .. MaxSize, Resize(T, n)
    PROVE  InPlaceStep /\ phase' = phase
<1>1. heap' = [id \in DOMAIN heap |->
                  IF id \in Visited(T) THEN ResizeEntry(heap[id], n) ELSE heap[id]]
  BY DEF Resize
<1>2. heap' = [id \in DOMAIN heap |-> heap'[id]]
  BY <1>1
<1>3. ASSUME NEW id \in DOMAIN heap
      PROVE  EntryStep(heap[id], heap'[id])
  <2>1. CASE id \in Visited(T)
    <3>1. MayResize(heap[id], n)
      BY <2>1 DEF Resize
    <3>2. heap'[id] = ResizeEntry(heap[id], n)
      BY <1>1, <2>1
    <3>3. QED
      BY <3>1, <3>2 DEF EntryStep, Resizes
  <2>2. CASE id \notin Visited(T)
    BY <1>1, <2>2 DEF EntryStep
  <2>3. QED
    BY <2>1, <2>2
<1>4. QED
  BY <1>2, <1>3 DEF Resize, InPlaceStep

LEMMA HandleKinds ==
    ASSUME Tables, Heap, NEW h \in handles,
           \/ \E n \in 0 .. MaxSize : ResizeVector(h, n)
           \/ AllocateMemory(h) \/ DeallocateMemory(h)
           \/ SetupArgument(h)
           \/ \E mode \in Modes : MoveToGpu(h, mode) \/ MoveToCpu(h, mode)
    PROVE  /\ InPlaceStep
           /\ phase' \in {phase, "aborted", "failed"}
<1> DEFINE o == heap[h.id]
<1>1. \/ \E p : EntryStep(o, p) /\ Update(h.id, p)
      \/ Abort \/ Fail
  <2>1. CASE \E n \in 0 .. MaxSize : ResizeVector(h, n)
    BY <2>1 DEF ResizeVector, EntryStep, Resizes
  <2>2. CASE AllocateMemory(h)
    BY <2>2 DEF AllocateMemory, EntryStep, Resizes
  <2>3. CASE DeallocateMemory(h)
    BY <2>3 DEF DeallocateMemory, EntryStep, Frees
  <2>4. CASE SetupArgument(h)
    BY <2>4 DEF SetupArgument, EntryStep, Moves
  <2>5. ASSUME NEW mode \in Modes, MoveToGpu(h, mode)
        PROVE  Fail \/ \E p : EntryStep(o, p) /\ Update(h.id, p)
    BY <2>5 DEF MoveToGpu, EntryStep, Moves
  <2>6. ASSUME NEW mode \in Modes, MoveToCpu(h, mode)
        PROVE  Fail \/ \E p : EntryStep(o, p) /\ Update(h.id, p)
    BY <2>6 DEF MoveToCpu, EntryStep, Moves
  <2>7. QED
    BY <2>1, <2>2, <2>3, <2>4, <2>5, <2>6
<1>2. CASE \E p : EntryStep(o, p) /\ Update(h.id, p)
  BY <1>2, UpdateInPlace DEF Update
<1>3. CASE Abort \/ Fail
  BY <1>3 DEF Abort, Fail, InPlaceStep, EntryStep, Heap
<1>4. QED
  BY <1>1, <1>2, <1>3

LEMMA StepKinds ==
    ASSUME Tables, Heap, Running, [Next]_vars
    PROVE  \/ InPlaceStep /\ phase' \in {"run", "aborted", "failed"}
           \/ \E c \in Declarations : (Resolve(c) \/ Create(c) \/ Refer(c)) /\ phase' = "run"
           \/ ClearEntries
<1>1. phase = "run"
  BY DEF Running
<1>2. CASE UNCHANGED vars
  BY <1>1, <1>2 DEF vars, InPlaceStep, EntryStep, Heap
<1>3. ASSUME NEW c \in Declarations, NEW allocate_mem \in BOOLEAN,
             RegisterEntry(c, allocate_mem)
      PROVE  \/ (Resolve(c) \/ Create(c)) /\ phase' = "run"
             \/ InPlaceStep /\ phase' = "aborted"
  BY <1>1, <1>3, RegisterKinds
<1>4. ASSUME NEW c \in Declarations, RetrieveEntry(c)
      PROVE  \/ (Create(c) \/ Refer(c)) /\ phase' = "run"
             \/ InPlaceStep /\ phase' = "aborted"
  BY <1>1, <1>4, RetrieveKinds
<1>5. ASSUME NEW T \in {c.type : c \in Declarations}, NEW n \in 0 .. MaxSize, Resize(T, n)
      PROVE  InPlaceStep /\ phase' = "run"
  BY <1>1, <1>5, ResizeKinds
<1>6. ASSUME NEW h \in handles,
             \/ \E n \in 0 .. MaxSize : ResizeVector(h, n)
             \/ AllocateMemory(h) \/ DeallocateMemory(h)
             \/ SetupArgument(h)
             \/ \E mode \in Modes : MoveToGpu(h, mode) \/ MoveToCpu(h, mode)
      PROVE  InPlaceStep /\ phase' \in {"run", "aborted", "failed"}
  BY <1>1, <1>6, HandleKinds
<1>7. ~Ended
  BY DEF Ended
<1>8. QED
  BY <1>2, <1>3, <1>4, <1>5, <1>6, <1>7 DEF Next

-----------------------------------------------------------------------------
(* The tables stay right.                                                   *)

\* only the entry of the name changes tables
LEMMA ResolveTables ==
    ASSUME Tables, Heap, NEW c \in Declarations, Resolve(c)
    PROVE  Tables' /\ Heap'
<1> DEFINE T == c.type
           id == m_unresolved_data[T][c.name]
<1>1. T \in StorageTypes
  BY DeclarationsAssumption
<1>2. /\ c.name \in DOMAIN m_unresolved_data[T] /\ c.name \notin DOMAIN m_data[T]
      /\ c.name \in Names(T) /\ IdOf(T, c.name) = id
  BY <1>1 DEF Resolve, Tables, Names, NamesIn, IdOf, IdIn
<1> HIDE DEF id
<1>3. /\ id \in DOMAIN heap /\ IsEntry(heap[id])
      /\ heap[id].type = T /\ heap[id].name = c.name
  BY <1>1, <1>2 DEF Tables, Heap
<1>4. PICK old, new, shape :
          old = heap[id] /\ shape = c.shape /\ new = Resolution(old, shape)
  OBVIOUS
<1>5. /\ IsEntry(new) /\ new.type = T /\ new.name = c.name /\ new.d.exists = TRUE
  <2>1. IsEntry(old) /\ old.type = T /\ old.name = c.name
    BY <1>3, <1>4, Zenon
  <2>2. IsResolved(old, new, shape)
    BY <1>4, <2>1, ResolvedFields
  <2>3. IsEntry(new) /\ new.type = old.type /\ new.name = old.name /\ new.d.exists = TRUE
    BY <2>2 DEF IsResolved
  <2>4. QED
    BY <2>1, <2>3, Zenon
<1>6. heap' = [heap EXCEPT ![id] = new]
  BY <1>4 DEF Resolve, Resolution, id
<1>7. /\ DOMAIN heap' = DOMAIN heap
      /\ heap'[id] = new
      /\ \A jd \in DOMAIN heap : jd # id => heap'[jd] = heap[jd]
      /\ heap' = [jd \in DOMAIN heap |-> heap'[jd]]
  BY <1>3, <1>6
<1>8. Heap'
  <2>1. PICK n \in Nat : DOMAIN heap = 1 .. n
    BY DEF Heap
  <2>2. heap' \in Seq(Range(heap'))
    BY <1>7, <2>1, SequenceOf
  <2>3. QED
    BY <1>5, <1>7, <2>2 DEF Heap
<1>9. /\ DOMAIN m_data' = StorageTypes /\ DOMAIN m_unresolved_data' = StorageTypes
      /\ DOMAIN m_data'[T] = DOMAIN m_data[T] \union {c.name}
      /\ m_data'[T][c.name] = id
      /\ \A name \in DOMAIN m_data[T] : name # c.name => m_data'[T][name] = m_data[T][name]
      /\ DOMAIN m_unresolved_data'[T] = DOMAIN m_unresolved_data[T] \ {c.name}
      /\ \A name \in DOMAIN m_unresolved_data'[T] :
            m_unresolved_data'[T][name] = m_unresolved_data[T][name]
      /\ \A S \in StorageTypes : S # T => /\ m_data'[S] = m_data[S]
                                          /\ m_unresolved_data'[S] = m_unresolved_data[S]
  BY <1>1 DEF Resolve, Tables, Inserted, Restrict, id
<1>10. \A S \in StorageTypes :
          /\ Names(S)' = Names(S)
          /\ \A name \in Names(S) : IdOf(S, name)' = IdOf(S, name)
  BY <1>1, <1>2, <1>9 DEF Names, NamesIn, IdOf, IdIn, Tables
<1>11. \A S \in StorageTypes : \A name \in Names(S) :
          name \in DOMAIN m_data'[S] <=>
              name \in DOMAIN m_data[S] \/ (S = T /\ name = c.name)
  BY <1>1, <1>9
<1>12. handles' = handles \union {Handle(c, id)}
  BY DEF Resolve, id
<1>13. \A S \in StorageTypes : DOMAIN m_data'[S] \intersect DOMAIN m_unresolved_data'[S] = {}
  BY <1>9 DEF Tables
<1>14. \A S \in StorageTypes : \A name \in Names(S) :
          LET o == heap'[IdOf(S, name)]
          IN  /\ IdOf(S, name) \in DOMAIN heap'
              /\ o.type = S /\ o.name = name
              /\ name \in DOMAIN m_data'[S] => o.d.exists = TRUE
              /\ name \notin DOMAIN m_data'[S] => o.d.exists = FALSE
  <2> SUFFICES ASSUME NEW S \in StorageTypes, NEW name \in Names(S)
               PROVE  LET o == heap'[IdOf(S, name)]
                      IN  /\ IdOf(S, name) \in DOMAIN heap'
                          /\ o.type = S /\ o.name = name
                          /\ name \in DOMAIN m_data'[S] => o.d.exists = TRUE
                          /\ name \notin DOMAIN m_data'[S] => o.d.exists = FALSE
    OBVIOUS
  <2>1. CASE IdOf(S, name) = id
    <3>1. S = T /\ name = c.name
      BY <1>3, <2>1 DEF Tables
    <3>2. QED
      BY <1>3, <1>5, <1>7, <1>9, <2>1, <3>1
  <2>2. CASE IdOf(S, name) # id
    <3>1. ~(S = T /\ name = c.name)
      BY <1>2, <2>2
    <3>2. (name \in DOMAIN m_data'[S]) = (name \in DOMAIN m_data[S])
      BY <1>11, <3>1
    <3>3. QED
      BY <1>7, <2>2, <3>2 DEF Tables
  <2>3. QED
    BY <2>1, <2>2
<1>15. \A jd \in DOMAIN heap' :
          LET o == heap'[jd]
          IN  /\ o.type \in StorageTypes /\ o.name \in Names(o.type)
              /\ IdOf(o.type, o.name) = jd
  BY <1>1, <1>2, <1>5, <1>7 DEF Tables
<1>16. \A h \in handles' :
          /\ h.type \in StorageTypes /\ h.name \in Names(h.type)
          /\ h.id = IdOf(h.type, h.name)
  BY <1>1, <1>2, <1>12 DEF Tables, Handle
<1>17. Tables'
  BY <1>9, <1>10, <1>13, <1>14, <1>15, <1>16 DEF Tables
<1>18. QED
  BY <1>8, <1>17

\* a new entry is behind all others, under a name that had none
LEMMA CreateTables ==
    ASSUME Tables, Heap, NEW c \in Declarations, Create(c)
    PROVE  Tables' /\ Heap'
<1> DEFINE T == c.type
           id == Len(heap) + 1
<1>1. T \in StorageTypes
  BY DeclarationsAssumption
<1>2. PICK allocate_mem \in BOOLEAN, unresolved \in BOOLEAN :
          CreateEntry(c, allocate_mem, unresolved)
  BY DEF Create
<1>3. PICK n : n = NumEntries(T)
  OBVIOUS
<1>4. PICK p : p = NewEntry(c, n, unresolved, allocate_mem)
  OBVIOUS
<1>5. /\ IsEntry(p) /\ p.type = T /\ p.name = c.name
      /\ unresolved => p.d.exists = FALSE
      /\ ~unresolved => p.d.exists = TRUE
  <2>1. IsNew(p, c, n, unresolved)
    BY <1>2, <1>4, NewEntryFields
  <2>2. QED
    BY <2>1 DEF IsNew
<1>6. heap' = Append(heap, p)
  BY <1>2, <1>3, <1>4 DEF CreateEntry
<1>7. /\ heap' \in Seq(Range(heap'))
      /\ id \notin DOMAIN heap /\ DOMAIN heap' = DOMAIN heap \union {id}
      /\ \A jd \in DOMAIN heap : heap'[jd] = heap[jd]
      /\ heap'[id] = p
  <2>1. /\ Len(heap) \in Nat /\ heap' \in Seq(Range(heap'))
        /\ DOMAIN heap = 1 .. Len(heap) /\ DOMAIN heap' = 1 .. Len(heap) + 1
        /\ \A jd \in DOMAIN heap : heap'[jd] = heap[jd]
        /\ heap'[Len(heap) + 1] = p
    BY <1>6, AppendFacts DEF Heap
  <2>2. QED
    BY <2>1
<1>8. Heap'
  BY <1>5, <1>7 DEF Heap
<1> HIDE DEF id
<1> DEFINE NewNames(S) == NamesIn(m_data', m_unresolved_data', S)
           NewId(S, name) == IdIn(m_data', m_unresolved_data', S, name)
<1>9. /\ DOMAIN m_data' = StorageTypes /\ DOMAIN m_unresolved_data' = StorageTypes
      /\ \A S \in StorageTypes : S # T => /\ m_data'[S] = m_data[S]
                                          /\ m_unresolved_data'[S] = m_unresolved_data[S]
      /\ unresolved => /\ m_data' = m_data
                       /\ DOMAIN m_unresolved_data'[T] = DOMAIN m_unresolved_data[T] \union {c.name}
                       /\ m_unresolved_data'[T][c.name] = id
                       /\ \A name \in DOMAIN m_unresolved_data[T] : name # c.name =>
                             m_unresolved_data'[T][name] = m_unresolved_data[T][name]
      /\ ~unresolved => /\ m_unresolved_data' = m_unresolved_data
                        /\ DOMAIN m_data'[T] = DOMAIN m_data[T] \union {c.name}
                        /\ m_data'[T][c.name] = id
                        /\ \A name \in DOMAIN m_data[T] : name # c.name =>
                              m_data'[T][name] = m_data[T][name]
  BY <1>1, <1>2 DEF CreateEntry, Tables, Inserted, id
<1>10. c.name \notin DOMAIN m_data[T] /\ c.name \notin DOMAIN m_unresolved_data[T]
  BY DEF Create, Names, NamesIn
<1>11. /\ \A S \in StorageTypes :
             /\ \A name : name \in NewNames(S) <=> name \in Names(S) \/ (S = T /\ name = c.name)
             /\ \A name \in Names(S) : NewId(S, name) = IdOf(S, name)
             /\ \A name \in Names(S) : name \in DOMAIN m_data'[S] <=> name \in DOMAIN m_data[S]
       /\ NewId(T, c.name) = id
       /\ c.name \in DOMAIN m_data'[T] <=> ~unresolved
  BY <1>1, <1>9, <1>10 DEF Names, NamesIn, IdOf, IdIn
<1>12. \A S \in StorageTypes : DOMAIN m_data'[S] \intersect DOMAIN m_unresolved_data'[S] = {}
  BY <1>9, <1>10 DEF Tables
<1>13. \A S \in StorageTypes : \A name \in NewNames(S) :
          LET o == heap'[NewId(S, name)]
          IN  /\ NewId(S, name) \in DOMAIN heap'
              /\ o.type = S /\ o.name = name
              /\ name \in DOMAIN m_data'[S] => o.d.exists = TRUE
              /\ name \notin DOMAIN m_data'[S] => o.d.exists = FALSE
  <2> SUFFICES ASSUME NEW S \in StorageTypes, NEW name \in NewNames(S)
               PROVE  LET o == heap'[NewId(S, name)]
                      IN  /\ NewId(S, name) \in DOMAIN heap'
                          /\ o.type = S /\ o.name = name
                          /\ name \in DOMAIN m_data'[S] => o.d.exists = TRUE
                          /\ name \notin DOMAIN m_data'[S] => o.d.exists = FALSE
    OBVIOUS
  <2>1. CASE S = T /\ name = c.name
    BY <1>5, <1>7, <1>11, <2>1
  <2>2. CASE ~(S = T /\ name = c.name)
    <3>1. /\ name \in Names(S) /\ NewId(S, name) = IdOf(S, name)
          /\ (name \in DOMAIN m_data'[S]) = (name \in DOMAIN m_data[S])
      BY <1>11, <2>2
    <3>2. QED
      BY <1>7, <3>1 DEF Tables
  <2>3. QED
    BY <2>1, <2>2
<1>14. \A jd \in DOMAIN heap' :
          LET o == heap'[jd]
          IN  /\ o.type \in StorageTypes /\ o.name \in NewNames(o.type)
              /\ NewId(o.type, o.name) = jd
  <2>1. ASSUME NEW jd \in DOMAIN heap
        PROVE  /\ heap'[jd].type \in StorageTypes
               /\ heap'[jd].name \in NewNames(heap'[jd].type)
               /\ NewId(heap'[jd].type, heap'[jd].name) = jd
    <3>1. PICK o : o = heap[jd]
      OBVIOUS
    <3>2. o.type \in StorageTypes /\ o.name \in Names(o.type) /\ IdOf(o.type, o.name) = jd
      BY <2>1, <3>1 DEF Tables
    <3>3. \A S \in StorageTypes : \A name \in Names(S) :
             name \in NewNames(S) /\ NewId(S, name) = IdOf(S, name)
      BY <1>11
    <3>4. /\ o.name \in NewNames(o.type)
          /\ NewId(o.type, o.name) = IdOf(o.type, o.name)
      BY <3>2, <3>3, Zenon
    <3>5. heap'[jd] = o
      BY <1>7, <3>1
    <3>6. QED
      BY <3>2, <3>4, <3>5, Zenon
  <2>2. /\ heap'[id].type = T /\ heap'[id].name = c.name
    <3>1. heap'[id] = p
      BY <1>7, Zenon
    <3>2. p.type = T
      BY <1>5, Zenon
    <3>3. p.name = c.name
      BY <1>5, Zenon
    <3>4. heap'[id].type = T
      BY <3>1, <3>2, Zenon
    <3>5. QED
    BY <3>1, <3>3, <3>4, Zenon
  <2>3. /\ T \in StorageTypes /\ c.name \in NewNames(T) /\ NewId(T, c.name) = id
    BY <1>1, <1>11
  <2>4. QED
    BY <1>7, <2>1, <2>2, <2>3, Zenon
<1>15. \A h \in handles' :
          /\ h.type \in StorageTypes /\ h.name \in NewNames(h.type)
          /\ h.id = NewId(h.type, h.name)
  <2>1. handles' = handles \union {Handle(c, id)}
    BY <1>2 DEF CreateEntry, id
  <2>2. QED
    BY <1>1, <1>11, <2>1 DEF Tables, Handle
<1> HIDE DEF T
<1>16. DOMAIN m_data' = StorageTypes /\ DOMAIN m_unresolved_data' = StorageTypes
  BY <1>9
<1>17. Tables'
  BY <1>16, <1>12, <1>13, <1>14, <1>15, Zenon DEF Tables, Names, IdOf
<1>18. QED
  BY <1>8, <1>17

LEMMA ReferTables ==
    ASSUME Tables, Heap, NEW c \in Declarations, Refer(c)
    PROVE  Tables' /\ Heap'
<1>1. Heap'
  BY DEF Refer, Heap
<1>2. c.type \in StorageTypes
  BY DeclarationsAssumption
<1>3. \A T, name : Names(T)' = Names(T) /\ IdOf(T, name)' = IdOf(T, name)
  BY DEF Refer, Names, NamesIn, IdOf, IdIn
<1>4. \A h \in handles' :
          /\ h.type \in StorageTypes /\ h.name \in Names(h.type)
          /\ h.id = IdOf(h.type, h.name)
  BY <1>2 DEF Refer, Handle, Tables
<1>5. Tables'
  BY <1>3, <1>4 DEF Tables, Refer
<1>6. QED
  BY <1>1, <1>5

-----------------------------------------------------------------------------
(* A name means one entry.                                                  *)

Registry == Running => Tables /\ Heap

LEMMA RegistryInit ==
    ASSUME Init
    PROVE  Tables /\ Heap
<1>1. \A T \in StorageTypes : m_data[T] = <<>> /\ m_unresolved_data[T] = <<>>
  BY DEF Init
<1>2. \A T \in StorageTypes : Names(T) = {}
  BY <1>1 DEF Names, NamesIn
<1>3. heap = <<>> /\ handles = {}
  BY DEF Init
<1>4. Tables
  BY <1>1, <1>2, <1>3 DEF Init, Tables
<1>5. Heap
  BY <1>3 DEF Heap
<1>6. QED
  BY <1>4, <1>5

\* the registry ends once
LEMMA EndedForGood ==
    ASSUME [Next]_vars, ~Running
    PROVE  UNCHANGED vars
<1>1. ASSUME Next
      PROVE  Ended
  <2>1. ASSUME NEW c \in Declarations, NEW allocate_mem \in BOOLEAN,
               RegisterEntry(c, allocate_mem)
        PROVE  FALSE
    BY <2>1 DEF RegisterEntry
  <2>2. ASSUME NEW c \in Declarations, RetrieveEntry(c)
        PROVE  FALSE
    BY <2>2 DEF RetrieveEntry
  <2>3. ASSUME NEW T, NEW n \in 0 .. MaxSize, Resize(T, n)
        PROVE  FALSE
    BY <2>3 DEF Resize
  <2>4. ASSUME NEW h \in handles,
               \/ \E n \in 0 .. MaxSize : ResizeVector(h, n)
               \/ AllocateMemory(h) \/ DeallocateMemory(h)
               \/ SetupArgument(h)
               \/ \E mode \in Modes : MoveToGpu(h, mode) \/ MoveToCpu(h, mode)
        PROVE  FALSE
    BY <2>4 DEF ResizeVector, AllocateMemory, DeallocateMemory, SetupArgument,
                MoveToGpu, MoveToCpu
  <2>5. ~ClearEntries
    BY DEF ClearEntries
  <2>6. QED
    BY <1>1, <2>1, <2>2, <2>3, <2>4, <2>5 DEF Next
<1>2. QED
  BY <1>1 DEF Ended

LEMMA RegistryNext ==
    ASSUME Registry, [Next]_vars
    PROVE  Registry'
<1>1. CASE ~Running
  BY <1>1, EndedForGood DEF Registry, Running, vars
<1>2. CASE Running
  <2>1. Tables /\ Heap
    BY <1>2 DEF Registry
  <2>2. \/ InPlaceStep
        \/ \E c \in Declarations : Resolve(c) \/ Create(c) \/ Refer(c)
        \/ ClearEntries
    BY <1>2, <2>1, StepKinds
  <2>3. CASE InPlaceStep
    BY <2>1, <2>3, InPlaceTables DEF Registry
  <2>4. ASSUME NEW c \in Declarations, Resolve(c) \/ Create(c) \/ Refer(c)
        PROVE  Tables' /\ Heap'
    BY <2>1, <2>4, ResolveTables, CreateTables, ReferTables
  <2>5. CASE ClearEntries
    BY <2>5 DEF ClearEntries, Registry, Running
  <2>6. QED
    BY <2>2, <2>3, <2>4, <2>5 DEF Registry
<1>3. QED
  BY <1>1, <1>2

LEMMA RegistryAlways == Spec => []Registry
<1>1. Init => Registry
  BY RegistryInit DEF Registry
<1>2. Registry /\ [Next]_vars => Registry'
  BY RegistryNext
<1>3. QED
  BY <1>1, <1>2, PTL DEF Spec

\* Whatever is declared, registered, retrieved, sized and moved in whatever
\* order, and whatever obligation of the program is waived: all references to a
\* name of a type denote one entry, which is in the table that says whether it
\* exists (silo.h: register_entry, retrieve_entry).
THEOREM NamesAlwaysDenoteOneEntry == Spec => []OneEntryPerName
<1>1. ASSUME Tables, NEW h \in handles
      PROVE  LET T == h.type
                 resolved == h.name \in DOMAIN m_data[T]
             IN  /\ resolved # (h.name \in DOMAIN m_unresolved_data[T])
                 /\ h.id = IF resolved THEN m_data[T][h.name] ELSE m_unresolved_data[T][h.name]
                 /\ heap[h.id].d.exists = resolved
  <2>1. PICK T, name, id : T = h.type /\ name = h.name /\ id = h.id
    OBVIOUS
  <2>2. T \in StorageTypes /\ name \in Names(T) /\ id = IdOf(T, name)
    BY <1>1, <2>1 DEF Tables
  <2>3. /\ DOMAIN m_data[T] \intersect DOMAIN m_unresolved_data[T] = {}
        /\ name \in DOMAIN m_data[T] => heap[id].d.exists = TRUE
        /\ name \notin DOMAIN m_data[T] => heap[id].d.exists = FALSE
    BY <1>1, <2>2 DEF Tables
  <2>4. id = IF name \in DOMAIN m_data[T] THEN m_data[T][name] ELSE m_unresolved_data[T][name]
    BY <2>2 DEF IdOf, IdIn
  <2>5. (name \in DOMAIN m_data[T]) # (name \in DOMAIN m_unresolved_data[T])
    BY <2>2, <2>3 DEF Names, NamesIn
  <2>6. heap[id].d.exists = (name \in DOMAIN m_data[T])
    <3>1. CASE name \in DOMAIN m_data[T]
      <4>1. (name \in DOMAIN m_data[T]) = TRUE
        BY <3>1
      <4>2. QED
        BY <2>3, <3>1, <4>1, Zenon
    <3>2. CASE name \notin DOMAIN m_data[T]
      <4>1. (name \in DOMAIN m_data[T]) = FALSE
        BY <3>2
      <4>2. QED
        BY <2>3, <3>2, <4>1, Zenon
    <3>3. QED
      BY <3>1, <3>2
  <2>7. QED
    BY <2>1, <2>4, <2>5, <2>6
<1>2. Registry => OneEntryPerName
  BY <1>1 DEF Registry, OneEntryPerName
<1>3. QED
  BY <1>2, RegistryAlways, PTL

-----------------------------------------------------------------------------
(* What a step makes of the entries in the heap.                            *)

\* the entry o, only retrieved so far, is registered
Registers(o, p) ==
    \E c \in Declarations :
        /\ o.d.exists = FALSE /\ o.type = c.type /\ o.name = c.name /\ o.pod = c.pod
        /\ "multi_dim" \notin Waived /\ c.shape # <<>> => o.d.size = 0
        /\ p = Resolution(o, c.shape)

\* the entry is new
Appears(p) ==
    \E c \in Declarations, unresolved, allocate_mem \in BOOLEAN :
        \E n : n = NumEntries(c.type) /\ p = NewEntry(c, n, unresolved, allocate_mem)

LEMMA ResolveSteps ==
    ASSUME Tables, Heap, NEW c \in Declarations, Resolve(c), NEW id \in DOMAIN heap'
    PROVE  /\ id \in DOMAIN heap
           /\ heap'[id] = heap[id] \/ Registers(heap[id], heap'[id])
<1>1. PICK T, name, jd :
          T = c.type /\ name = c.name /\ jd = m_unresolved_data[T][name]
  OBVIOUS
<1>2. T \in StorageTypes /\ name \in DOMAIN m_unresolved_data[T]
  BY <1>1, DeclarationsAssumption DEF Resolve
<1>3. name \notin DOMAIN m_data[T] /\ name \in Names(T) /\ IdOf(T, name) = jd
  BY <1>1, <1>2 DEF Tables, Names, NamesIn, IdOf, IdIn
<1>4. /\ jd \in DOMAIN heap /\ heap[jd].d.exists = FALSE
      /\ heap[jd].type = T /\ heap[jd].name = name
  BY <1>2, <1>3 DEF Tables
<1>5. /\ heap' = [heap EXCEPT ![jd] = Resolution(heap[jd], c.shape)]
      /\ heap[jd].pod = c.pod
      /\ "multi_dim" \notin Waived /\ c.shape # <<>> => heap[jd].d.size = 0
  BY <1>1 DEF Resolve, Resolution
<1>6. CASE id = jd
  BY <1>1, <1>4, <1>5, <1>6 DEF Registers
<1>7. CASE id # jd
  BY <1>5, <1>7
<1>8. QED
  BY <1>6, <1>7

LEMMA CreateSteps ==
    ASSUME Tables, Heap, NEW c \in Declarations, Create(c), NEW id \in DOMAIN heap'
    PROVE  (id \in DOMAIN heap /\ heap'[id] = heap[id]) \/ Appears(heap'[id])
<1>1. PICK allocate_mem \in BOOLEAN, unresolved \in BOOLEAN :
          CreateEntry(c, allocate_mem, unresolved)
  BY DEF Create
<1>2. PICK n : n = NumEntries(c.type)
  OBVIOUS
<1>3. PICK p : p = NewEntry(c, n, unresolved, allocate_mem)
  OBVIOUS
<1>4. heap' = Append(heap, p)
  BY <1>1, <1>2, <1>3 DEF CreateEntry
<1>5. /\ Len(heap) \in Nat
      /\ DOMAIN heap = 1 .. Len(heap) /\ DOMAIN heap' = 1 .. Len(heap) + 1
      /\ \A jd \in DOMAIN heap : heap'[jd] = heap[jd]
      /\ heap'[Len(heap) + 1] = p
  BY <1>4, AppendFacts DEF Heap
<1>6. Appears(p)
  BY <1>1, <1>2, <1>3 DEF Appears
<1>7. CASE id \in DOMAIN heap
  BY <1>5, <1>7
<1>8. CASE id \notin DOMAIN heap
  <2>1. id = Len(heap) + 1
    BY <1>5, <1>8
  <2>2. QED
    BY <1>5, <1>6, <2>1
<1>9. QED
  BY <1>7, <1>8

LEMMA HeapSteps ==
    ASSUME Tables, Heap, Running, [Next]_vars, Running', NEW id \in DOMAIN heap'
    PROVE  \/ id \in DOMAIN heap /\ EntryStep(heap[id], heap'[id])
           \/ id \in DOMAIN heap /\ Registers(heap[id], heap'[id])
           \/ Appears(heap'[id])
<1>1. CASE InPlaceStep
  BY <1>1 DEF InPlaceStep
<1>2. ASSUME NEW c \in Declarations, Resolve(c)
      PROVE  /\ id \in DOMAIN heap
             /\ EntryStep(heap[id], heap'[id]) \/ Registers(heap[id], heap'[id])
  BY <1>2, ResolveSteps DEF EntryStep
<1>3. ASSUME NEW c \in Declarations, Create(c)
      PROVE  \/ id \in DOMAIN heap /\ EntryStep(heap[id], heap'[id])
             \/ Appears(heap'[id])
  BY <1>3, CreateSteps DEF EntryStep
<1>4. ASSUME NEW c \in Declarations, Refer(c)
      PROVE  id \in DOMAIN heap /\ EntryStep(heap[id], heap'[id])
  BY <1>4 DEF Refer, EntryStep
<1>5. ~ClearEntries
  BY DEF ClearEntries, Running
<1>6. QED
  BY <1>1, <1>2, <1>3, <1>4, <1>5, StepKinds

-----------------------------------------------------------------------------
(* Transfers find the memory they copy.                                     *)

\* An entry that does not exist is owned by no device, as long as none is
\* resized that has a GPU instance.
LEMMA IdleStep ==
    ASSUME "resize_unresolved" \notin Waived,
           NEW o, IsEntry(o), Idle(o.d), NEW p, EntryStep(o, p)
    PROVE  Idle(p.d)
<1> DEFINE d == o.d
           s == SetupEntry(o)
<1>1. IsDataSet(d) /\ Idle(d)
  BY DEF IsEntry
<1>2. SameEntry(o, s) /\ s.d = Setup(d)
  BY SetupEntryFields
<1>3. Idle(s.d)
  <2>1. IsSetup(d, s.d)
    BY <1>1, <1>2, SetupFields
  <2>2. QED
    BY <1>1, <2>1 DEF Idle, IsSetup
<1> HIDE DEF s
<1>4. CASE Resizes(o, p)
  <2>1. PICK n : MayResize(o, n) /\ p = ResizeEntry(o, n)
    BY <1>4 DEF Resizes
  <2>2. p.d = ResizeData(d, n)
    BY <2>1, ResizeEntryFields
  <2>3. d.exists \/ ~d.instance
    BY <2>1 DEF MayResize
  <2>4. QED
    BY <1>1, <2>2, <2>3, ResizeFields DEF Idle
<1>5. ASSUME NEW mode \in Modes, p = Transferred(s, TransferToGpu(s.d, mode))
      PROVE  Idle(p.d)
  <2>1. IsDataSet(s.d) /\ IsEntry(s) /\ mode \in TransferMode
    BY <1>2, ModesAssumption DEF SameEntry, IsEntry
  <2>2. LET e == TransferToGpu(s.d, mode)
        IN  Keeps(s.d, e) /\ (s.d.gpu = "NOT_ALLOCATED" => e = s.d)
    BY <2>1, TransferToGpuFields DEF IsSentToGpu
  <2>3. p.d = TransferToGpu(s.d, mode)
    BY <1>5, <2>1, <2>2, TransferredFields
  <2>4. QED
    BY <1>3, <2>2, <2>3 DEF Idle, Keeps
<1>6. ASSUME NEW mode \in Modes, p = Transferred(o, TransferToCpu(d, mode))
      PROVE  Idle(p.d)
  <2>1. mode \in TransferMode
    BY ModesAssumption
  <2>2. LET e == TransferToCpu(d, mode)
        IN  Keeps(d, e) /\ (d.cpu = "NOT_ALLOCATED" => e = d)
    BY <1>1, <2>1, TransferToCpuFields DEF IsSentToCpu
  <2>3. p.d = TransferToCpu(d, mode)
    BY <1>6, <2>2, TransferredFields
  <2>4. QED
    BY <1>1, <2>2, <2>3 DEF Idle, Keeps
<1>7. CASE Frees(o, p)
  BY <1>7, DeallocatedFields DEF Frees, SameEntry, Idle
<1>8. QED
  BY <1>1, <1>3, <1>4, <1>5, <1>6, <1>7 DEF EntryStep, Moves, s

LEMMA RegistersResolved ==
    ASSUME NEW o, IsEntry(o), NEW p, Registers(o, p)
    PROVE  \E c \in Declarations :
               /\ o.d.exists = FALSE /\ o.type = c.type /\ o.name = c.name /\ o.pod = c.pod
               /\ "multi_dim" \notin Waived /\ c.shape # <<>> => o.d.size = 0
               /\ IsResolved(o, p, c.shape)
BY ResolvedFields DEF Registers

LEMMA AppearsNew ==
    ASSUME NEW p, Appears(p)
    PROVE  \E c \in Declarations, unresolved \in BOOLEAN :
               \E n : n = NumEntries(c.type) /\ IsNew(p, c, n, unresolved)
BY NewEntryFields DEF Appears

IdleEntries == \A id \in DOMAIN heap : Idle(heap[id].d)

\* no transfer fails
LEMMA NoFailure ==
    ASSUME Tables, Heap, IdleEntries, Running, [Next]_vars, "memory_first" \notin Waived
    PROVE  phase' # "failed"
<1>1. ASSUME NEW h \in handles, NEW mode \in Modes, MoveToGpu(h, mode)
      PROVE  phase' # "failed"
  <2> DEFINE o == heap[h.id]
             s == SetupEntry(o)
  <2>1. IsEntry(o) /\ Idle(o.d)
    BY DEF Tables, Heap, IdleEntries
  <2>2. s.d = Setup(o.d) /\ IsDataSet(o.d)
    BY <2>1, SetupEntryFields DEF IsEntry
  <2>3. /\ s.d.exists = o.d.exists /\ s.d.mapped = o.d.mapped /\ s.d.size = o.d.size
        /\ Idle(s.d)
    <3>1. IsSetup(o.d, s.d)
      BY <2>2, SetupFields
    <3>2. QED
      BY <2>1, <3>1 DEF Idle, IsSetup
  <2> HIDE DEF s
  <2>4. ToGpuFails(s.d, mode) => s.d.exists /\ s.d.size > 0 /\ ~s.d.mapped
    BY <2>3 DEF Idle, ToGpuFails, ToGpuPush, ToGpuPull
  <2>5. ~ToGpuFails(s.d, mode)
    BY <1>1, <2>3, <2>4 DEF MoveToGpu, MayMove
  <2>6. QED
    BY <1>1, <2>5 DEF MoveToGpu, Update, Running, s
<1>2. ASSUME NEW h \in handles, NEW mode \in Modes, MoveToCpu(h, mode)
      PROVE  phase' # "failed"
  <2> DEFINE o == heap[h.id]
  <2>1. Idle(o.d)
    BY DEF Tables, IdleEntries
  <2>2. ToCpuFails(o.d, mode) => o.d.exists /\ o.d.size > 0 /\ ~o.d.mapped
    BY <2>1 DEF Idle, ToCpuFails
  <2>3. ~ToCpuFails(o.d, mode)
    BY <1>2, <2>2 DEF MoveToCpu, MayMove
  <2>4. QED
    BY <1>2, <2>3 DEF MoveToCpu, Update, Running
<1>3. ASSUME NEW c \in Declarations, NEW allocate_mem \in BOOLEAN,
             RegisterEntry(c, allocate_mem) \/ RetrieveEntry(c)
      PROVE  phase' # "failed"
  BY <1>3, RegisterKinds, RetrieveKinds DEF Running
<1>4. ASSUME NEW T, NEW n \in 0 .. MaxSize, Resize(T, n)
      PROVE  phase' # "failed"
  BY <1>4 DEF Resize, Running
<1>5. ASSUME NEW h \in handles,
             \/ \E n \in 0 .. MaxSize : ResizeVector(h, n)
             \/ AllocateMemory(h) \/ DeallocateMemory(h) \/ SetupArgument(h)
      PROVE  phase' # "failed"
  BY <1>5 DEF ResizeVector, AllocateMemory, DeallocateMemory, SetupArgument, Update, Abort,
              Running
<1>6. ClearEntries => phase' # "failed"
  BY DEF ClearEntries
<1>7. UNCHANGED vars => phase' # "failed"
  BY DEF vars, Running
<1>8. ~Ended
  BY DEF Ended
<1>9. QED
  BY <1>1, <1>2, <1>3, <1>4, <1>5, <1>6, <1>7, <1>8 DEF Next

LEMMA IdleNext ==
    ASSUME Tables, Heap, IdleEntries, Running, [Next]_vars, Running',
           "resize_unresolved" \notin Waived
    PROVE  IdleEntries'
<1> SUFFICES ASSUME NEW id \in DOMAIN heap'
             PROVE  Idle(heap'[id].d)
  BY DEF IdleEntries
<1>1. PICK p : p = heap'[id]
  OBVIOUS
<1>2. ASSUME id \in DOMAIN heap, EntryStep(heap[id], p)
      PROVE  Idle(p.d)
  BY <1>2, IdleStep DEF Heap, IdleEntries
<1>3. ASSUME id \in DOMAIN heap, Registers(heap[id], p)
      PROVE  Idle(p.d)
  BY <1>3, RegistersResolved DEF Heap, Idle, IsResolved
<1>4. ASSUME Appears(p)
      PROVE  Idle(p.d)
  BY <1>4, AppearsNew DEF IsNew
<1>5. QED
  BY <1>1, <1>2, <1>3, <1>4, HeapSteps

\* In a program that gives its entries memory before it sends them anywhere and
\* resizes no unregistered entry that has a GPU instance, no transfer copies from
\* or to an entry without memory (CHECK_CUDA in transfer_to_gpu and transfer_to_cpu).
THEOREM CopiesAlwaysHaveMemory ==
    ASSUME "memory_first" \notin Waived, "resize_unresolved" \notin Waived
    PROVE  Spec => []CopiesHaveMemory
<1> DEFINE Inv == phase # "failed" /\ (Running => IdleEntries)
<1>1. Init => Inv
  BY DEF Init, IdleEntries
<1>2. Registry /\ Inv /\ [Next]_vars => Inv'
  <2> SUFFICES ASSUME Registry, Inv, [Next]_vars
               PROVE  Inv'
    OBVIOUS
  <2>1. CASE ~Running
    BY <2>1, EndedForGood DEF vars, Running
  <2>2. CASE Running
    <3>1. Tables /\ Heap /\ IdleEntries
      BY <2>2 DEF Registry
    <3>2. phase' # "failed"
      BY <2>2, <3>1, NoFailure
    <3>3. Running' => IdleEntries'
      BY <2>2, <3>1, IdleNext
    <3>4. QED
      BY <3>2, <3>3
  <2>3. QED
    BY <2>1, <2>2
<1>3. Inv => CopiesHaveMemory
  BY DEF CopiesHaveMemory
<1>4. QED
  BY <1>1, <1>2, <1>3, RegistryAlways, PTL DEF Spec

-----------------------------------------------------------------------------
(* Nothing is left at the end.                                              *)

\* An entry without a GPU instance has nothing on the device; a status is
\* NOT_ALLOCATED on both devices or on none, and then there is no buffer.
Tidy(o) ==
    /\ o.d.cpu = "NOT_ALLOCATED" => o.d.gpu = "NOT_ALLOCATED"
    /\ o.d.gpu = "NOT_ALLOCATED" =>
          o.d.cpu = "NOT_ALLOCATED" /\ o.d.buffer = 0 /\ o.devOffsets = <<>>
    /\ ~o.d.instance => o.d.gpu = "NOT_ALLOCATED"

\* and the buffer of an empty entry is empty, so that no allocation overwrites
\* the address of another
Freed(o) ==
    /\ o.d.size = 0 => o.d.buffer = 0
    /\ o.d.lost = FALSE

LEMMA TidyFreedSetup ==
    ASSUME NEW o, IsEntry(o), Tidy(o)
    PROVE  LET s == SetupEntry(o)
           IN  IsEntry(s) /\ Tidy(s) /\ (Freed(o) => Freed(s))
<1>1. PICK s : s = SetupEntry(o)
  OBVIOUS
<1>2. PICK d, e : d = o.d /\ e = s.d
  OBVIOUS
<1>3. /\ SameEntry(o, s)
      /\ e = Setup(d)
      /\ e.gpu = d.gpu => SameLayout(o, s)
  BY <1>1, <1>2, SetupEntryFields
<1>4. IsDataSet(d) /\ IsEntry(s)
  BY <1>2, <1>3 DEF IsEntry, SameEntry
<1>5. IsSetup(d, e)
  BY <1>3, <1>4, SetupFields
<1>6. Tidy(s)
  BY <1>2, <1>3, <1>5 DEF Tidy, IsSetup, SameLayout
<1>7. ASSUME Freed(o)
      PROVE  Freed(s)
  <2>1. d.lost = FALSE /\ (d.size = 0 => d.buffer = 0)
    BY <1>2, <1>7 DEF Freed
  <2>2. ~d.instance \/ d.gpu = "NOT_ALLOCATED" => d.buffer = 0
    BY <1>2 DEF Tidy
  <2>3. e.lost = FALSE /\ (e.size = 0 => e.buffer = 0)
    BY <1>5, <2>1, <2>2 DEF IsSetup
  <2>4. QED
    BY <1>2, <2>3 DEF Freed
<1>8. QED
  BY <1>1, <1>4, <1>6, <1>7

LEMMA TidyFreedToGpu ==
    ASSUME NEW o, IsEntry(o), Tidy(o), NEW mode \in Modes
    PROVE  LET p == Transferred(o, TransferToGpu(o.d, mode))
           IN  Tidy(p) /\ (Freed(o) => Freed(p))
<1>1. PICK d, e : d = o.d /\ e = TransferToGpu(d, mode)
  OBVIOUS
<1>2. IsDataSet(d) /\ mode \in TransferMode
  BY <1>1, ModesAssumption DEF IsEntry
<1>3. IsSentToGpu(d, e)
  BY <1>1, <1>2, TransferToGpuFields
<1>4. PICK p : p = Transferred(o, e)
  OBVIOUS
<1>5. p.d = e /\ p.devOffsets = o.devOffsets
  BY <1>1, <1>3, <1>4, TransferredFields DEF IsSentToGpu
<1>6. Tidy(p)
  BY <1>1, <1>3, <1>5 DEF Tidy, Keeps, IsSentToGpu
<1>7. Freed(o) => Freed(p)
  BY <1>1, <1>3, <1>5 DEF Freed, Keeps, IsSentToGpu
<1>8. QED
  BY <1>1, <1>4, <1>6, <1>7

LEMMA TidyFreedToCpu ==
    ASSUME NEW o, IsEntry(o), Tidy(o), NEW mode \in Modes
    PROVE  LET p == Transferred(o, TransferToCpu(o.d, mode))
           IN  Tidy(p) /\ (Freed(o) => Freed(p))
<1>1. PICK d, e : d = o.d /\ e = TransferToCpu(d, mode)
  OBVIOUS
<1>2. IsDataSet(d) /\ mode \in TransferMode
  BY <1>1, ModesAssumption DEF IsEntry
<1>3. IsSentToCpu(d, e, mode)
  BY <1>1, <1>2, TransferToCpuFields
<1>4. PICK p : p = Transferred(o, e)
  OBVIOUS
<1>5. p.d = e /\ p.devOffsets = o.devOffsets
  BY <1>1, <1>3, <1>4, TransferredFields DEF IsSentToCpu
<1>6. Tidy(p)
  BY <1>1, <1>3, <1>5 DEF Tidy, Keeps, IsSentToCpu
<1>7. Freed(o) => Freed(p)
  BY <1>1, <1>3, <1>5 DEF Freed, Keeps, IsSentToCpu
<1>8. QED
  BY <1>1, <1>4, <1>6, <1>7

LEMMA TidyFreedResize ==
    ASSUME NEW o, IsEntry(o), Tidy(o), NEW n
    PROVE  LET p == ResizeEntry(o, n)
           IN  /\ Tidy(p)
               /\ Freed(o) /\ (n > 0 \/ o.d.buffer = 0) => Freed(p)
<1>1. PICK d, e : d = o.d /\ e = ResizeData(d, n)
  OBVIOUS
<1>2. /\ e.instance = d.instance /\ e.size = n
      /\ e.buffer = d.buffer /\ e.lost = d.lost
      /\ d.instance => e.gpu = "RESIZED_ON_CPU" /\ e.cpu = "UP_TO_DATE_WRITE"
      /\ ~d.instance => e.gpu = d.gpu /\ e.cpu = d.cpu
  BY <1>1, ResizeFields DEF IsEntry
<1>3. PICK p : p = ResizeEntry(o, n)
  OBVIOUS
<1>4. p.d = e /\ p.devOffsets = o.devOffsets
  BY <1>1, <1>3, ResizeEntryFields
<1>5. Tidy(p)
  BY <1>1, <1>2, <1>4 DEF Tidy
<1>6. Freed(o) /\ (n > 0 \/ o.d.buffer = 0) => Freed(p)
  BY <1>1, <1>2, <1>4 DEF Freed
<1>7. QED
  BY <1>3, <1>5, <1>6

LEMMA TidyFreedStep ==
    ASSUME NEW o, IsEntry(o), Tidy(o), NEW p, EntryStep(o, p)
    PROVE  /\ Tidy(p)
           /\ Freed(o) /\ "shrink_to_empty" \notin Waived => Freed(p)
<1>1. PICK s : s = SetupEntry(o)
  OBVIOUS
<1>2. IsEntry(s) /\ Tidy(s) /\ (Freed(o) => Freed(s))
  BY <1>1, TidyFreedSetup
<1>3. CASE Resizes(o, p)
  <2>1. PICK n : MayResize(o, n) /\ p = ResizeEntry(o, n)
    BY <1>3 DEF Resizes
  <2>2. "shrink_to_empty" \notin Waived => n > 0 \/ o.d.buffer = 0
    BY <2>1 DEF MayResize
  <2>3. QED
    BY <2>1, <2>2, TidyFreedResize
<1>4. ASSUME NEW mode \in Modes, p = Transferred(s, TransferToGpu(s.d, mode))
      PROVE  Tidy(p) /\ (Freed(o) => Freed(p))
  BY <1>2, <1>4, TidyFreedToGpu
<1>5. ASSUME NEW mode \in Modes, p = Transferred(o, TransferToCpu(o.d, mode))
      PROVE  Tidy(p) /\ (Freed(o) => Freed(p))
  BY <1>5, TidyFreedToCpu
<1>6. CASE Frees(o, p)
  BY <1>6, DeallocatedFields DEF Frees, SameLayout, Tidy, Freed
<1>7. CASE Moves(o, p)
  BY <1>1, <1>2, <1>4, <1>5, <1>7 DEF Moves
<1>8. QED
  BY <1>3, <1>6, <1>7 DEF EntryStep

LEMMA TidyFreedRegisters ==
    ASSUME NEW o, IsEntry(o), Tidy(o), NEW p, Registers(o, p)
    PROVE  Tidy(p) /\ (Freed(o) => Freed(p))
<1>1. PICK c \in Declarations : IsResolved(o, p, c.shape)
  BY RegistersResolved
<1>2. QED
  BY <1>1 DEF IsResolved, Tidy, Freed

LEMMA TidyFreedAppears ==
    ASSUME NEW p, Appears(p)
    PROVE  Tidy(p) /\ Freed(p)
BY AppearsNew DEF IsNew, Tidy, Freed

TidyEntries == \A id \in DOMAIN heap : Tidy(heap[id])
FreedEntries == \A id \in DOMAIN heap : Freed(heap[id])

LEMMA TidyFreedNext ==
    ASSUME Tables, Heap, TidyEntries, Running, [Next]_vars, Running'
    PROVE  /\ TidyEntries'
           /\ FreedEntries /\ "shrink_to_empty" \notin Waived => FreedEntries'
<1> SUFFICES ASSUME NEW id \in DOMAIN heap'
             PROVE  /\ Tidy(heap'[id])
                    /\ FreedEntries /\ "shrink_to_empty" \notin Waived => Freed(heap'[id])
  BY DEF TidyEntries, FreedEntries
<1>1. PICK p : p = heap'[id]
  OBVIOUS
<1>2. ASSUME id \in DOMAIN heap, EntryStep(heap[id], p)
      PROVE  Tidy(p) /\ (FreedEntries /\ "shrink_to_empty" \notin Waived => Freed(p))
  <2>1. IsEntry(heap[id]) /\ Tidy(heap[id]) /\ (FreedEntries => Freed(heap[id]))
    BY <1>2 DEF Heap, TidyEntries, FreedEntries
  <2>2. QED
    BY <1>2, <2>1, TidyFreedStep
<1>3. ASSUME id \in DOMAIN heap, Registers(heap[id], p)
      PROVE  Tidy(p) /\ (FreedEntries => Freed(p))
  <2>1. IsEntry(heap[id]) /\ Tidy(heap[id]) /\ (FreedEntries => Freed(heap[id]))
    BY <1>3 DEF Heap, TidyEntries, FreedEntries
  <2>2. QED
    BY <1>3, <2>1, TidyFreedRegisters
<1>4. ASSUME Appears(p)
      PROVE  Tidy(p) /\ Freed(p)
  BY <1>4, TidyFreedAppears
<1>5. QED
  BY <1>1, <1>2, <1>3, <1>4, HeapSteps

LEMMA DestructedFields ==
    ASSUME NEW o, IsEntry(o), Tidy(o), Freed(o)
    PROVE  LET q == DestructGpuInstance(o)
           IN  /\ IsEntry(q)
               /\ ~q.d.instance /\ q.d.lost = FALSE
               /\ q.d.buffer = 0 /\ q.devOffsets = <<>>
<1> DEFINE q == DestructGpuInstance(o)
<1>1. CASE ~o.d.instance
  <2>1. q = o
    BY <1>1 DEF DestructGpuInstance
  <2>2. o.d.buffer = 0 /\ o.devOffsets = <<>> /\ o.d.lost = FALSE
    BY <1>1 DEF Tidy, Freed
  <2> HIDE DEF q
  <2>3. QED
    BY <1>1, <2>1, <2>2 DEF q
<1>2. CASE o.d.instance /\ o.d.cpu = "NOT_ALLOCATED"
  <2>1. q = [o EXCEPT !.d.instance = FALSE]
    BY <1>2 DEF DestructGpuInstance
  <2>2. o.d.buffer = 0 /\ o.devOffsets = <<>> /\ o.d.lost = FALSE
    BY <1>2 DEF Tidy, Freed
  <2> HIDE DEF q
  <2>3. QED
    BY <2>1, <2>2 DEF q, IsEntry, EntryFields, IsDataSet, DataFields
<1>3. CASE o.d.instance /\ o.d.cpu # "NOT_ALLOCATED"
  <2>1. q = [o EXCEPT !.d.instance = FALSE, !.d.buffer = BufferLeft(o.d), !.devOffsets = <<>>]
    BY <1>3 DEF DestructGpuInstance
  <2>2. BufferLeft(o.d) = 0 /\ o.d.lost = FALSE
    BY DEF BufferLeft, Freed
  <2>3. PICK b : b = BufferLeft(o.d)
    OBVIOUS
  <2> HIDE DEF q
  <2>4. /\ IsEntry(q) /\ q.d.instance = FALSE /\ q.d.lost = o.d.lost
        /\ q.d.buffer = b /\ q.devOffsets = <<>>
    BY <2>1, <2>3 DEF IsEntry, EntryFields, IsDataSet, DataFields
  <2>5. QED
    BY <2>2, <2>3, <2>4 DEF q
<1>4. QED
  BY <1>1, <1>2, <1>3

LEMMA DeletedFields ==
    ASSUME NEW o, IsEntry(o), Tidy(o), Freed(o)
    PROVE  LET p == Deleted(o)
           IN  /\ ~p.d.mapped /\ ~p.d.instance
               /\ p.d.buffer = 0 /\ ~p.d.lost /\ p.devOffsets = <<>>
<1>1. PICK q : q = DestructGpuInstance(o)
  OBVIOUS
<1>2. /\ IsEntry(q)
      /\ ~q.d.instance /\ q.d.lost = FALSE
      /\ q.d.buffer = 0 /\ q.devOffsets = <<>>
  BY <1>1, DestructedFields
<1>3. PICK p : p = Deleted(o)
  OBVIOUS
<1>4. p = [q EXCEPT !.d.mapped = FALSE, !.d.size = 0, !.alloc = 0,
                    !.bytes = 0, !.offsets = <<>>, !.shape = <<>>]
  BY <1>1, <1>3 DEF Deleted
<1>5. /\ p.d = [q.d EXCEPT !.mapped = FALSE, !.size = 0]
      /\ p.devOffsets = q.devOffsets
  BY <1>2, <1>4 DEF IsEntry, EntryFields
<1>6. /\ p.d.mapped = FALSE /\ p.d.instance = q.d.instance
      /\ p.d.buffer = q.d.buffer /\ p.d.lost = q.d.lost
  BY <1>2, <1>5 DEF IsEntry, IsDataSet, DataFields
<1>7. ~p.d.mapped /\ ~p.d.instance /\ p.d.buffer = 0 /\ ~p.d.lost /\ p.devOffsets = <<>>
  BY <1>2, <1>5, <1>6
<1>8. QED
  BY <1>3, <1>7

\* every entry is in one of the tables
LEMMA AllCleared ==
    ASSUME Tables, NEW id \in DOMAIN heap
    PROVE  id \in Cleared
<1>1. PICK T, name : T = heap[id].type /\ name = heap[id].name
  OBVIOUS
<1>2. T \in StorageTypes /\ name \in Names(T) /\ IdOf(T, name) = id
  BY <1>1 DEF Tables
<1>3. id \in RegisteredOf(T) \union UnresolvedOf(T)
  BY <1>2 DEF Names, NamesIn, IdOf, IdIn, RegisteredOf, UnresolvedOf
<1>4. QED
  BY <1>2, <1>3 DEF Cleared

LEMMA ClearLeavesNothing ==
    ASSUME Tables, Heap, TidyEntries, FreedEntries, ClearEntries
    PROVE  NothingLeft'
<1>1. heap' = [id \in DOMAIN heap |-> Deleted(heap[id])]
  BY AllCleared DEF ClearEntries
<1>2. ASSUME NEW id \in DOMAIN heap
      PROVE  LET p == heap'[id]
             IN  /\ ~p.d.mapped /\ ~p.d.instance
                 /\ p.d.buffer = 0 /\ ~p.d.lost /\ p.devOffsets = <<>>
  <2>1. IsEntry(heap[id]) /\ Tidy(heap[id]) /\ Freed(heap[id])
    BY DEF Heap, TidyEntries, FreedEntries
  <2>2. heap'[id] = Deleted(heap[id])
    BY <1>1
  <2>3. QED
    BY <2>1, <2>2, DeletedFields
<1>3. QED
  BY <1>1, <1>2 DEF NothingLeft

LEMMA RunningGoesOn ==
    ASSUME Registry, Running, [Next]_vars
    PROVE  phase' \in {"run", "aborted", "failed"} \/ ClearEntries
BY StepKinds DEF Registry

\* In a program that resizes no entry to nothing while it has a device buffer,
\* clear_entries gives back the host memory, the device buffer and the device
\* offsets of every entry, registered or only retrieved, and no buffer was lost
\* on the way (silo::clear_entries, ~dataSetBase, destruct_gpu_instance).
THEOREM NothingIsEverLeft ==
    ASSUME "shrink_to_empty" \notin Waived
    PROVE  Spec => []NothingLeft
<1> DEFINE Inv == NothingLeft /\ (Running => TidyEntries /\ FreedEntries)
<1>1. Init => Inv
  BY DEF Init, NothingLeft, TidyEntries, FreedEntries
<1>2. Registry /\ Inv /\ [Next]_vars => Inv'
  <2> SUFFICES ASSUME Registry, Inv, [Next]_vars
               PROVE  Inv'
    OBVIOUS
  <2>1. CASE ~Running
    BY <2>1, EndedForGood DEF vars, Running, NothingLeft
  <2>2. CASE Running
    <3>1. Tables /\ Heap /\ TidyEntries /\ FreedEntries
      BY <2>2 DEF Registry
    <3>2. Running' => TidyEntries' /\ FreedEntries'
      BY <2>2, <3>1, TidyFreedNext
    <3>3. NothingLeft'
      <4>1. CASE ClearEntries
        BY <3>1, <4>1, ClearLeavesNothing
      <4>2. CASE phase' \in {"run", "aborted", "failed"}
        BY <4>2 DEF NothingLeft
      <4>3. QED
        BY <2>2, <4>1, <4>2, RunningGoesOn
    <3>4. QED
      BY <3>2, <3>3
  <2>3. QED
    BY <2>1, <2>2
<1>3. Inv => NothingLeft
  OBVIOUS
<1>4. QED
  BY <1>1, <1>2, <1>3, RegistryAlways, PTL DEF Spec

-----------------------------------------------------------------------------
(* The device copy follows the entry.                                       *)

\* A registered entry with an instance has a buffer for its size and bytes, unless
\* the resize of it is still to be done, and the strides of the entry; one that
\* was only retrieved has no strides to differ from.  A resize that is still to
\* be done is seen by the transfer to the CPU that makes the new buffer.
Laid(o) ==
    /\ \E c \in Declarations : c.type = o.type /\ c.name = o.name /\ c.shape = o.shape
    /\ ~o.d.exists => o.devOffsets = <<>>
    /\ ~o.d.exists /\ o.d.instance => o.shape = <<>>
    /\ o.d.gpu = "RESIZED_ON_CPU" => o.d.cpu \in {"UP_TO_DATE_WRITE", "UP_TO_DATE_READ"}
    /\ o.d.exists /\ o.d.instance =>
          /\ o.d.gpu # "NOT_ALLOCATED"
          /\ o.devOffsets = o.offsets
          /\ o.d.gpu # "RESIZED_ON_CPU" => o.d.buffer = o.d.size /\ o.devBytes = o.bytes

\* the obligations it takes
Follow == "early_offsets" \notin Waived /\ "copy" \notin Waived

LEMMA LaidSetup ==
    ASSUME Follow, NEW o, IsEntry(o), Tidy(o), Laid(o), MayMove(o)
    PROVE  Laid(SetupEntry(o))
<1>1. PICK s : s = SetupEntry(o)
  OBVIOUS
<1>2. PICK d, e : d = o.d /\ e = s.d
  OBVIOUS
<1>3. /\ SameEntry(o, s)
      /\ e = Setup(d)
      /\ e.gpu = d.gpu => SameLayout(o, s)
      /\ e.gpu # d.gpu => /\ s.offsets = o.offsets /\ s.bytes = o.bytes
                          /\ s.devOffsets = o.offsets /\ s.devBytes = o.bytes
  BY <1>1, <1>2, SetupEntryFields
<1>4. IsSetup(d, e)
  <2>1. IsDataSet(d)
    BY <1>2 DEF IsEntry
  <2>2. QED
    BY <1>3, <2>1, SetupFields
<1>5. d.exists \/ o.shape = <<>>
  BY <1>2 DEF MayMove, Follow
<1>6. /\ s.type = o.type /\ s.name = o.name /\ s.shape = o.shape
      /\ e.exists = d.exists
  BY <1>2, <1>3 DEF SameEntry
<1>7. \E c \in Declarations : c.type = s.type /\ c.name = s.name /\ c.shape = s.shape
  BY <1>6 DEF Laid
<1>8. CASE d.exists /\ (~d.instance \/ d.gpu = "NOT_ALLOCATED")
  <2>1. d.gpu = "NOT_ALLOCATED"
    BY <1>2, <1>8 DEF Tidy
  <2>2. e.gpu = "OUT_OF_DATE" /\ e.buffer = e.size /\ e.exists
    BY <1>4, <1>8 DEF IsSetup
  <2>3. s.devOffsets = s.offsets /\ s.devBytes = s.bytes
    BY <1>3, <2>1, <2>2
  <2>4. QED
    BY <1>1, <1>2, <1>7, <2>2, <2>3 DEF Laid
<1>9. CASE ~d.exists /\ ~d.instance
  <2>1. d.gpu = "NOT_ALLOCATED"
    BY <1>2, <1>9 DEF Tidy
  <2>2. e.gpu = "NOT_ALLOCATED" /\ ~e.exists
    BY <1>4, <1>9 DEF IsSetup
  <2>3. s.devOffsets = <<>>
    BY <1>2, <1>3, <1>9, <2>1, <2>2 DEF SameLayout, Laid
  <2>4. s.shape = <<>>
    BY <1>5, <1>6, <1>9
  <2>5. QED
    BY <1>1, <1>2, <1>7, <2>2, <2>3, <2>4 DEF Laid
<1>10. CASE d.instance /\ ~(d.exists /\ d.gpu = "NOT_ALLOCATED")
  <2>1. e = d
    BY <1>4, <1>10 DEF IsSetup
  <2>2. SameLayout(o, s)
    BY <1>3, <2>1
  <2>3. QED
    BY <1>1, <1>2, <1>6, <1>7, <2>1, <2>2 DEF Laid, SameLayout
<1>11. QED
  BY <1>8, <1>9, <1>10

LEMMA LaidToGpu ==
    ASSUME NEW o, IsEntry(o), Tidy(o), Laid(o), NEW mode \in Modes
    PROVE  Laid(Transferred(o, TransferToGpu(o.d, mode)))
<1>1. PICK d, e : d = o.d /\ e = TransferToGpu(d, mode)
  OBVIOUS
<1>2. IsDataSet(d) /\ mode \in TransferMode
  BY <1>1, ModesAssumption DEF IsEntry
<1>3. IsSentToGpu(d, e)
  BY <1>1, <1>2, TransferToGpuFields
<1>4. PICK p : p = Transferred(o, e)
  OBVIOUS
<1>5. /\ SameEntry(o, p) /\ p.d = e
      /\ p.offsets = o.offsets /\ p.bytes = o.bytes /\ p.devOffsets = o.devOffsets
      /\ p.devBytes = IF d.gpu = "RESIZED_ON_CPU" /\ e.gpu # "RESIZED_ON_CPU"
                      THEN o.bytes ELSE o.devBytes
  BY <1>1, <1>3, <1>4, TransferredFields DEF IsSentToGpu
<1>6. \E c \in Declarations : c.type = p.type /\ c.name = p.name /\ c.shape = p.shape
  BY <1>5 DEF Laid, SameEntry
<1>7. /\ p.shape = o.shape /\ e.exists = d.exists /\ e.instance = d.instance
      /\ e.size = d.size
  BY <1>3, <1>5 DEF IsSentToGpu, Keeps, SameEntry
<1>8. CASE d.gpu = "NOT_ALLOCATED"
  <2>1. e = d
    BY <1>3, <1>8 DEF IsSentToGpu
  <2>2. QED
    BY <1>1, <1>4, <1>5, <1>6, <1>7, <1>8, <2>1 DEF Laid
<1>9. CASE d.gpu # "NOT_ALLOCATED"
  <2>1. e.gpu # "RESIZED_ON_CPU" /\ e.gpu # "NOT_ALLOCATED"
    BY <1>3, <1>9 DEF IsSentToGpu
  <2>2. d.exists /\ d.instance => e.buffer = e.size /\ p.devBytes = p.bytes
    BY <1>1, <1>3, <1>5, <1>7, <2>1 DEF IsSentToGpu, Laid
  <2>3. QED
    BY <1>1, <1>4, <1>5, <1>6, <1>7, <2>1, <2>2 DEF Laid
<1>10. QED
  BY <1>8, <1>9

LEMMA LaidToCpu ==
    ASSUME Follow, NEW o, IsEntry(o), Tidy(o), Laid(o), NEW mode \in Modes,
           o.d.instance => MayCopy(mode, o.d.gpu)
    PROVE  Laid(Transferred(o, TransferToCpu(o.d, mode)))
<1>1. PICK d, e : d = o.d /\ e = TransferToCpu(d, mode)
  OBVIOUS
<1>2. IsDataSet(d) /\ mode \in TransferMode
  BY <1>1, ModesAssumption DEF IsEntry
<1>3. IsSentToCpu(d, e, mode)
  BY <1>1, <1>2, TransferToCpuFields
<1>4. PICK p : p = Transferred(o, e)
  OBVIOUS
<1>5. /\ SameEntry(o, p) /\ p.d = e
      /\ p.offsets = o.offsets /\ p.bytes = o.bytes /\ p.devOffsets = o.devOffsets
      /\ p.devBytes = IF d.gpu = "RESIZED_ON_CPU" /\ e.gpu # "RESIZED_ON_CPU"
                      THEN o.bytes ELSE o.devBytes
  BY <1>1, <1>3, <1>4, TransferredFields DEF IsSentToCpu
<1>6. \E c \in Declarations : c.type = p.type /\ c.name = p.name /\ c.shape = p.shape
  BY <1>5 DEF Laid, SameEntry
<1>7. /\ p.shape = o.shape /\ e.exists = d.exists /\ e.instance = d.instance
      /\ e.size = d.size
  BY <1>3, <1>5 DEF IsSentToCpu, Keeps, SameEntry
<1>8. CASE ~d.instance \/ d.cpu = "NOT_ALLOCATED"
  <2>1. e = d
    BY <1>3, <1>8 DEF IsSentToCpu
  <2>2. p.devBytes = o.devBytes
    BY <1>5, <2>1
  <2>3. QED
    BY <1>1, <1>4, <1>5, <1>6, <1>7, <2>1, <2>2 DEF Laid
<1>9. CASE d.instance /\ d.cpu # "NOT_ALLOCATED"
  <2>1. d.gpu # "NOT_ALLOCATED" /\ e.gpu # "NOT_ALLOCATED"
    BY <1>1, <1>3, <1>9 DEF IsSentToCpu, Tidy
  <2>2. CASE d.gpu # "RESIZED_ON_CPU"
    <3>1. e.gpu # "RESIZED_ON_CPU" /\ e.buffer = d.buffer /\ p.devBytes = o.devBytes
      BY <1>3, <1>5, <1>9, <2>2 DEF IsSentToCpu
    <3>2. QED
      BY <1>1, <1>4, <1>5, <1>6, <1>7, <2>1, <2>2, <3>1 DEF Laid
  <2>3. CASE d.gpu = "RESIZED_ON_CPU" /\ mode = "SYNC_AND_MOVE"
    <3>1. ToCpuPush(d, mode)
      BY <1>1, <2>3 DEF ToCpuPush, Laid
    <3>2. e.gpu = "UP_TO_DATE_WRITE" /\ e.buffer = e.size /\ p.devBytes = p.bytes
      BY <1>3, <1>5, <1>7, <1>9, <2>3, <3>1 DEF IsSentToCpu
    <3>3. QED
      BY <1>1, <1>4, <1>5, <1>6, <1>7, <3>2 DEF Laid
  <2>4. CASE d.gpu = "RESIZED_ON_CPU" /\ mode # "SYNC_AND_MOVE"
    <3>1. e.gpu = "RESIZED_ON_CPU"
      BY <1>3, <1>9, <2>4 DEF IsSentToCpu
    <3>2. mode \notin {"COPY", "SYNC_AND_MOVE"}
      BY <1>1, <1>9, <2>4 DEF Follow, MayCopy, UpToDate
    <3>3. e.cpu \in {"UP_TO_DATE_WRITE", "UP_TO_DATE_READ"}
      BY <1>3, <1>9, <3>2 DEF IsSentToCpu
    <3>4. QED
      BY <1>1, <1>4, <1>5, <1>6, <1>7, <3>1, <3>3 DEF Laid
  <2>5. QED
    BY <2>2, <2>3, <2>4
<1>10. QED
  BY <1>8, <1>9

LEMMA LaidResize ==
    ASSUME NEW o, IsEntry(o), Tidy(o), Laid(o), NEW n
    PROVE  Laid(ResizeEntry(o, n))
<1>1. PICK d, e : d = o.d /\ e = ResizeData(d, n)
  OBVIOUS
<1>2. /\ e.exists = d.exists /\ e.instance = d.instance
      /\ d.instance => e.gpu = "RESIZED_ON_CPU" /\ e.cpu = "UP_TO_DATE_WRITE"
      /\ ~d.instance => e.gpu = d.gpu
  BY <1>1, ResizeFields DEF IsEntry
<1>3. PICK p : p = ResizeEntry(o, n)
  OBVIOUS
<1>4. /\ SameEntry(o, p) /\ p.d = e
      /\ p.offsets = o.offsets /\ p.devOffsets = o.devOffsets
  BY <1>1, <1>3, ResizeEntryFields
<1>5. \E c \in Declarations : c.type = p.type /\ c.name = p.name /\ c.shape = p.shape
  BY <1>4 DEF Laid, SameEntry
<1>6. p.shape = o.shape
  BY <1>4 DEF SameEntry
<1>7. ~d.instance => e.gpu = "NOT_ALLOCATED"
  BY <1>1, <1>2 DEF Tidy
<1>8. QED
  BY <1>1, <1>2, <1>3, <1>4, <1>5, <1>6, <1>7 DEF Laid

LEMMA LaidStep ==
    ASSUME Follow, NEW o, IsEntry(o), Tidy(o), Laid(o), NEW p, EntryStep(o, p)
    PROVE  Laid(p)
<1>1. PICK s : s = SetupEntry(o)
  OBVIOUS
<1>2. CASE Resizes(o, p)
  BY <1>2, LaidResize DEF Resizes
<1>3. CASE Moves(o, p)
  <2>1. MayMove(o)
    BY <1>3 DEF Moves
  <2>2. IsEntry(s) /\ Tidy(s) /\ Laid(s)
    BY <1>1, <2>1, TidyFreedSetup, LaidSetup
  <2>3. ASSUME NEW mode \in Modes, p = Transferred(s, TransferToGpu(s.d, mode))
        PROVE  Laid(p)
    BY <2>2, <2>3, LaidToGpu
  <2>4. ASSUME NEW mode \in Modes, o.d.instance => MayCopy(mode, o.d.gpu),
               p = Transferred(o, TransferToCpu(o.d, mode))
        PROVE  Laid(p)
    BY <2>4, LaidToCpu
  <2>5. QED
    BY <1>1, <1>3, <2>2, <2>3, <2>4 DEF Moves
<1>4. CASE Frees(o, p)
  <2>1. /\ SameEntry(o, p) /\ SameLayout(o, p)
        /\ p.d.size = o.d.size /\ p.d.instance = o.d.instance
        /\ p.d.cpu = o.d.cpu /\ p.d.gpu = o.d.gpu /\ p.d.buffer = o.d.buffer
    BY <1>4, DeallocatedFields DEF Frees
  <2>2. QED
    BY <2>1 DEF Laid, SameEntry, SameLayout
<1>5. QED
  BY <1>2, <1>3, <1>4 DEF EntryStep

\* the shape it is registered with is the one it was retrieved with
LEMMA LaidRegisters ==
    ASSUME NEW o, IsEntry(o), Tidy(o), Laid(o), NEW p, Registers(o, p)
    PROVE  Laid(p)
<1>1. PICK c \in Declarations :
          /\ o.d.exists = FALSE /\ o.type = c.type /\ o.name = c.name
          /\ IsResolved(o, p, c.shape)
  BY RegistersResolved
<1>2. PICK b \in Declarations : b.type = o.type /\ b.name = o.name /\ b.shape = o.shape
  BY DEF Laid
<1>3. PICK shape : shape = o.shape
  OBVIOUS
<1>4. c.shape = shape
  BY <1>1, <1>2, <1>3, DeclarationsAssumption
<1>5. IsResolved(o, p, shape)
  BY <1>1, <1>4
<1>6. \E a \in Declarations : a.type = p.type /\ a.name = p.name /\ a.shape = p.shape
  BY <1>2, <1>5 DEF IsResolved
<1>7. o.d.instance => /\ shape = <<>> /\ o.devOffsets = <<>>
                      /\ p.d.gpu = "RESIZED_ON_CPU" /\ p.d.cpu = "UP_TO_DATE_WRITE"
  BY <1>1, <1>3, <1>5 DEF Laid, IsResolved
<1>8. ~o.d.instance => p.d.gpu = "NOT_ALLOCATED"
  BY <1>5 DEF IsResolved, Tidy
<1>9. o.d.instance => p.offsets = <<>>
  BY <1>5, <1>7 DEF IsResolved, Offsets
<1>10. p.d.exists = TRUE /\ p.d.instance = o.d.instance /\ p.devOffsets = o.devOffsets
  BY <1>5 DEF IsResolved
<1>11. QED
  BY <1>6, <1>7, <1>8, <1>9, <1>10 DEF Laid

LEMMA LaidAppears ==
    ASSUME NEW p, Appears(p)
    PROVE  Laid(p)
BY AppearsNew DEF IsNew, Laid

LaidEntries == \A id \in DOMAIN heap : Laid(heap[id])

LEMMA LaidNext ==
    ASSUME Follow, Tables, Heap, TidyEntries, LaidEntries, Running, [Next]_vars, Running'
    PROVE  LaidEntries'
<1> SUFFICES ASSUME NEW id \in DOMAIN heap'
             PROVE  Laid(heap'[id])
  BY DEF LaidEntries
<1>1. PICK p : p = heap'[id]
  OBVIOUS
<1>2. ASSUME id \in DOMAIN heap, EntryStep(heap[id], p)
      PROVE  Laid(p)
  BY <1>2, LaidStep DEF Heap, TidyEntries, LaidEntries
<1>3. ASSUME id \in DOMAIN heap, Registers(heap[id], p)
      PROVE  Laid(p)
  BY <1>3, LaidRegisters DEF Heap, TidyEntries, LaidEntries
<1>4. ASSUME Appears(p)
      PROVE  Laid(p)
  BY <1>4, LaidAppears
<1>5. QED
  BY <1>1, <1>2, <1>3, <1>4, HeapSteps

\* In a program that sends no entry with a shape to the GPU before it is
\* registered, and copies only from a device that owns the entry, as assert()
\* demands of it (gpu_manager_t.cpp, lines 97 and 330), a device copy that kernels
\* may use has the size, the bytes and the strides of its entry, whatever transfer
\* modes are mixed (allocate_gpu_data_ptr, resize_gpu_data_ptr, set_offsets).
THEOREM DevicesAlwaysFollow ==
    ASSUME "early_offsets" \notin Waived, "copy" \notin Waived
    PROVE  Spec => []DeviceFollowsHost
<1> DEFINE Inv == Running => TidyEntries /\ LaidEntries
<1>1. Init => Inv
  BY DEF Init, TidyEntries, LaidEntries
<1>2. Registry /\ Inv /\ [Next]_vars => Inv'
  <2> SUFFICES ASSUME Registry, Inv, [Next]_vars
               PROVE  Inv'
    OBVIOUS
  <2>1. CASE ~Running
    BY <2>1, EndedForGood DEF vars, Running
  <2>2. CASE Running
    <3>1. Tables /\ Heap /\ TidyEntries /\ LaidEntries /\ Follow
      BY <2>2 DEF Registry, Follow
    <3>2. Running' => TidyEntries' /\ LaidEntries'
      BY <2>2, <3>1, TidyFreedNext, LaidNext
    <3>3. QED
      BY <3>2
  <2>3. QED
    BY <2>1, <2>2
<1>3. Registry /\ Inv => DeviceFollowsHost
  <2> SUFFICES ASSUME Tables, LaidEntries, NEW id \in Registered
               PROVE  LET o == heap[id]
                      IN  o.d.instance /\ o.d.gpu # "RESIZED_ON_CPU" =>
                              /\ o.d.buffer = o.d.size
                              /\ o.devBytes = o.bytes
                              /\ o.devOffsets = o.offsets
    BY DEF DeviceFollowsHost, Registry
  <2>1. PICK T \in StorageTypes : id \in RegisteredOf(T)
    BY DEF Registered
  <2>2. PICK name \in DOMAIN m_data[T] : id = m_data[T][name]
    BY <2>1 DEF RegisteredOf
  <2>3. name \in Names(T) /\ IdOf(T, name) = id
    BY <2>2 DEF Names, NamesIn, IdOf, IdIn
  <2>4. id \in DOMAIN heap /\ heap[id].d.exists = TRUE
    BY <2>1, <2>2, <2>3 DEF Tables
  <2>5. Laid(heap[id])
    BY <2>4 DEF LaidEntries
  <2>6. QED
    BY <2>4, <2>5 DEF Laid
<1>4. QED
  BY <1>1, <1>2, <1>3, RegistryAlways, PTL DEF Spec

-----------------------------------------------------------------------------
(* The entries have their sizes, and their values their places.             *)

\* An entry has the values and the shape of a declaration, and a registered one the
\* offsets of its shape, the bytes of its size and, with memory, memory for them.
Fits(o) ==
    /\ \E c \in Declarations : /\ c.type = o.type /\ c.name = o.name
                               /\ c.pod = o.pod /\ c.shape = o.shape
    /\ o.d.size \in Nat
    /\ o.d.exists =>
          /\ o.offsets = Offsets(o.shape)
          /\ o.bytes = LaidBytes(o.pod, o.offsets, o.d.size)
          /\ o.d.mapped => o.alloc = o.bytes

\* no entry with a shape is resized, and memory is asked for entries of single bytes
Flat == "multi_dim" \notin Waived /\ "allocate_bytes" \notin Waived

LEMMA ElementBytesPositive ==
    ASSUME NEW pod \in PODs
    PROVE  ElementBytes(pod) \in Nat \ {0}
BY DEF PODs, ElementBytes

\* the bytes of a resize are those of the layout where there are no offsets, or no values
LEMMA FlatBytes ==
    ASSUME NEW q, q.pod \in PODs, NEW n \in Nat, EntryValues(q.offsets) \in Nat \ {0},
           q.offsets # <<>> => n = 0
    PROVE  ResizedBytes(q, n) = LaidBytes(q.pod, q.offsets, n)
<1>1. PICK b, v : b = ElementBytes(q.pod) /\ v = EntryValues(q.offsets)
  OBVIOUS
<1>2. b \in Nat /\ v \in Nat
  BY <1>1, ElementBytesPositive
<1>3. LaidBytes(q.pod, q.offsets, n) = v * n * b
  BY <1>1 DEF LaidBytes
<1>4. CASE q.offsets = <<>>
  <2>1. ResizedBytes(q, n) = b * n /\ v = 1
    BY <1>1, <1>4 DEF ResizedBytes, EntryValues
  <2>2. 1 * n * b = b * n
    BY <1>2, SMTT(30)
  <2>3. QED
    BY <1>3, <2>1, <2>2
<1>5. CASE q.offsets # <<>>
  <2>1. ResizedBytes(q, n) = v * n /\ n = 0
    BY <1>1, <1>5 DEF ResizedBytes, EntryValues
  <2>2. v * 0 = 0 /\ v * 0 * b = 0
    BY <1>2, SMTT(30)
  <2>3. QED
    BY <1>3, <2>1, <2>2
<1>6. QED
  BY <1>4, <1>5

\* the bytes allocate_memory passes are the size of an entry of single bytes
LEMMA BytesOfBytes ==
    ASSUME NEW o, Fits(o), o.d.exists, o.pod = "UINT8", o.shape = <<>>
    PROVE  o.bytes = o.d.size
<1>1. o.bytes = LaidBytes(o.pod, o.offsets, o.d.size) /\ o.offsets = <<>>
  BY DEF Fits, Offsets
<1>2. ElementBytes(o.pod) = 1
  BY DEF ElementBytes
<1>3. PICK size : size = o.d.size
  OBVIOUS
<1>4. size \in Nat
  BY <1>3 DEF Fits
<1>5. LaidBytes(o.pod, o.offsets, size) = 1 * size * 1
  BY <1>1, <1>2, <1>3 DEF LaidBytes, EntryValues
<1>6. QED
  BY <1>1, <1>3, <1>4, <1>5

LEMMA FitsDeclared ==
    ASSUME NEW o, Fits(o)
    PROVE  o.pod \in PODs /\ o.shape \in Seq(Nat \ {0})
BY DeclarationsAssumption DEF Fits

LEMMA FitsResize ==
    ASSUME Flat, NEW o, IsEntry(o), Fits(o), NEW n \in Nat, MayResize(o, n)
    PROVE  Fits(ResizeEntry(o, n))
<1>1. PICK d, e : d = o.d /\ e = ResizeData(d, n)
  OBVIOUS
<1>2. e.exists = d.exists /\ e.size = n
  BY <1>1, ResizeFields DEF IsEntry
<1>3. PICK p : p = ResizeEntry(o, n)
  OBVIOUS
<1>4. /\ SameEntry(o, p) /\ p.d = e
      /\ p.bytes = ResizedBytes(o, n) /\ p.offsets = o.offsets
      /\ d.exists => p.alloc = p.bytes
  BY <1>1, <1>3, ResizeEntryFields
<1>5. /\ \E c \in Declarations : /\ c.type = p.type /\ c.name = p.name
                                 /\ c.pod = p.pod /\ c.shape = p.shape
      /\ p.d.size \in Nat
  BY <1>2, <1>4 DEF Fits, SameEntry
<1>6. ASSUME d.exists
      PROVE  /\ p.offsets = Offsets(p.shape)
             /\ p.bytes = LaidBytes(p.pod, p.offsets, p.d.size)
             /\ p.d.mapped => p.alloc = p.bytes
  <2>1. o.shape = <<>>
    BY <1>1, <1>6 DEF MayResize, Flat
  <2>2. o.offsets = <<>> /\ Offsets(o.shape) = <<>>
    BY <1>1, <1>6, <2>1 DEF Fits, Offsets
  <2>3. EntryValues(o.offsets) \in Nat \ {0}
    BY <2>2 DEF EntryValues
  <2>4. ResizedBytes(o, n) = LaidBytes(o.pod, o.offsets, n)
    BY <2>2, <2>3, FitsDeclared, FlatBytes
  <2>5. QED
    BY <1>2, <1>4, <1>6, <2>2, <2>4 DEF SameEntry
<1>7. p.d.exists = d.exists
  BY <1>2, <1>4
<1>8. Fits(p)
  BY <1>5, <1>6, <1>7 DEF Fits
<1>9. QED
  BY <1>3, <1>8

\* what keeps the entry, its layout, its size and its memory
KeepsFit(o, p) ==
    /\ SameEntry(o, p)
    /\ p.offsets = o.offsets /\ p.bytes = o.bytes
    /\ p.d.size = o.d.size
    /\ p.d.mapped => o.d.mapped /\ p.alloc = o.alloc

LEMMA FitsKept ==
    ASSUME NEW o, Fits(o), NEW p, KeepsFit(o, p)
    PROVE  Fits(p)
BY DEF Fits, KeepsFit, SameEntry

LEMMA KeptTransitive ==
    ASSUME NEW o, NEW p, NEW q, KeepsFit(o, p), KeepsFit(p, q)
    PROVE  KeepsFit(o, q)
BY DEF KeepsFit, SameEntry

LEMMA SetupKeepsFit ==
    ASSUME NEW o, IsEntry(o)
    PROVE  KeepsFit(o, SetupEntry(o))
<1>1. PICK s : s = SetupEntry(o)
  OBVIOUS
<1>2. /\ SameEntry(o, s) /\ s.alloc = o.alloc
      /\ s.d = Setup(o.d)
      /\ s.offsets = o.offsets /\ s.bytes = o.bytes
  BY <1>1, SetupEntryFields DEF SameLayout
<1>3. s.d.mapped = o.d.mapped /\ s.d.size = o.d.size
  <2>1. IsSetup(o.d, s.d)
    BY <1>2, SetupFields DEF IsEntry
  <2>2. QED
    BY <2>1 DEF IsSetup
<1>4. QED
  BY <1>1, <1>2, <1>3 DEF KeepsFit

LEMMA TransferKeepsFit ==
    ASSUME NEW o, IsEntry(o), NEW d, Keeps(o.d, d)
    PROVE  KeepsFit(o, Transferred(o, d))
BY TransferredFields DEF KeepsFit, Keeps

LEMMA MovesKeepFit ==
    ASSUME NEW o, IsEntry(o), NEW p, Moves(o, p)
    PROVE  KeepsFit(o, p)
<1>1. PICK s : s = SetupEntry(o)
  OBVIOUS
<1>2. KeepsFit(o, s) /\ IsEntry(s)
  BY <1>1, SetupKeepsFit DEF KeepsFit, SameEntry
<1>3. ASSUME NEW mode \in Modes, p = Transferred(s, TransferToGpu(s.d, mode))
      PROVE  KeepsFit(o, p)
  <2>1. Keeps(s.d, TransferToGpu(s.d, mode))
    BY <1>2, TransferToGpuFields, ModesAssumption DEF IsEntry, IsSentToGpu
  <2>2. QED
    BY <1>2, <1>3, <2>1, TransferKeepsFit, KeptTransitive
<1>4. ASSUME NEW mode \in Modes, p = Transferred(o, TransferToCpu(o.d, mode))
      PROVE  KeepsFit(o, p)
  <2>1. Keeps(o.d, TransferToCpu(o.d, mode))
    BY TransferToCpuFields, ModesAssumption DEF IsEntry, IsSentToCpu
  <2>2. QED
    BY <1>4, <2>1, TransferKeepsFit
<1>5. QED
  BY <1>1, <1>2, <1>3, <1>4 DEF Moves

LEMMA FreesKeepFit ==
    ASSUME NEW o, IsEntry(o), NEW p, Frees(o, p)
    PROVE  KeepsFit(o, p)
BY DeallocatedFields DEF Frees, KeepsFit, SameLayout

LEMMA FitsStep ==
    ASSUME Flat, NEW o, IsEntry(o), Fits(o), NEW p, EntryStep(o, p)
    PROVE  Fits(p)
<1>1. CASE Resizes(o, p)
  <2>1. PICK n : /\ \/ n \in 0 .. MaxSize
                    \/ n = o.bytes /\ o.d.exists /\ o.pod = "UINT8" /\ o.shape = <<>>
                 /\ MayResize(o, n)
                 /\ p = ResizeEntry(o, n)
    BY <1>1 DEF Resizes, Flat
  <2>2. n \in Nat
    <3>1. CASE n \in 0 .. MaxSize
      BY <3>1, MaxSizeAssumption
    <3>2. CASE n = o.bytes /\ o.d.exists /\ o.pod = "UINT8" /\ o.shape = <<>>
      BY <3>2, BytesOfBytes DEF Fits
    <3>3. QED
      BY <2>1, <3>1, <3>2
  <2>3. QED
    BY <2>1, <2>2, FitsResize
<1>2. CASE Moves(o, p) \/ Frees(o, p)
  BY <1>2, MovesKeepFit, FreesKeepFit, FitsKept
<1>3. QED
  BY <1>1, <1>2 DEF EntryStep

LEMMA FitsRegisters ==
    ASSUME Flat, NEW o, IsEntry(o), Fits(o), NEW p, Registers(o, p)
    PROVE  Fits(p) /\ p.type = o.type /\ p.d.size = o.d.size
<1>1. PICK c \in Declarations :
          /\ o.type = c.type /\ o.name = c.name /\ o.pod = c.pod
          /\ c.shape # <<>> => o.d.size = 0
          /\ IsResolved(o, p, c.shape)
  BY RegistersResolved DEF Flat
<1>2. PICK shape, size : shape = c.shape /\ size = o.d.size
  OBVIOUS
<1>3. o.shape = shape
  BY <1>1, <1>2, DeclarationsAssumption DEF Fits
<1>4. size \in Nat /\ (shape # <<>> => size = 0) /\ IsResolved(o, p, shape)
  BY <1>1, <1>2 DEF Fits
<1>5. /\ p.type = o.type /\ p.name = o.name /\ p.pod = o.pod /\ p.shape = shape
      /\ p.d.size = size /\ p.offsets = Offsets(shape)
      /\ p.bytes = ResizedBytes(p, size) /\ p.alloc = p.bytes
  BY <1>2, <1>3, <1>4 DEF IsResolved
<1>6. p.pod \in PODs /\ shape \in Seq(Nat \ {0})
  BY <1>3, <1>5, FitsDeclared
<1>7. EntryValues(p.offsets) \in Nat \ {0}
  BY <1>4, <1>5, <1>6, ShapeFits
<1>8. p.offsets # <<>> => size = 0
  BY <1>4, <1>5 DEF Offsets
<1>9. p.bytes = LaidBytes(p.pod, p.offsets, size)
  BY <1>4, <1>5, <1>6, <1>7, <1>8, FlatBytes
<1>10. \E b \in Declarations : /\ b.type = p.type /\ b.name = p.name
                               /\ b.pod = p.pod /\ b.shape = p.shape
  BY <1>1, <1>2, <1>5
<1>11. QED
  BY <1>2, <1>4, <1>5, <1>9, <1>10 DEF Fits

\* a size is a number, and every entry has the size of its type
Sizes ==
    /\ DOMAIN m_num_elements = StorageTypes
    /\ \A T \in StorageTypes : NumEntries(T) \in Nat
    /\ \A id \in DOMAIN heap :
          heap[id].type # "VECTOR" => heap[id].d.size = NumEntries(heap[id].type)

FitEntries == \A id \in DOMAIN heap : Fits(heap[id])

LEMMA FitsAppears ==
    ASSUME Sizes, NEW p, Appears(p)
    PROVE  Fits(p) /\ p.type \in StorageTypes /\ p.d.size = NumEntries(p.type)
<1>1. PICK c \in Declarations, unresolved \in BOOLEAN :
          \E n : n = NumEntries(c.type) /\ IsNew(p, c, n, unresolved)
  BY AppearsNew
<1>2. PICK n : n = NumEntries(c.type) /\ IsNew(p, c, n, unresolved)
  BY <1>1
<1>3. c.type \in StorageTypes /\ n \in Nat
  BY <1>2, DeclarationsAssumption DEF Sizes
<1>4. p.type = c.type /\ p.d.size = n
  BY <1>2 DEF IsNew
<1>5. Fits(p)
  BY <1>2, <1>3 DEF IsNew, Fits
<1>6. QED
  BY <1>2, <1>3, <1>4, <1>5

LEMMA FitsNext ==
    ASSUME Flat, Tables, Heap, Sizes, FitEntries, Running, [Next]_vars, Running'
    PROVE  FitEntries'
<1> SUFFICES ASSUME NEW id \in DOMAIN heap'
             PROVE  Fits(heap'[id])
  BY DEF FitEntries
<1>1. PICK p : p = heap'[id]
  OBVIOUS
<1>2. ASSUME id \in DOMAIN heap, EntryStep(heap[id], p)
      PROVE  Fits(p)
  BY <1>2, FitsStep DEF Heap, FitEntries
<1>3. ASSUME id \in DOMAIN heap, Registers(heap[id], p)
      PROVE  Fits(p)
  BY <1>3, FitsRegisters DEF Heap, FitEntries
<1>4. ASSUME Appears(p)
      PROVE  Fits(p)
  BY <1>4, FitsAppears
<1>5. QED
  BY <1>1, <1>2, <1>3, <1>4, HeapSteps

\* registering and retrieving change no size
LEMMA SizesDeclared ==
    ASSUME Flat, Tables, Heap, Sizes, FitEntries, Running, Running', NEW c \in Declarations,
           RetrieveEntry(c) \/ \E allocate_mem \in BOOLEAN : RegisterEntry(c, allocate_mem)
    PROVE  Sizes'
<1>1. UNCHANGED m_num_elements
  BY DEF RetrieveEntry, RegisterEntry, CreateEntry, Abort
<1>2. \A T : NumEntries(T)' = NumEntries(T)
  BY <1>1 DEF NumEntries
<1>3. Resolve(c) \/ Create(c) \/ Refer(c)
  BY RetrieveKinds, RegisterKinds DEF Running
<1>4. ASSUME NEW id \in DOMAIN heap'
      PROVE  \/ id \in DOMAIN heap /\ heap'[id] = heap[id]
             \/ id \in DOMAIN heap /\ Registers(heap[id], heap'[id])
             \/ Appears(heap'[id])
  BY <1>3, <1>4, ResolveSteps, CreateSteps DEF Refer
<1>5. ASSUME NEW id \in DOMAIN heap', heap'[id].type # "VECTOR"
      PROVE  heap'[id].d.size = NumEntries(heap'[id].type)
  <2>1. PICK p : p = heap'[id]
    OBVIOUS
  <2>2. CASE id \in DOMAIN heap /\ p = heap[id]
    BY <1>5, <2>1, <2>2 DEF Sizes
  <2>3. CASE id \in DOMAIN heap /\ Registers(heap[id], p)
    <3>1. p.type = heap[id].type /\ p.d.size = heap[id].d.size
      BY <2>3, FitsRegisters DEF Heap, FitEntries
    <3>2. QED
      BY <1>5, <2>1, <2>3, <3>1 DEF Sizes
  <2>4. CASE Appears(p)
    BY <2>1, <2>4, FitsAppears
  <2>5. QED
    BY <1>4, <2>1, <2>2, <2>3, <2>4
<1>6. QED
  BY <1>1, <1>2, <1>5 DEF Sizes

\* silo::resize gives all the entries of a type the new size
LEMMA SizesResize ==
    ASSUME Tables, Heap, Sizes, NEW T \in StorageTypes, NEW n \in 0 .. MaxSize, Resize(T, n)
    PROVE  Sizes'
<1>1. /\ heap' = [id \in DOMAIN heap |->
                     IF id \in Visited(T) THEN ResizeEntry(heap[id], n) ELSE heap[id]]
      /\ m_num_elements' = [m_num_elements EXCEPT ![T] = n]
  BY DEF Resize
<1>2. n \in Nat /\ n # Unset
  BY MaxSizeAssumption DEF Unset
<1>3. /\ DOMAIN m_num_elements' = StorageTypes
      /\ NumEntries(T)' = n
      /\ \A S \in StorageTypes : S # T => NumEntries(S)' = NumEntries(S)
  BY <1>1, <1>2 DEF Sizes, NumEntries
<1>4. ASSUME NEW id \in DOMAIN heap
      PROVE  id \in Visited(T) <=> heap[id].type = T
  <2>1. PICK S, name : S = heap[id].type /\ name = heap[id].name
    OBVIOUS
  <2>2. S \in StorageTypes /\ name \in Names(S) /\ IdOf(S, name) = id
    BY <2>1 DEF Tables
  <2>3. CASE S = T
    BY <2>1, <2>2, <2>3 DEF Names, NamesIn, IdOf, IdIn, Visited, RegisteredOf, UnresolvedOf
  <2>4. ASSUME id \in Visited(T)
        PROVE  S = T
    <3>1. PICK label \in Names(T) : id = IdOf(T, label)
      <4>1. CASE id \in RegisteredOf(T)
        BY <4>1 DEF RegisteredOf, Names, NamesIn, IdOf, IdIn
      <4>2. CASE id \in UnresolvedOf(T)
        <5>1. PICK label \in DOMAIN m_unresolved_data[T] : id = m_unresolved_data[T][label]
          BY <4>2 DEF UnresolvedOf
        <5>2. label \notin DOMAIN m_data[T]
          BY <5>1 DEF Tables
        <5>3. QED
          BY <5>1, <5>2 DEF Names, NamesIn, IdOf, IdIn
      <4>3. QED
        BY <2>4, <4>1, <4>2 DEF Visited
    <3>2. heap[IdOf(T, label)].type = T
      BY <3>1 DEF Tables
    <3>3. QED
      BY <2>1, <3>1, <3>2
  <2>5. QED
    BY <2>1, <2>3, <2>4
<1>5. ASSUME NEW id \in DOMAIN heap', NEW S, S = heap'[id].type, S # "VECTOR"
      PROVE  heap'[id].d.size = NumEntries(S)'
  <2>1. id \in DOMAIN heap
    BY <1>1
  <2>2. IsEntry(heap[id]) /\ heap[id].type \in StorageTypes
    BY <2>1 DEF Heap, Tables
  <2>3. CASE heap[id].type = T
    <3>1. heap'[id] = ResizeEntry(heap[id], n)
      BY <1>1, <1>4, <2>1, <2>3
    <3>2. heap'[id].type = T /\ heap'[id].d = ResizeData(heap[id].d, n)
      BY <2>2, <2>3, <3>1, ResizeEntryFields DEF SameEntry
    <3>3. ResizeData(heap[id].d, n).size = n
      BY <2>2, ResizeFields DEF IsEntry
    <3>4. S = T
      BY <1>5, <3>2
    <3>5. QED
      BY <1>3, <3>2, <3>3, <3>4
  <2>4. CASE heap[id].type # T
    <3>1. heap'[id] = heap[id]
      BY <1>1, <1>4, <2>1, <2>4
    <3>2. S \in StorageTypes /\ S # T /\ S = heap[id].type
      BY <1>5, <2>2, <2>4, <3>1
    <3>3. NumEntries(S)' = NumEntries(S)
      BY <1>3, <3>2
    <3>4. heap[id].d.size = NumEntries(S)
      BY <1>5, <2>1, <3>2 DEF Sizes
    <3>5. QED
      BY <3>1, <3>3, <3>4
  <2>5. QED
    BY <2>3, <2>4
<1>6. \A S \in StorageTypes : NumEntries(S)' \in Nat
  BY <1>2, <1>3 DEF Sizes
<1>7. \A id \in DOMAIN heap' : \A S :
          S = heap'[id].type /\ S # "VECTOR" => heap'[id].d.size = NumEntries(S)'
  BY <1>5
<1>8. QED
  BY <1>3, <1>6, <1>7 DEF Sizes, NumEntries

\* nothing else does, but for an entry of type VECTOR
LEMMA SizesUpdate ==
    ASSUME Tables, Heap, Sizes, NEW h \in handles, NEW p, Update(h.id, p),
           p.type = heap[h.id].type,
           p.type # "VECTOR" => p.d.size = heap[h.id].d.size
    PROVE  Sizes'
<1>1. /\ UNCHANGED m_num_elements
      /\ DOMAIN heap' = DOMAIN heap
      /\ heap' = [heap EXCEPT ![h.id] = p]
  BY DEF Update
<1>2. \A T : NumEntries(T)' = NumEntries(T)
  BY <1>1 DEF NumEntries
<1>3. ASSUME NEW id \in DOMAIN heap', heap'[id].type # "VECTOR"
      PROVE  heap'[id].d.size = NumEntries(heap'[id].type)
  <2>1. CASE id = h.id
    BY <1>1, <1>3, <2>1 DEF Sizes
  <2>2. CASE id # h.id
    BY <1>1, <1>3, <2>2 DEF Sizes
  <2>3. QED
    BY <2>1, <2>2
<1>4. QED
  BY <1>1, <1>2, <1>3 DEF Sizes

LEMMA SizesHandle ==
    ASSUME Flat, Tables, Heap, Sizes, FitEntries, Running, Running', NEW h \in handles,
           \/ \E n \in 0 .. MaxSize : ResizeVector(h, n)
           \/ AllocateMemory(h) \/ DeallocateMemory(h)
           \/ SetupArgument(h)
           \/ \E mode \in Modes : MoveToGpu(h, mode) \/ MoveToCpu(h, mode)
    PROVE  Sizes'
<1>1. PICK o : o = heap[h.id]
  OBVIOUS
<1>2. IsEntry(o) /\ Fits(o) /\ o.type = h.type
  BY <1>1 DEF Tables, Heap, FitEntries
<1>3. \A n : /\ ResizeEntry(o, n).type = o.type
             /\ ResizeEntry(o, n).d.size = n
  BY <1>2, ResizeEntryFields, ResizeFields DEF SameEntry, IsEntry
<1>4. \A p : KeepsFit(o, p) => p.type = o.type /\ p.d.size = o.d.size
  BY DEF KeepsFit, SameEntry
<1>5. ~Abort /\ ~Fail
  BY DEF Abort, Fail, Running
<1>6. ASSUME NEW n \in 0 .. MaxSize, ResizeVector(h, n)
      PROVE  Sizes'
  <2>1. PICK p : p = ResizeEntry(o, n)
    OBVIOUS
  <2>2. Update(h.id, p) /\ p.type = o.type /\ p.type = "VECTOR"
    BY <1>1, <1>2, <1>3, <1>6, <2>1 DEF ResizeVector
  <2>3. QED
    BY <1>1, <2>2, SizesUpdate
<1>7. CASE AllocateMemory(h)
  <2>1. PICK p : p = ResizeEntry(o, o.bytes)
    OBVIOUS
  <2>2. o.d.exists /\ o.pod = "UINT8" /\ o.shape = <<>> /\ Update(h.id, p)
    BY <1>1, <1>5, <1>7, <2>1 DEF AllocateMemory, Flat
  <2>3. p.type = o.type /\ p.d.size = o.d.size
    BY <1>2, <1>3, <2>1, <2>2, BytesOfBytes
  <2>4. QED
    BY <1>1, <2>2, <2>3, SizesUpdate
<1>8. CASE DeallocateMemory(h)
  <2>1. PICK p : p = [o EXCEPT !.d.mapped = FALSE, !.alloc = 0]
    OBVIOUS
  <2>2. Update(h.id, p)
    BY <1>1, <1>5, <1>8, <2>1 DEF DeallocateMemory
  <2>3. KeepsFit(o, p)
    BY <1>2, <2>1, FreesKeepFit DEF Frees
  <2>4. QED
    BY <1>1, <1>4, <2>2, <2>3, SizesUpdate
<1>9. ASSUME NEW p, Moves(o, p), Update(h.id, p)
      PROVE  Sizes'
  BY <1>1, <1>2, <1>4, <1>9, MovesKeepFit, SizesUpdate
<1>10. ASSUME SetupArgument(h)
       PROVE  \E p : Moves(o, p) /\ Update(h.id, p)
  BY <1>1, <1>10 DEF SetupArgument, Moves
<1>11. ASSUME NEW mode \in Modes, MoveToGpu(h, mode)
       PROVE  \E p : Moves(o, p) /\ Update(h.id, p)
  BY <1>1, <1>5, <1>11 DEF MoveToGpu, Moves
<1>12. ASSUME NEW mode \in Modes, MoveToCpu(h, mode)
       PROVE  \E p : Moves(o, p) /\ Update(h.id, p)
  BY <1>1, <1>5, <1>12 DEF MoveToCpu, Moves
<1>13. QED
  BY <1>6, <1>7, <1>8, <1>9, <1>10, <1>11, <1>12

LEMMA SizesNext ==
    ASSUME Flat, Tables, Heap, Sizes, FitEntries, Running, [Next]_vars, Running'
    PROVE  Sizes'
<1>1. CASE UNCHANGED vars
  BY <1>1 DEF vars, Sizes, NumEntries
<1>2. ASSUME NEW c \in Declarations,
             RetrieveEntry(c) \/ \E allocate_mem \in BOOLEAN : RegisterEntry(c, allocate_mem)
      PROVE  Sizes'
  BY <1>2, SizesDeclared
<1>3. ASSUME NEW T \in {c.type : c \in Declarations}, NEW n \in 0 .. MaxSize, Resize(T, n)
      PROVE  Sizes'
  <2>1. T \in StorageTypes
    BY DeclarationsAssumption
  <2>2. QED
    BY <1>3, <2>1, SizesResize
<1>4. ASSUME NEW h \in handles,
             \/ \E n \in 0 .. MaxSize : ResizeVector(h, n)
             \/ AllocateMemory(h) \/ DeallocateMemory(h)
             \/ SetupArgument(h)
             \/ \E mode \in Modes : MoveToGpu(h, mode) \/ MoveToCpu(h, mode)
      PROVE  Sizes'
  BY <1>4, SizesHandle
<1>5. ~ClearEntries /\ ~Ended
  BY DEF ClearEntries, Ended, Running
<1>6. QED
  BY <1>1, <1>2, <1>3, <1>4, <1>5 DEF Next

\* p + 1 values end where the bytes of m values do, or before
LEMMA BytesUpTo ==
    ASSUME NEW p \in Nat, NEW m \in Nat, NEW b \in Nat \ {0}, p + 1 <= m
    PROVE  (p + 1) * b <= m * b
BY SMTT(30)

LEMMA EntryFits ==
    ASSUME NEW o, Fits(o), o.d.exists
    PROVE  LET all == Indices(o.shape, o.d.size)
               places == {Place(o.offsets, index) : index \in all}
           IN  /\ Cardinality(places) = Cardinality(all)
               /\ \A p \in places :
                      /\ (p + 1) * ElementBytes(o.pod) <= o.bytes
                      /\ o.d.mapped => (p + 1) * ElementBytes(o.pod) <= o.alloc
<1>1. PICK s, n, F, b : s = o.shape /\ n = o.d.size /\ F = o.offsets /\ b = ElementBytes(o.pod)
  OBVIOUS
<1>2. s \in Seq(Nat \ {0}) /\ n \in Nat /\ b \in Nat \ {0}
  BY <1>1, FitsDeclared, ElementBytesPositive DEF Fits
<1>3. F = Offsets(s) /\ o.bytes = EntryValues(F) * n * b /\ (o.d.mapped => o.alloc = o.bytes)
  BY <1>1 DEF Fits, LaidBytes
<1>4. PICK all, places, m : /\ all = Indices(s, n) /\ m = EntryValues(F) * n
                            /\ places = {Place(F, index) : index \in all}
  OBVIOUS
<1>5. EntryValues(F) \in Nat /\ PlacesFit(F, all, n)
  BY <1>2, <1>3, <1>4, ShapeFits
<1>6. m \in Nat /\ o.bytes = m * b
  <2>1. m \in Nat
    BY <1>2, <1>4, <1>5, SMTT(30)
  <2>2. QED
    BY <1>3, <1>4, <2>1
<1>7. Cardinality(places) = Cardinality(all) /\ \A p \in places : p \in Nat /\ p + 1 <= m
  BY <1>4, <1>5 DEF PlacesFit
<1>8. \A p \in places : (p + 1) * b <= o.bytes
  BY ONLY <1>2, <1>6, <1>7, BytesUpTo
<1>9. QED
  BY <1>1, <1>3, <1>4, <1>7, <1>8

\* In a program that resizes no entry with a shape once it is registered, and
\* retrieves none before unless its type is empty, and calls allocate_memory for
\* entries of one byte each: whatever the sizes and the dimensions, a registered
\* entry has the size of its type, its indices denote different values, and all of
\* them lie in the memory it has and in the bytes that a transfer copies
\* (set_offsets, indexer::access, resize_internal, silo::resize).
THEOREM EntriesAlwaysFit ==
    ASSUME "multi_dim" \notin Waived, "allocate_bytes" \notin Waived
    PROVE  Spec => []EntriesFit
<1> DEFINE Inv == Running => Sizes /\ FitEntries
<1>1. Init => Inv
  <2> SUFFICES ASSUME Init
               PROVE  Sizes /\ FitEntries
    OBVIOUS
  <2>1. DOMAIN heap = {}
    BY DEF Init
  <2>2. \A T \in StorageTypes : NumEntries(T) \in Nat
    BY MaxSizeAssumption DEF Init, NumEntries, Unset
  <2>3. QED
    BY <2>1, <2>2 DEF Init, Sizes, FitEntries
<1>2. Registry /\ Inv /\ [Next]_vars => Inv'
  <2> SUFFICES ASSUME Registry, Inv, [Next]_vars
               PROVE  Inv'
    OBVIOUS
  <2>1. CASE ~Running
    BY <2>1, EndedForGood DEF vars, Running
  <2>2. CASE Running
    <3>1. Tables /\ Heap /\ Sizes /\ FitEntries /\ Flat
      BY <2>2 DEF Registry, Flat
    <3>2. Running' => Sizes' /\ FitEntries'
      BY <2>2, <3>1, SizesNext, FitsNext
    <3>3. QED
      BY <3>2
  <2>3. QED
    BY <2>1, <2>2
<1>3. Registry /\ Inv => EntriesFit
  <2> SUFFICES ASSUME Tables, Sizes, FitEntries, NEW id \in Registered
               PROVE  LET o == heap[id]
                          all == Indices(o.shape, o.d.size)
                          places == {Place(o.offsets, index) : index \in all}
                      IN  /\ o.type # "VECTOR" => o.d.size = NumEntries(o.type)
                          /\ Cardinality(places) = Cardinality(all)
                          /\ \A p \in places :
                                 /\ (p + 1) * ElementBytes(o.pod) <= o.bytes
                                 /\ o.d.mapped => (p + 1) * ElementBytes(o.pod) <= o.alloc
    BY DEF EntriesFit, Registry
  <2>1. PICK T \in StorageTypes : id \in RegisteredOf(T)
    BY DEF Registered
  <2>2. PICK name \in DOMAIN m_data[T] : id = m_data[T][name]
    BY <2>1 DEF RegisteredOf
  <2>3. name \in Names(T) /\ IdOf(T, name) = id
    BY <2>2 DEF Names, NamesIn, IdOf, IdIn
  <2>4. id \in DOMAIN heap /\ heap[id].d.exists = TRUE
    BY <2>1, <2>2, <2>3 DEF Tables
  <2>5. Fits(heap[id]) /\ (heap[id].type # "VECTOR" =>
                               heap[id].d.size = NumEntries(heap[id].type))
    BY <2>4 DEF FitEntries, Sizes
  <2>6. QED
    BY <2>4, <2>5, EntryFits
<1>4. QED
  BY <1>1, <1>2, <1>3, RegistryAlways, PTL DEF Spec
=============================================================================
