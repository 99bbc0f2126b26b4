---------------------------- MODULE StartProofs ----------------------------
(***************************************************************************)
(* What main does before its time loop, proved for any file, mesh and       *)
(* number of ranks: the set up of the grid and the solver (SolverSetup),    *)
(* and the input (InputParser), which is the last part.                     *)
(*                                                                         *)
(* The set up has four layers.  First what the operators return: FlattenSeq *)
(* and sums over finite sets, whose recursions are taken apart by induction *)
(* over their own sets, and the elements of a set in their order.  Then     *)
(* facts about the mesh that no rank is needed for: the slots of its        *)
(* neighbour list, the stripes, the numbers of the cells, which cells two   *)
(* ranks need of each other.  Then SetupInv, FacesInv and MatrixInv, which  *)
(* say of every rank what it has computed and given to the others as far as *)
(* it has come, with one lemma for each action.  Last, the properties.      *)
(***************************************************************************)
EXTENDS InputParser, SolverSetup, FiniteSetTheorems, SequenceTheorems, NaturalsInduction,
        WellFoundedInduction, TLAPS

-----------------------------------------------------------------------------
(* Induction up to a number, and FlattenSeq.                                *)

\* what holds of 0 and passes from each number to the next holds up to n
LEMMA UpTo ==
    ASSUME NEW n \in Nat, NEW T, 0 \in T, \A k \in 0 .. n - 1 : k \in T => k + 1 \in T
    PROVE  0 .. n \subseteq T
<1> DEFINE Bad == (0 .. n) \ T
<1>1. SUFFICES ASSUME Bad # {} PROVE FALSE
  OBVIOUS
<1>2. Bad \subseteq Nat
  OBVIOUS
<1>3. PICK k \in Bad : \A j \in Bad : ~(<<j, k>> \in OpToRel(<, Nat))
  <2> HIDE DEF Bad
  <2>1. QED
    BY <1>1, <1>2, WFMin, NatLessThanWellFounded
<1>4. k \in 0 .. n /\ k \notin T /\ k # 0
  BY <1>3
<1>5. k - 1 \in 0 .. n - 1 /\ (k - 1) + 1 = k /\ k - 1 \in Nat
  BY <1>4
<1>6. <<k - 1, k>> \in OpToRel(<, Nat)
  BY <1>4, <1>5 DEF OpToRel
<1>7. k - 1 \in T
  <2>1. k - 1 \notin Bad
    BY <1>3, <1>6
  <2>2. k - 1 \in 0 .. n
    BY <1>5
  <2>3. QED
    BY <2>1, <2>2
<1>8. QED
  BY <1>4, <1>5, <1>7

\* the recursion of FlattenSeq: g[i] is the first i sequences, one behind the other
Flat(g, s, n) == g = [i \in 1 .. n |-> IF i = 1 THEN s[i] ELSE g[i - 1] \o s[i]]

LEMMA FlatExists ==
    ASSUME NEW n \in Nat, NEW s
    PROVE  \E g : Flat(g, s, n)
<1> DEFINE T == {m \in 0 .. n : \E g : Flat(g, s, m)}
<1>1. 0 \in T
  <2>1. Flat(<<>>, s, 0)
    BY DEF Flat
  <2>2. QED
    BY <2>1
<1>2. ASSUME NEW m \in 0 .. n - 1, m \in T
      PROVE  m + 1 \in T
  <2>1. PICK g : Flat(g, s, m)
    BY <1>2
  <2> DEFINE h == [i \in 1 .. m + 1 |-> IF i = 1 THEN s[i] ELSE g[i - 1] \o s[i]]
  <2>2. ASSUME NEW i \in 1 .. m
        PROVE  h[i] = g[i]
    <3>1. g[i] = IF i = 1 THEN s[i] ELSE g[i - 1] \o s[i]
      BY <2>1 DEF Flat
    <3>2. i \in 1 .. m + 1
      BY <2>2
    <3>3. QED
      BY <3>1, <3>2
  <2>3. \A i \in 1 .. m + 1 : i # 1 => i - 1 \in 1 .. m
    OBVIOUS
  <2>4. \A i \in 1 .. m + 1 : i # 1 => h[i - 1] = g[i - 1]
    BY <2>2, <2>3
  <2>5. Flat(h, s, m + 1)
    BY <2>4 DEF Flat
  <2>6. QED
    BY <2>5
<1>3. n \in T
  <2> HIDE DEF T
  <2>1. QED
    BY <1>1, <1>2, UpTo
<1>4. QED
  BY <1>3

\* FlattenSeq is what its recursion ends in, and the recursion goes from one sequence
\* to the next
LEMMA FlattenIs ==
    ASSUME NEW n \in Nat \ {0}, NEW s, Len(s) = n
    PROVE  \E g : Flat(g, s, n) /\ FlattenSeq(s) = g[n]
<1>1. FlattenSeq(s) = (CHOOSE g : Flat(g, s, n))[n]
  BY DEF FlattenSeq, Flat
<1>2. Flat((CHOOSE g : Flat(g, s, n)), s, n)
  BY FlatExists
<1>3. QED
  BY <1>1, <1>2

LEMMA FlatSteps ==
    ASSUME NEW n \in Nat \ {0}, NEW s, NEW g, Flat(g, s, n)
    PROVE  g[1] = s[1] /\ \A m \in 1 .. n - 1 : g[m + 1] = g[m] \o s[m + 1]
<1>1. ASSUME NEW m \in 1 .. n - 1
      PROVE  g[m + 1] = g[m] \o s[m + 1]
  <2>1. m + 1 \in 1 .. n /\ m + 1 # 1 /\ (m + 1) - 1 = m
    OBVIOUS
  <2>2. PICK i : i = m + 1
    OBVIOUS
  <2>3. g[i] = g[i - 1] \o s[i]
    BY <2>1, <2>2 DEF Flat
  <2>4. QED
    BY <2>1, <2>2, <2>3
<1>2. g[1] = s[1]
  <2>1. 1 \in 1 .. n
    OBVIOUS
  <2>2. QED
    BY <2>1 DEF Flat
<1>3. QED
  BY <1>1, <1>2

LEMMA ConcatAt ==
    ASSUME NEW S, NEW s \in Seq(S), NEW t \in Seq(S)
    PROVE  /\ s \o t \in Seq(S) /\ Len(s \o t) = Len(s) + Len(t)
           /\ \A i \in 1 .. Len(s) : (s \o t)[i] = s[i]
           /\ \A j \in 1 .. Len(t) : (s \o t)[Len(s) + j] = t[j]
OBVIOUS

-----------------------------------------------------------------------------
(* Sums over finite sets.                                                   *)

\* the recursion of MapThenFoldSet: g[s] is the sum over the subset s
Chosen(s) == CHOOSE a \in s : TRUE
Recursion(g, f, S) ==
    g = [s \in SUBSET S |-> IF s = {} THEN 0 ELSE f[Chosen(s)] + g[s \ {Chosen(s)}]]

\* what holds of a set if it holds of it without any one of its elements, and of the
\* empty set, holds of every subset of a finite set
LEMMA SetInduction ==
    ASSUME NEW S, IsFiniteSet(S), NEW T, {} \in T,
           \A s \in SUBSET S : s # {} /\ (\A a \in s : s \ {a} \in T) => s \in T
    PROVE  SUBSET S \subseteq T
<1> DEFINE Bad == (SUBSET S) \ T
           R == StrictSubsetOrdering(S)
<1>1. SUFFICES ASSUME Bad # {} PROVE FALSE
  OBVIOUS
<1>2. Bad \subseteq FiniteSubsetsOf(S)
  BY FS_Subset DEF FiniteSubsetsOf
<1>3. IsWellFoundedOn(R, FiniteSubsetsOf(S))
  BY FS_StrictSubsetOrderingWellFounded
<1>4. PICK s \in Bad : \A u \in Bad : ~(<<u, s>> \in R)
  <2> HIDE DEF Bad, R
  <2>1. QED
    BY <1>1, <1>2, <1>3, WFMin
<1>5. ASSUME NEW a \in s
      PROVE  s \ {a} \in T
  <2>1. <<s \ {a}, s>> \in R
    BY <1>4 DEF StrictSubsetOrdering
  <2>2. QED
    BY <1>4, <2>1
<1>6. QED
  BY <1>4, <1>5

LEMMA ChosenIn ==
    ASSUME NEW s, s # {}
    PROVE  Chosen(s) \in s
BY DEF Chosen

\* the recursion has a solution over a finite set
LEMMA RecursionExists ==
    ASSUME NEW S, IsFiniteSet(S), NEW f
    PROVE  \E g : Recursion(g, f, S)
<1> DEFINE Up(k) == {s \in SUBSET S : Cardinality(s) <= k}
           Body(g, s) == IF s = {} THEN 0 ELSE f[Chosen(s)] + g[s \ {Chosen(s)}]
           Solves(g, k) == g = [s \in Up(k) |-> Body(g, s)]
           T == {k \in Nat : ~\E g : Solves(g, k)}
<1>1. \A s \in SUBSET S : IsFiniteSet(s) /\ Cardinality(s) \in Nat
  BY FS_Subset, FS_CardinalityType
<1>2. \E g : Solves(g, 0)
  <2> DEFINE h == [s \in Up(0) |-> 0]
  <2>1. \A s \in Up(0) : s = {}
    BY <1>1, FS_EmptySet
  <2>2. \A s \in Up(0) : Body(h, s) = 0
    BY <2>1
  <2>3. h = [s \in Up(0) |-> Body(h, s)]
    BY <2>2
  <2>4. QED
    BY <2>3
<1>3. ASSUME NEW k \in Nat, NEW g, Solves(g, k)
      PROVE  \E h : Solves(h, k + 1)
  <2> DEFINE h == [s \in Up(k + 1) |-> Body(g, s)]
  <2>1. ASSUME NEW s \in Up(k)
        PROVE  s \in Up(k + 1) /\ h[s] = g[s]
    <3>1. s \in Up(k + 1)
      BY <1>1
    <3>2. g[s] = Body(g, s)
      BY <1>3
    <3>3. QED
      BY <3>1, <3>2
  <2>2. ASSUME NEW s \in Up(k + 1)
        PROVE  Body(g, s) = Body(h, s)
    <3>1. CASE s = {}
      BY <3>1
    <3>2. CASE s # {}
      <4>1. Chosen(s) \in s
        BY <3>2, ChosenIn
      <4>2. Cardinality(s \ {Chosen(s)}) <= k
        BY <1>1, <4>1, FS_RemoveElement
      <4>3. h[s \ {Chosen(s)}] = g[s \ {Chosen(s)}]
        BY <2>1, <4>2
      <4>4. QED
        BY <4>3
    <3>3. QED
      BY <3>1, <3>2
  <2>3. h = [s \in Up(k + 1) |-> Body(h, s)]
    BY <2>2
  <2>4. QED
    BY <2>3
<1> HIDE DEF Solves
<1>4. T = {}
  <2>1. SUFFICES ASSUME T # {} PROVE FALSE
    OBVIOUS
  <2>2. PICK k \in T : \A j \in T : ~(<<j, k>> \in OpToRel(<, Nat))
    BY <2>1, WFMin, NatLessThanWellFounded
  <2>3. k \in Nat /\ ~\E g : Solves(g, k)
    BY <2>2
  <2>4. CASE k = 0
    BY <1>2, <2>3, <2>4
  <2>5. CASE k # 0
    <3>1. k - 1 \in Nat /\ (k - 1) + 1 = k
      BY <2>3, <2>5
    <3>2. k - 1 \notin T
      <4>1. <<k - 1, k>> \in OpToRel(<, Nat)
        BY <2>3, <3>1 DEF OpToRel
      <4>2. QED
        BY <2>2, <4>1
    <3>3. PICK g : Solves(g, k - 1)
      BY <3>1, <3>2
    <3>4. \E h : Solves(h, (k - 1) + 1)
      BY <1>3, <3>1, <3>3
    <3>5. QED
      BY <2>3, <3>1, <3>4
  <2>6. QED
    BY <2>4, <2>5
<1>5. Cardinality(S) \in Nat /\ Up(Cardinality(S)) = SUBSET S
  BY <1>1, FS_Subset
<1>6. PICK g : Solves(g, Cardinality(S))
  BY <1>4, <1>5
<1>7. Recursion(g, f, S)
  BY <1>5, <1>6 DEF Recursion, Solves
<1>8. QED
  BY <1>7

\* its values are integers, and any element may be taken out first
LEMMA RecursionAdds ==
    ASSUME NEW S, IsFiniteSet(S), NEW f, \A a \in S : f[a] \in Int,
           NEW g, Recursion(g, f, S)
    PROVE  \A s \in SUBSET S : /\ g[s] \in Int
                               /\ s = {} => g[s] = 0
                               /\ \A a \in s : g[s] = f[a] + g[s \ {a}]
<1>1. g[{}] = 0
  BY DEF Recursion
<1>2. ASSUME NEW s \in SUBSET S, s # {}
      PROVE  Chosen(s) \in s /\ g[s] = f[Chosen(s)] + g[s \ {Chosen(s)}]
  BY <1>2, ChosenIn DEF Recursion
<1> DEFINE T == {s \in SUBSET S : g[s] \in Int}
<1>3. SUBSET S \subseteq T
  <2>1. ASSUME NEW s \in SUBSET S, s # {}, \A a \in s : s \ {a} \in T
        PROVE  s \in T
    <3>1. PICK c \in s : c = Chosen(s)
      BY <1>2, <2>1
    <3>2. PICK v : v = g[s \ {c}]
      OBVIOUS
    <3>3. v \in Int /\ f[c] \in Int /\ g[s] = f[c] + v
      BY <1>2, <2>1, <3>1, <3>2
    <3>4. g[s] \in Int
      BY <3>3
    <3>5. QED
      BY <3>4
  <2>2. {} \in T
    BY <1>1, SMT
  <2> HIDE DEF T
  <2>3. QED
    BY <2>1, <2>2, SetInduction
<1> DEFINE U == {s \in SUBSET S : \A a \in s : g[s] = f[a] + g[s \ {a}]}
<1>4. SUBSET S \subseteq U
  <2>1. ASSUME NEW s \in SUBSET S, s # {}, \A a \in s : s \ {a} \in U
        PROVE  s \in U
    <3>1. PICK c \in s : c = Chosen(s)
      BY <1>2, <2>1
    <3>2. g[s] = f[c] + g[s \ {c}]
      BY <1>2, <2>1, <3>1
    <3>3. ASSUME NEW a \in s, a # c
          PROVE  g[s] = f[a] + g[s \ {a}]
      <4>1. PICK v : v = g[(s \ {c}) \ {a}]
        OBVIOUS
      <4>2. v \in Int /\ f[a] \in Int /\ f[c] \in Int
        BY <1>3, <4>1
      <4>3. g[s \ {c}] = f[a] + v
        BY <2>1, <3>3, <4>1
      <4>4. g[s \ {a}] = f[c] + v
        <5>1. (s \ {c}) \ {a} = (s \ {a}) \ {c}
          OBVIOUS
        <5>2. g[s \ {a}] = f[c] + g[(s \ {a}) \ {c}]
          BY <2>1, <3>3
        <5>3. QED
          BY <4>1, <5>1, <5>2
      <4>5. g[s] = f[c] + (f[a] + v)
        BY <3>2, <4>3
      <4>6. QED
        BY <4>2, <4>4, <4>5
    <3>4. QED
      BY <3>2, <3>3
  <2>2. {} \in U
    OBVIOUS
  <2> HIDE DEF U
  <2>3. QED
    BY <2>1, <2>2, SetInduction
<1>5. QED
  BY <1>1, <1>3, <1>4

\* two recursions agree where what they add up does
LEMMA RecursionUnique ==
    ASSUME NEW S, IsFiniteSet(S), NEW U, IsFiniteSet(U), NEW V, V \subseteq S, V \subseteq U,
           NEW f, NEW g, NEW e, NEW h, \A a \in V : f[a] = e[a],
           Recursion(g, f, S), Recursion(h, e, U)
    PROVE  g[V] = h[V]
<1>1. \A s \in SUBSET V : /\ s = {} => g[s] = 0 /\ h[s] = 0
                          /\ s # {} => /\ g[s] = f[Chosen(s)] + g[s \ {Chosen(s)}]
                                       /\ h[s] = e[Chosen(s)] + h[s \ {Chosen(s)}]
  BY DEF Recursion
<1> DEFINE T == {s \in SUBSET V : g[s] = h[s]}
<1>2. ASSUME NEW s \in SUBSET V, s # {}, \A a \in s : s \ {a} \in T
      PROVE  s \in T
  <2>1. Chosen(s) \in s
    BY <1>2, ChosenIn
  <2>2. QED
    BY <1>1, <1>2, <2>1
<1>3. {} \in T /\ IsFiniteSet(V)
  BY <1>1, FS_Subset
<1>4. SUBSET V \subseteq T
  <2> HIDE DEF T
  <2>1. QED
    BY <1>2, <1>3, SetInduction
<1>5. QED
  BY <1>4

LEMMA SumIs ==
    ASSUME NEW S, IsFiniteSet(S), NEW f, NEW g, Recursion(g, f, S)
    PROVE  SumFunctionOnSet(f, S) = g[S]
<1>1. SumFunctionOnSet(f, S) = (CHOOSE h : Recursion(h, f, S))[S]
  BY DEF SumFunctionOnSet, FoldFunctionOnSet, MapThenFoldSet, Recursion, Chosen
<1>2. PICK h : h = (CHOOSE k : Recursion(k, f, S))
  OBVIOUS
<1>3. Recursion(h, f, S)
  BY <1>2
<1>4. h[S] = g[S]
  BY <1>3, RecursionUnique
<1>5. QED
  BY <1>1, <1>2, <1>4

\* what a sum is
LEMMA SumEmpty ==
    ASSUME NEW f
    PROVE  SumFunctionOnSet(f, {}) = 0
<1>1. IsFiniteSet({})
  BY FS_EmptySet
<1>2. PICK g : Recursion(g, f, {})
  BY <1>1, RecursionExists
<1>3. g[{}] = 0
  BY <1>2 DEF Recursion
<1>4. QED
  BY <1>1, <1>2, <1>3, SumIs

LEMMA SumInt ==
    ASSUME NEW S, IsFiniteSet(S), NEW f, \A a \in S : f[a] \in Int
    PROVE  SumFunctionOnSet(f, S) \in Int
<1>1. PICK g : Recursion(g, f, S)
  BY RecursionExists
<1>2. QED
  BY <1>1, RecursionAdds, SumIs

LEMMA SumSame ==
    ASSUME NEW S, IsFiniteSet(S), NEW f, NEW e, \A a \in S : f[a] = e[a]
    PROVE  SumFunctionOnSet(f, S) = SumFunctionOnSet(e, S)
<1>1. PICK g : Recursion(g, f, S)
  BY RecursionExists
<1>2. PICK h : Recursion(h, e, S)
  BY RecursionExists
<1>3. QED
  BY <1>1, <1>2, RecursionUnique, SumIs

LEMMA SumAdds ==
    ASSUME NEW S, IsFiniteSet(S), NEW a, a \notin S, NEW f,
           \A b \in S \union {a} : f[b] \in Int
    PROVE  SumFunctionOnSet(f, S \union {a}) = f[a] + SumFunctionOnSet(f, S)
<1>1. PICK U : U = S \union {a}
  OBVIOUS
<1>2. IsFiniteSet(U) /\ U \ {a} = S /\ a \in U /\ \A b \in U : f[b] \in Int
  BY <1>1, FS_AddElement
<1>3. PICK g : Recursion(g, f, U)
  BY <1>2, RecursionExists
<1>4. PICK h : Recursion(h, f, S)
  BY RecursionExists
<1>5. g[U] = f[a] + g[S]
  <2>1. g[U] = f[a] + g[U \ {a}]
    BY <1>2, <1>3, RecursionAdds
  <2>2. QED
    BY <1>2, <2>1
<1>6. g[S] = h[S]
  BY <1>1, <1>2, <1>3, <1>4, RecursionUnique
<1>7. QED
  BY <1>1, <1>2, <1>3, <1>4, <1>5, <1>6, SumIs

\* what the offsets of counts are: a count further from one to the next
LEMMA OffsetSteps ==
    ASSUME NEW n \in Nat, NEW counts, \A p \in 0 .. n - 1 : counts[p] \in Nat
    PROVE  /\ Offset(counts, 0) = 0
           /\ \A p \in 0 .. n : Offset(counts, p) \in Nat
           /\ \A p \in 0 .. n - 1 : Offset(counts, p + 1) = Offset(counts, p) + counts[p]
<1>1. Offset(counts, 0) = 0
  <2>1. 0 .. 0 - 1 = {}
    OBVIOUS
  <2>2. QED
    BY <2>1, SumEmpty DEF Offset
<1>2. ASSUME NEW p \in 0 .. n - 1
      PROVE  /\ Offset(counts, p + 1) = counts[p] + Offset(counts, p)
             /\ Offset(counts, p) \in Int
  <2>1. PICK S : S = 0 .. p - 1
    OBVIOUS
  <2>2. IsFiniteSet(S)
    BY <2>1, FS_Interval
  <2>3. p \notin S /\ 0 .. (p + 1) - 1 = S \union {p}
    BY <2>1
  <2>4. \A b \in S \union {p} : counts[b] \in Int
    BY <2>1
  <2>5. SumFunctionOnSet(counts, S \union {p}) = counts[p] + SumFunctionOnSet(counts, S)
    BY ONLY <2>2, <2>3, <2>4, SumAdds
  <2>6. SumFunctionOnSet(counts, S) \in Int
    BY ONLY <2>2, <2>4, SumInt
  <2>7. QED
    BY <2>1, <2>3, <2>5, <2>6 DEF Offset
<1> DEFINE T == {p \in 0 .. n : Offset(counts, p) \in Nat}
<1>3. 0 .. n \subseteq T
  <2>1. 0 \in T
    BY <1>1
  <2>2. ASSUME NEW p \in 0 .. n - 1, p \in T
        PROVE  p + 1 \in T
    <3>1. PICK v : v = Offset(counts, p)
      OBVIOUS
    <3>2. v \in Nat /\ counts[p] \in Nat /\ Offset(counts, p + 1) = counts[p] + v
      BY <1>2, <2>2, <3>1
    <3>3. Offset(counts, p + 1) \in Nat /\ p + 1 \in 0 .. n
      BY <3>2
    <3>4. QED
      BY <3>3
  <2> HIDE DEF T
  <2>3. QED
    BY <2>1, <2>2, UpTo
<1>4. ASSUME NEW p \in 0 .. n - 1
      PROVE  Offset(counts, p + 1) = Offset(counts, p) + counts[p]
  <2>1. PICK v : v = Offset(counts, p)
    OBVIOUS
  <2>2. v \in Nat /\ counts[p] \in Nat /\ Offset(counts, p + 1) = counts[p] + v
    BY <1>2, <1>3, <2>1
  <2>3. QED
    BY <2>1, <2>2
<1>5. QED
  BY <1>1, <1>3, <1>4

\* off says where the sequences of a list begin when they are put together
Places(off, s, n) ==
    /\ off \in [0 .. n -> Nat] /\ off[0] = 0
    /\ \A k \in 1 .. n : off[k] = off[k - 1] + Len(s[k])

\* z is the first m of them
PutTogether(z, S, s, off, m) ==
    /\ z \in Seq(S) /\ Len(z) = off[m]
    /\ \A k \in 1 .. m : \A j \in 1 .. Len(s[k]) :
          off[k - 1] + j \in 1 .. off[m] /\ z[off[k - 1] + j] = s[k][j]

LEMMA PutTogetherGrows ==
    ASSUME NEW n \in Nat, NEW S, NEW s, \A k \in 1 .. n : s[k] \in Seq(S),
           NEW off, Places(off, s, n),
           NEW m \in 1 .. n - 1, NEW z, PutTogether(z, S, s, off, m),
           NEW y, y = z \o s[m + 1]
    PROVE  PutTogether(y, S, s, off, m + 1)
<1>1. PICK l : l = m + 1
  OBVIOUS
<1>2. l \in 1 .. n /\ l - 1 = m /\ m \in 0 .. n /\ l \in 0 .. n
  BY <1>1
<1>3. PICK b : b = s[l]
  OBVIOUS
<1>4. b \in Seq(S) /\ z \in Seq(S) /\ y = z \o b
  BY <1>1, <1>2, <1>3 DEF PutTogether
<1>5. /\ y \in Seq(S) /\ Len(y) = Len(z) + Len(b)
      /\ \A i \in 1 .. Len(z) : y[i] = z[i]
      /\ \A j \in 1 .. Len(b) : y[Len(z) + j] = b[j]
  BY <1>4, ConcatAt
<1>6. /\ off[l] \in Nat /\ off[m] \in Nat /\ Len(b) \in Nat /\ Len(z) = off[m]
      /\ off[l] = off[m] + Len(b)
  <2>1. off \in [0 .. n -> Nat] /\ off[l] = off[l - 1] + Len(s[l])
    BY <1>2 DEF Places
  <2>2. Len(b) \in Nat /\ Len(z) = off[m]
    BY <1>4 DEF PutTogether
  <2>3. QED
    BY <1>2, <1>3, <2>1, <2>2
<1>7. ASSUME NEW k \in 1 .. l, NEW j \in 1 .. Len(s[k])
      PROVE  off[k - 1] + j \in 1 .. off[l] /\ y[off[k - 1] + j] = s[k][j]
  <2>1. CASE k = l
    <3>1. j \in 1 .. Len(b) /\ off[k - 1] = off[m]
      BY <1>2, <1>3, <1>7, <2>1
    <3>2. off[k - 1] + j \in 1 .. off[l]
      BY <1>6, <3>1
    <3>3. y[Len(z) + j] = b[j]
      BY <1>5, <3>1
    <3>4. QED
      BY <1>3, <1>6, <2>1, <3>1, <3>2, <3>3
  <2>2. CASE k # l
    <3>1. k \in 1 .. m
      BY <1>2, <2>2
    <3>2. off[k - 1] + j \in 1 .. off[m] /\ z[off[k - 1] + j] = s[k][j]
      BY <1>7, <3>1 DEF PutTogether
    <3>3. QED
      BY <1>5, <1>6, <3>2
  <2>3. QED
    BY <2>1, <2>2
<1>8. QED
  BY <1>1, <1>5, <1>6, <1>7 DEF PutTogether

\* FlattenSeq puts a list of sequences together
LEMMA FlattenAt ==
    ASSUME NEW n \in Nat \ {0}, NEW S, NEW s, Len(s) = n, \A k \in 1 .. n : s[k] \in Seq(S),
           NEW off, Places(off, s, n)
    PROVE  PutTogether(FlattenSeq(s), S, s, off, n)
<1>1. PICK g : Flat(g, s, n) /\ FlattenSeq(s) = g[n]
  BY FlattenIs
<1> DEFINE Good(m) == PutTogether(g[m], S, s, off, m)
           T == {m \in 0 .. n : m = 0 \/ Good(m)}
<1>2. Good(1)
  <2>1. PICK b : b = s[1]
    OBVIOUS
  <2>2. g[1] = b /\ b \in Seq(S)
    <3>1. g[1] = s[1]
      BY <1>1, FlatSteps
    <3>2. 1 \in 1 .. n
      OBVIOUS
    <3>3. QED
      BY <2>1, <3>1, <3>2
  <2>3. off[0] = 0 /\ off[1] = off[0] + Len(b) /\ Len(b) \in Nat
    BY <2>1, <2>2 DEF Places
  <2>4. ASSUME NEW k \in 1 .. 1
        PROVE  k = 1 /\ k - 1 = 0
    BY <2>4
  <2>5. QED
    BY <2>1, <2>2, <2>3, <2>4 DEF PutTogether
<1>3. ASSUME NEW m \in 1 .. n - 1, Good(m)
      PROVE  Good(m + 1)
  <2>1. PICK y : y = g[m + 1]
    OBVIOUS
  <2>2. PICK z : z = g[m]
    OBVIOUS
  <2>3. y = z \o s[m + 1]
    <3>1. g[1] = s[1] /\ \A l \in 1 .. n - 1 : g[l + 1] = g[l] \o s[l + 1]
      BY ONLY <1>1, n \in Nat \ {0}, FlatSteps
    <3>2. g[m + 1] = g[m] \o s[m + 1]
      BY <3>1
    <3>3. QED
      BY <2>1, <2>2, <3>2
  <2>4. PutTogether(z, S, s, off, m) /\ n \in Nat /\ Places(off, s, n)
    BY <1>3, <2>2
  <2>5. PutTogether(y, S, s, off, m + 1)
    BY <2>3, <2>4, PutTogetherGrows
  <2>6. QED
    BY <2>1, <2>5
<1> HIDE DEF Good
<1>4. n \in T
  <2>1. 0 \in T
    OBVIOUS
  <2>2. ASSUME NEW m \in 0 .. n - 1, m \in T
        PROVE  m + 1 \in T
    <3>1. m + 1 \in 0 .. n
      OBVIOUS
    <3>2. CASE m = 0
      BY <1>2, <3>1, <3>2
    <3>3. CASE m # 0
      BY <1>3, <2>2, <3>1, <3>3
    <3>4. QED
      BY <3>2, <3>3
  <2> HIDE DEF T
  <2>3. 0 .. n \subseteq T
    BY <2>1, <2>2, UpTo
  <2>4. QED
    BY <2>3
<1>5. QED
  BY <1>1, <1>4 DEF Good

\* each place lies in one of them
InPlace(off, s, n, i) == \E k \in 1 .. n : \E j \in 1 .. Len(s[k]) : i = off[k - 1] + j
LEMMA PlaceIn ==
    ASSUME NEW n \in Nat, NEW s, \A k \in 1 .. n : Len(s[k]) \in Nat,
           NEW off, Places(off, s, n), NEW i \in 1 .. off[n]
    PROVE  InPlace(off, s, n, i)
<1> DEFINE T == {m \in 0 .. n : i <= off[m] =>
                     \E k \in 1 .. m : \E j \in 1 .. Len(s[k]) : i = off[k - 1] + j}
<1>1. 0 \in T
  BY DEF Places
<1>2. ASSUME NEW m \in 0 .. n - 1, m \in T
      PROVE  m + 1 \in T
  <2>1. m + 1 \in 1 .. n /\ m + 1 \in 0 .. n /\ (m + 1) - 1 = m
    OBVIOUS
  <2>2. PICK l : l = m + 1
    OBVIOUS
  <2>3. /\ off[l] = off[m] + Len(s[l]) /\ Len(s[l]) \in Nat
        /\ off[m] \in Nat /\ off[l] \in Nat
    BY <2>1, <2>2 DEF Places
  <2>4. ASSUME i <= off[l]
        PROVE  \E k \in 1 .. l : \E j \in 1 .. Len(s[k]) : i = off[k - 1] + j
    <3>1. CASE i <= off[m]
      <4>1. PICK k \in 1 .. m : \E j \in 1 .. Len(s[k]) : i = off[k - 1] + j
        BY <1>2, <3>1
      <4>2. k \in 1 .. l
        BY <2>2
      <4>3. QED
        BY <4>1, <4>2
    <3>2. CASE ~(i <= off[m])
      <4>1. i - off[m] \in 1 .. Len(s[l]) /\ i = off[m] + (i - off[m])
        BY <2>3, <2>4, <3>2
      <4>2. l \in 1 .. l /\ l - 1 = m
        BY <2>1, <2>2
      <4>3. QED
        BY <4>1, <4>2
    <3>3. QED
      BY <3>1, <3>2
  <2>5. QED
    BY <2>1, <2>2, <2>4
<1>3. n \in T
  <2> HIDE DEF T
  <2>1. 0 .. n \subseteq T
    BY <1>1, <1>2, UpTo
  <2>2. QED
    BY <2>1
<1>4. i <= off[n]
  OBVIOUS
<1>5. QED
  BY <1>3, <1>4 DEF InPlace

\* the offsets of counts are the places of sequences that are as long
LEMMA OffsetPlaces ==
    ASSUME NEW n \in Nat, NEW counts, \A p \in 0 .. n - 1 : counts[p] \in Nat,
           NEW s, \A k \in 1 .. n : Len(s[k]) = counts[k - 1]
    PROVE  Places([k \in 0 .. n |-> Offset(counts, k)], s, n)
<1> DEFINE off == [k \in 0 .. n |-> Offset(counts, k)]
<1>1. off \in [0 .. n -> Nat] /\ off[0] = 0
  <2>1. \A k \in 0 .. n : Offset(counts, k) \in Nat
    BY OffsetSteps
  <2>2. 0 \in 0 .. n
    OBVIOUS
  <2>3. Offset(counts, 0) = 0
    BY OffsetSteps
  <2>4. QED
    BY <2>1, <2>2, <2>3
<1>2. ASSUME NEW k \in 1 .. n
      PROVE  off[k] = off[k - 1] + Len(s[k])
  <2>1. PICK p : p = k - 1
    OBVIOUS
  <2>2. p \in 0 .. n - 1 /\ p + 1 = k /\ k \in 0 .. n /\ p \in 0 .. n
    BY <2>1
  <2>3. Offset(counts, p + 1) = Offset(counts, p) + counts[p]
    BY <2>2, OffsetSteps
  <2>4. QED
    BY <2>1, <2>2, <2>3
<1>3. QED
  BY <1>1, <1>2 DEF Places

-----------------------------------------------------------------------------
(* The elements of a set in their order.                                    *)

LowerIn(S, c) == {d \in S : d < c}

LEMMA LowerFacts ==
    ASSUME NEW S, S \subseteq Int, IsFiniteSet(S)
    PROVE  /\ Cardinality(S) \in Nat
           /\ \A c \in Int : IsFiniteSet(LowerIn(S, c)) /\ Cardinality(LowerIn(S, c)) \in Nat
           /\ \A c \in S : Cardinality(LowerIn(S, c)) \in 0 .. Cardinality(S) - 1
           /\ \A c, d \in S : c < d => Cardinality(LowerIn(S, c)) < Cardinality(LowerIn(S, d))
<1>1. ASSUME NEW c \in Int
      PROVE  LowerIn(S, c) \in SUBSET S
  BY DEF LowerIn
<1>2. Cardinality(S) \in Nat
  BY FS_CardinalityType
<1>3. ASSUME NEW c \in Int
      PROVE  IsFiniteSet(LowerIn(S, c)) /\ Cardinality(LowerIn(S, c)) \in Nat
  <2>1. IsFiniteSet(LowerIn(S, c))
    BY <1>1, FS_Subset
  <2>2. QED
    BY <2>1, FS_CardinalityType
<1>4. ASSUME NEW c \in S, NEW L, L \in SUBSET S, LowerIn(S, c) \subseteq L, c \notin L
      PROVE  Cardinality(L) + 1 <= Cardinality(S)
  <2>1. IsFiniteSet(L) /\ Cardinality(L) \in Nat
    BY <1>4, FS_Subset, FS_CardinalityType
  <2>2. Cardinality(L \union {c}) = Cardinality(L) + 1
    BY <1>4, <2>1, FS_AddElement
  <2>3. L \union {c} \in SUBSET S
    BY <1>4
  <2>4. Cardinality(L \union {c}) <= Cardinality(S)
    BY <2>3, FS_Subset
  <2>5. QED
    BY <2>2, <2>4
<1>5. ASSUME NEW c \in S
      PROVE  Cardinality(LowerIn(S, c)) \in 0 .. Cardinality(S) - 1
  <2>1. c \in Int /\ c \notin LowerIn(S, c)
    BY DEF LowerIn
  <2>2. Cardinality(LowerIn(S, c)) + 1 <= Cardinality(S)
    BY <1>1, <1>4, <2>1
  <2>3. QED
    BY <1>2, <1>3, <2>1, <2>2
<1>6. ASSUME NEW c \in S, NEW d \in S, c < d
      PROVE  Cardinality(LowerIn(S, c)) < Cardinality(LowerIn(S, d))
  <2>1. c \in Int /\ d \in Int
    OBVIOUS
  <2>2. LowerIn(S, c) \union {c} \subseteq LowerIn(S, d) /\ c \notin LowerIn(S, c)
    <3>1. \A e \in S : e \in Int /\ (e < c => e < d)
      <4> SUFFICES ASSUME NEW e \in S
                   PROVE  e \in Int /\ (e < c => e < d)
        OBVIOUS
      <4>1. e \in Int
        OBVIOUS
      <4>2. QED
        BY <1>6, <2>1, <4>1
    <3>2. ~(c < c)
      BY <2>1
    <3>3. QED
      BY <1>6, <3>1, <3>2 DEF LowerIn
  <2>3. PICK L, K : L = LowerIn(S, c) /\ K = LowerIn(S, d)
    OBVIOUS
  <2>4. IsFiniteSet(L) /\ Cardinality(L) \in Nat /\ IsFiniteSet(K) /\ Cardinality(K) \in Nat
    BY <1>3, <2>1, <2>3
  <2>5. Cardinality(L \union {c}) = Cardinality(L) + 1
    BY <2>2, <2>3, <2>4, FS_AddElement
  <2>6. Cardinality(L \union {c}) <= Cardinality(K)
    BY <2>2, <2>3, <2>4, FS_Subset
  <2>7. QED
    BY <2>3, <2>4, <2>5, <2>6
<1>7. QED
  BY <1>2, <1>3, <1>5, <1>6

\* what Ascending returns: the place of an element is how many are below it
LEMMA AscendingFacts ==
    ASSUME NEW S, S \subseteq Int, IsFiniteSet(S)
    PROVE  /\ Len(Ascending(S)) = Cardinality(S)
           /\ Ascending(S) \in [1 .. Cardinality(S) -> S]
           /\ \A k \in 1 .. Cardinality(S) : Cardinality(LowerIn(S, Ascending(S)[k])) = k - 1
           /\ \A c \in S : /\ Cardinality(LowerIn(S, c)) + 1 \in 1 .. Cardinality(S)
                           /\ Ascending(S)[Cardinality(LowerIn(S, c)) + 1] = c
<1> DEFINE n == Cardinality(S)
           R == [c \in S |-> Cardinality(LowerIn(S, c))]
<1>1. n \in Nat /\ R \in [S -> 0 .. n - 1]
  BY LowerFacts
<1>2. \A c, d \in S : R[c] = R[d] => c = d
  <2> SUFFICES ASSUME NEW c \in S, NEW d \in S, c # d
               PROVE  R[c] # R[d]
    OBVIOUS
  <2>1. c \in Int /\ d \in Int
    OBVIOUS
  <2>2. /\ R[c] \in Nat /\ R[d] \in Nat
        /\ c < d => R[c] < R[d]
        /\ d < c => R[d] < R[c]
    BY <1>1, LowerFacts
  <2>3. CASE c < d
    BY <2>2, <2>3
  <2>4. CASE d < c
    BY <2>2, <2>4
  <2>5. QED
    BY <2>1, <2>3, <2>4
<1>3. \A k \in 0 .. n - 1 : \E c \in S : R[c] = k
  <2>1. R \in Injection(S, 0 .. n - 1)
    BY <1>1, <1>2 DEF Injection, IsInjective
  <2>2. IsFiniteSet(0 .. n - 1) /\ Cardinality(0 .. n - 1) = n
    <3>1. PICK k : k = n
      OBVIOUS
    <3>2. k \in Nat /\ 0 \in Int /\ k - 1 \in Int
      BY <1>1, <3>1
    <3>3. /\ IsFiniteSet(0 .. k - 1)
          /\ Cardinality(0 .. k - 1) = IF 0 > k - 1 THEN 0 ELSE (k - 1) - 0 + 1
      BY <3>2, FS_Interval
    <3>4. QED
      BY <3>1, <3>2, <3>3
  <2>3. R \in Surjection(S, 0 .. n - 1)
    BY <2>1, <2>2, FS_Injection
  <2>4. QED
    BY <2>3 DEF Surjection
<1> DEFINE A == Ascending(S)
<1>4. A = [k \in 1 .. n |-> CHOOSE c \in S : Cardinality({d \in S : d < c}) = k - 1]
  BY DEF Ascending
<1>5. ASSUME NEW k \in 1 .. n
      PROVE  A[k] \in S /\ Cardinality(LowerIn(S, A[k])) = k - 1
  <2>1. k - 1 \in 0 .. n - 1
    BY <1>1
  <2>2. \E c \in S : Cardinality({d \in S : d < c}) = k - 1
    BY <1>3, <2>1 DEF LowerIn
  <2>3. A[k] = CHOOSE c \in S : Cardinality({d \in S : d < c}) = k - 1
    BY <1>4
  <2>4. QED
    BY <2>2, <2>3 DEF LowerIn
<1>6. A \in [1 .. n -> S] /\ Len(A) = n
  <2>1. A \in [1 .. n -> S]
    BY <1>4, <1>5
  <2>2. QED
    BY <1>1, <2>1
<1>7. ASSUME NEW c \in S
      PROVE  R[c] + 1 \in 1 .. n /\ A[R[c] + 1] = c
  <2>1. R[c] + 1 \in 1 .. n /\ (R[c] + 1) - 1 = R[c]
    BY <1>1
  <2>2. PICK k \in 1 .. n : k = R[c] + 1
    BY <2>1
  <2>3. A[k] \in S /\ R[A[k]] = R[c]
    BY <1>5, <2>1, <2>2
  <2>4. A[k] = c
    BY <1>2, <2>3
  <2>5. QED
    BY <2>1, <2>2, <2>4
<1>8. QED
  BY <1>5, <1>6, <1>7

-----------------------------------------------------------------------------
(* The mesh.                                                                *)

IsMesh(m) ==
    /\ m.Nx \in Nat /\ m.Ny \in Nat /\ m.numprocs \in Nat
    /\ m.Nx >= 2 /\ m.Ny >= 2 /\ m.numprocs >= 1

LEMMA DivModOf ==
    ASSUME NEW n \in Nat \ {0}, NEW j \in Nat, NEW i \in 0 .. n - 1
    PROVE  (j * n + i) % n = i /\ (j * n + i) \div n = j
OBVIOUS

LEMMA RowBound ==
    ASSUME NEW n \in Nat \ {0}, NEW k \in Nat, NEW j \in Nat, NEW i \in 0 .. n - 1
    PROVE  j * n + i < n * k <=> j < k
OBVIOUS

\* a cell is at its column and row
LEMMA CellFacts ==
    ASSUME NEW m, IsMesh(m), NEW c \in Cells(m)
    PROVE  /\ c \in Nat
           /\ Column(m, c) \in 0 .. m.Nx - 1 /\ Row(m, c) \in 0 .. m.Ny - 1
           /\ c = CellAt(m, Column(m, c), Row(m, c))
<1>1. PICK n, k : n = m.Nx /\ k = m.Ny
  OBVIOUS
<1>2. n \in Nat \ {0} /\ k \in Nat
  BY <1>1 DEF IsMesh
<1>3. n * k \in Nat
  BY <1>2
<1>4. c \in Nat /\ c < n * k
  BY <1>1, <1>3 DEF Cells
<1>5. PICK i, j : i = c % n /\ j = c \div n
  OBVIOUS
<1>6. i \in 0 .. n - 1 /\ j \in Nat /\ c = j * n + i
  <2>1. c % n \in 0 .. n - 1
    BY <1>2, <1>4
  <2>2. c \div n \in Nat
    BY <1>2, <1>4
  <2>3. i \in 0 .. n - 1 /\ j \in Nat
    BY <1>5, <2>1, <2>2
  <2>4. c = n * j + i
    BY <1>2, <1>4, <1>5, <2>3, SMTT(30)
  <2>5. n * j = j * n
    BY <1>2, <2>3
  <2>6. c = j * n + i
    BY <2>4, <2>5
  <2>7. QED
    BY ONLY <2>3, <2>6
<1>7. j < k
  <2>1. j * n + i < n * k <=> j < k
    BY <1>2, <1>6, RowBound
  <2>2. QED
    BY <1>4, <1>6, <2>1
<1>8. Column(m, c) = i /\ Row(m, c) = j
  BY <1>1, <1>5 DEF Column, Row
<1>9. c = CellAt(m, i, j)
  BY <1>1, <1>6 DEF CellAt
<1>10. i \in 0 .. m.Nx - 1 /\ j \in 0 .. m.Ny - 1
  BY ONLY <1>1, <1>2, <1>6, <1>7
<1>11. QED
  BY ONLY <1>4, <1>8, <1>9, <1>10

LEMMA CellAtFacts ==
    ASSUME NEW m, IsMesh(m), NEW i \in 0 .. m.Nx - 1, NEW j \in 0 .. m.Ny - 1
    PROVE  /\ CellAt(m, i, j) \in Cells(m)
           /\ Column(m, CellAt(m, i, j)) = i /\ Row(m, CellAt(m, i, j)) = j
<1>1. PICK n, k : n = m.Nx /\ k = m.Ny
  OBVIOUS
<1>2. n \in Nat \ {0} /\ k \in Nat /\ i \in 0 .. n - 1 /\ j \in Nat /\ j < k
  BY <1>1 DEF IsMesh
<1>3. (j * n + i) % n = i /\ (j * n + i) \div n = j
  BY <1>2, DivModOf
<1>4. j * n + i < n * k
  BY <1>2, RowBound
<1>5. j * n + i \in 0 .. n * k - 1
  <2>1. j * n \in Nat /\ n * k \in Nat
    BY <1>2
  <2>2. QED
    BY <1>2, <1>4, <2>1
<1>6. QED
  BY <1>1, <1>3, <1>5 DEF CellAt, Column, Row, Cells

\* which of the four neighbours a cell has, and where they come in its stencil
Has(m, i, j, q) ==
    CASE q = 1 -> i > 0
      [] q = 2 -> i < m.Nx - 1
      [] q = 3 -> j > 0
      [] q = 4 -> j < m.Ny - 1
Beside(m, i, j, q) ==
    CASE q = 1 -> CellAt(m, i - 1, j)
      [] q = 2 -> CellAt(m, i + 1, j)
      [] q = 3 -> CellAt(m, i, j - 1)
      [] q = 4 -> CellAt(m, i, j + 1)
One(b) == IF b THEN 1 ELSE 0
Position(m, i, j, q) ==
    CASE q = 1 -> One(i > 0)
      [] q = 2 -> One(i > 0) + One(i < m.Nx - 1)
      [] q = 3 -> One(i > 0) + One(i < m.Nx - 1) + One(j > 0)
      [] q = 4 -> One(i > 0) + One(i < m.Nx - 1) + One(j > 0) + One(j < m.Ny - 1)

Maybe(b, x) == IF b THEN <<x>> ELSE <<>>
LEMMA MaybeFacts ==
    ASSUME NEW b \in BOOLEAN, NEW x \in Int
    PROVE  /\ Maybe(b, x) \in Seq(Int) /\ Len(Maybe(b, x)) = One(b)
           /\ b => Maybe(b, x)[1] = x
BY DEF Maybe, One

\* s is these four, at most one long, one behind the other
FourParts(s, a, b, c, d) ==
    /\ s \in Seq(Int) /\ Len(s) = Len(a) + Len(b) + Len(c) + Len(d)
    /\ Len(a) = 1 => s[1] = a[1]
    /\ Len(b) = 1 => s[Len(a) + 1] = b[1]
    /\ Len(c) = 1 => s[Len(a) + Len(b) + 1] = c[1]
    /\ Len(d) = 1 => s[Len(a) + Len(b) + Len(c) + 1] = d[1]

LEMMA FourTogether ==
    ASSUME NEW a \in Seq(Int), NEW b \in Seq(Int), NEW c \in Seq(Int), NEW d \in Seq(Int),
           NEW s, s = a \o b \o c \o d
    PROVE  FourParts(s, a, b, c, d)
<1>1. PICK p : p = a \o b
  OBVIOUS
<1>2. /\ p \in Seq(Int) /\ Len(p) = Len(a) + Len(b)
      /\ \A i \in 1 .. Len(a) : p[i] = a[i]
      /\ \A i \in 1 .. Len(b) : p[Len(a) + i] = b[i]
  BY <1>1, ConcatAt
<1>3. PICK q : q = p \o c
  OBVIOUS
<1>4. /\ q \in Seq(Int) /\ Len(q) = Len(p) + Len(c)
      /\ \A i \in 1 .. Len(p) : q[i] = p[i]
      /\ \A i \in 1 .. Len(c) : q[Len(p) + i] = c[i]
  <2>1. p \in Seq(Int) /\ c \in Seq(Int)
    BY <1>2
  <2>2. QED
    BY ONLY <1>3, <2>1, ConcatAt
<1>5. s = q \o d
  BY <1>1, <1>3
<1>6. /\ s \in Seq(Int) /\ Len(s) = Len(q) + Len(d)
      /\ \A i \in 1 .. Len(q) : s[i] = q[i]
      /\ \A i \in 1 .. Len(d) : s[Len(q) + i] = d[i]
  <2>1. q \in Seq(Int) /\ d \in Seq(Int)
    BY <1>4
  <2>2. QED
    BY ONLY <1>5, <2>1, ConcatAt
<1>7. Len(a) \in Nat /\ Len(b) \in Nat /\ Len(c) \in Nat /\ Len(d) \in Nat
  OBVIOUS
<1>9. \A i \in Nat : /\ i \in 1 .. Len(p) => i \in 1 .. Len(q)
                    /\ i \in 1 .. Len(a) => i \in 1 .. Len(p)
  BY ONLY <1>2, <1>4, <1>7
<1>10. \A i \in 1 .. Len(p) : i \in Nat
  BY ONLY <1>2, <1>7
<1>11. Len(a) = 1 => s[1] = a[1]
  BY ONLY <1>2, <1>4, <1>6, <1>7, <1>9
<1>12. Len(b) = 1 => s[Len(a) + 1] = b[1]
  <2>1. SUFFICES ASSUME Len(b) = 1 PROVE s[Len(a) + 1] = b[1]
    OBVIOUS
  <2>2. Len(a) + 1 \in 1 .. Len(p) /\ Len(a) + 1 \in Nat /\ 1 \in 1 .. Len(b)
    BY ONLY <1>2, <1>7, <2>1
  <2>3. Len(a) + 1 \in 1 .. Len(q)
    BY ONLY <1>2, <1>4, <1>7, <2>2
  <2>4. s[Len(a) + 1] = q[Len(a) + 1] /\ q[Len(a) + 1] = p[Len(a) + 1]
    BY ONLY <1>4, <1>6, <2>2, <2>3
  <2>5. p[Len(a) + 1] = b[1]
    BY ONLY <1>2, <2>2
  <2>6. QED
    BY ONLY <2>4, <2>5
<1>121. Len(c) = 1 => s[Len(a) + Len(b) + 1] = c[1]
  <2>1. SUFFICES ASSUME Len(c) = 1 PROVE s[Len(a) + Len(b) + 1] = c[1]
    OBVIOUS
  <2>2. /\ Len(p) + 1 \in 1 .. Len(q) /\ Len(p) + 1 = Len(a) + Len(b) + 1
        /\ 1 \in 1 .. Len(c)
    BY ONLY <1>2, <1>4, <1>7, <2>1
  <2>3. QED
    BY ONLY <1>4, <1>6, <2>2
<1>122. Len(d) = 1 => s[Len(a) + Len(b) + Len(c) + 1] = d[1]
  <2>1. SUFFICES ASSUME Len(d) = 1 PROVE s[Len(a) + Len(b) + Len(c) + 1] = d[1]
    OBVIOUS
  <2>2. Len(q) + 1 = Len(a) + Len(b) + Len(c) + 1 /\ 1 \in 1 .. Len(d)
    BY ONLY <1>2, <1>4, <1>6, <1>7, <2>1
  <2>3. QED
    BY ONLY <1>6, <2>2
<1>13. Len(s) = Len(a) + Len(b) + Len(c) + Len(d)
  BY ONLY <1>2, <1>4, <1>6, <1>7
<1>14. QED
  BY ONLY <1>6, <1>11, <1>12, <1>121, <1>122, <1>13 DEF FourParts

LEMMA StencilFacts ==
    ASSUME NEW m, IsMesh(m), NEW i \in 0 .. m.Nx - 1, NEW j \in 0 .. m.Ny - 1
    PROVE  /\ Stencil(m, i, j) \in Seq(Int)
           /\ Len(Stencil(m, i, j)) = Position(m, i, j, 4)
           /\ \A q \in 1 .. 4 : Has(m, i, j, q) =>
                 Stencil(m, i, j)[Position(m, i, j, q)] = Beside(m, i, j, q)
<1>0. PICK cell, a, b, c, d : /\ cell = CellAt(m, i, j)
                              /\ a = Maybe(i > 0, cell - 1)
                              /\ b = Maybe(i < m.Nx - 1, cell + 1)
                              /\ c = Maybe(j > 0, cell - m.Nx)
                              /\ d = Maybe(j < m.Ny - 1, cell + m.Nx)
  OBVIOUS
<1>1. PICK n, k : n = m.Nx /\ k = m.Ny
  OBVIOUS
<1>2. n \in Nat \ {0} /\ k \in Nat /\ i \in Int /\ j \in Int
  BY <1>1 DEF IsMesh
<1>3. cell \in Int /\ cell = j * n + i
  BY <1>0, <1>1, <1>2 DEF CellAt
<1>4. Stencil(m, i, j) = a \o b \o c \o d
  BY <1>0 DEF Stencil, Maybe
<1>5. /\ a \in Seq(Int) /\ Len(a) = One(i > 0) /\ (i > 0 => a[1] = cell - 1)
      /\ b \in Seq(Int) /\ Len(b) = One(i < m.Nx - 1) /\ (i < m.Nx - 1 => b[1] = cell + 1)
      /\ c \in Seq(Int) /\ Len(c) = One(j > 0) /\ (j > 0 => c[1] = cell - m.Nx)
      /\ d \in Seq(Int) /\ Len(d) = One(j < m.Ny - 1) /\ (j < m.Ny - 1 => d[1] = cell + m.Nx)
  <2>1. cell - 1 \in Int /\ cell + 1 \in Int /\ cell - m.Nx \in Int /\ cell + m.Nx \in Int
    BY <1>1, <1>2, <1>3
  <2>2. /\ (i > 0) \in BOOLEAN /\ (i < m.Nx - 1) \in BOOLEAN
        /\ (j > 0) \in BOOLEAN /\ (j < m.Ny - 1) \in BOOLEAN
    OBVIOUS
  <2>3. a \in Seq(Int) /\ Len(a) = One(i > 0) /\ (i > 0 => a[1] = cell - 1)
    BY <1>0, <2>1, <2>2, MaybeFacts
  <2>4. b \in Seq(Int) /\ Len(b) = One(i < m.Nx - 1) /\ (i < m.Nx - 1 => b[1] = cell + 1)
    BY <1>0, <2>1, <2>2, MaybeFacts
  <2>5. c \in Seq(Int) /\ Len(c) = One(j > 0) /\ (j > 0 => c[1] = cell - m.Nx)
    BY <1>0, <2>1, <2>2, MaybeFacts
  <2>6. d \in Seq(Int) /\ Len(d) = One(j < m.Ny - 1) /\ (j < m.Ny - 1 => d[1] = cell + m.Nx)
    BY <1>0, <2>1, <2>2, MaybeFacts
  <2>7. QED
    BY <2>3, <2>4, <2>5, <2>6
<1>6. PICK s : s = a \o b \o c \o d
  OBVIOUS
<1>7. /\ s \in Seq(Int) /\ Len(s) = Len(a) + Len(b) + Len(c) + Len(d)
      /\ Len(a) = 1 => s[1] = a[1]
      /\ Len(b) = 1 => s[Len(a) + 1] = b[1]
      /\ Len(c) = 1 => s[Len(a) + Len(b) + 1] = c[1]
      /\ Len(d) = 1 => s[Len(a) + Len(b) + Len(c) + 1] = d[1]
  <2>1. a \in Seq(Int) /\ b \in Seq(Int) /\ c \in Seq(Int) /\ d \in Seq(Int)
    BY <1>5
  <2>2. FourParts(s, a, b, c, d)
    BY ONLY <1>6, <2>1, FourTogether
  <2>3. QED
    BY ONLY <2>2 DEF FourParts
<1>8. Len(s) = Position(m, i, j, 4)
  BY <1>5, <1>7 DEF Position
<1>t. PICK t : t = j * n
  OBVIOUS
<1>u. t \in Int /\ cell = t + i /\ (j - 1) * n = t - n /\ (j + 1) * n = t + n
  BY <1>2, <1>3, <1>t
<1>9. CellAt(m, i - 1, j) = cell - 1 /\ CellAt(m, i + 1, j) = cell + 1
  BY <1>1, <1>2, <1>t, <1>u DEF CellAt
<1>10. CellAt(m, i, j - 1) = cell - m.Nx /\ CellAt(m, i, j + 1) = cell + m.Nx
  BY <1>1, <1>2, <1>t, <1>u DEF CellAt
<1>11. Has(m, i, j, 1) => s[Position(m, i, j, 1)] = Beside(m, i, j, 1)
  BY <1>5, <1>7, <1>9 DEF Has, Position, Beside, One
<1>12. Has(m, i, j, 2) => s[Position(m, i, j, 2)] = Beside(m, i, j, 2)
  <2>1. SUFFICES ASSUME i < m.Nx - 1
                 PROVE  s[Position(m, i, j, 2)] = Beside(m, i, j, 2)
    BY DEF Has
  <2>2. Len(b) = 1 /\ b[1] = cell + 1
    BY ONLY <1>5, <2>1 DEF One
  <2>3. Position(m, i, j, 2) = Len(a) + 1
    BY ONLY <1>5, <2>1 DEF Position, One
  <2>4. s[Len(a) + 1] = b[1]
    BY ONLY <1>7, <2>2
  <2>5. QED
    BY ONLY <1>9, <2>2, <2>3, <2>4 DEF Beside
<1>13. Has(m, i, j, 3) => s[Position(m, i, j, 3)] = Beside(m, i, j, 3)
  BY <1>5, <1>7, <1>10 DEF Has, Position, Beside, One
<1>14. Has(m, i, j, 4) => s[Position(m, i, j, 4)] = Beside(m, i, j, 4)
  BY <1>5, <1>7, <1>10 DEF Has, Position, Beside, One
<1>15. ASSUME NEW q \in 1 .. 4, Has(m, i, j, q)
       PROVE  s[Position(m, i, j, q)] = Beside(m, i, j, q)
  <2>1. q = 1 \/ q = 2 \/ q = 3 \/ q = 4
    OBVIOUS
  <2>2. QED
    BY <1>11, <1>12, <1>13, <1>14, <1>15, <2>1
<1>16. QED
  BY <1>4, <1>6, <1>7, <1>8, <1>15

\* the places of the neighbours of a cell in cell_neighbors, with the two products named
SlotIs(s, X, Y, P, Q, i, j) ==
    /\ i = 0 /\ j = 0                     => s = 0
    /\ i = X + 1 /\ j = 0                 => s = 2 + 3 * X
    /\ i = 0 /\ j = Y + 1                 => s = 4 + 3 * X + 4 * P + 6 * Y
    /\ i = X + 1 /\ j = Y + 1             => s = 6 + 4 * P + 6 * Y + 6 * X
    /\ j = 0 /\ i > 0 /\ i < X + 1        => s = 2 + 3 * (i - 1)
    /\ j = Y + 1 /\ i > 0 /\ i < X + 1    => s = 6 + 3 * X + 4 * P + 6 * Y + 3 * (i - 1)
    /\ i = 0 /\ j > 0 /\ j < Y + 1        => s = 4 + 3 * X + 6 * (j - 1) + 4 * Q
    /\ i = X + 1 /\ j > 0 /\ j < Y + 1    => s = 7 + 3 * X + 6 * (j - 1) + 4 * (Q + X)
    /\ i > 0 /\ i < X + 1 /\ j > 0 /\ j < Y + 1
                                          => s = 7 + 3 * X + 6 * (j - 1) + 4 * Q + 4 * (i - 1)

LEMMA SlotFacts ==
    ASSUME NEW m, IsMesh(m), NEW i \in 0 .. m.Nx - 1, NEW j \in 0 .. m.Ny - 1,
           NEW X, X = m.Nx - 2, NEW Y, Y = m.Ny - 2
    PROVE  SlotIs(Slot(m, i, j), X, Y, X * Y, (j - 1) * X, i, j)
<1>1. X \in Nat /\ Y \in Nat /\ i \in 0 .. X + 1 /\ j \in 0 .. Y + 1
      /\ m.Nx - 1 = X + 1 /\ m.Ny - 1 = Y + 1
  BY DEF IsMesh
<1>2. PICK P, Q : P = X * Y /\ Q = (j - 1) * X
  OBVIOUS
<1>3. P \in Int /\ Q \in Int
  BY <1>1, <1>2
<1>4. /\ 4 * X * Y = 4 * P /\ 4 * (j - 1) * X = 4 * Q /\ 4 * X * j = 4 * (Q + X)
  <2>1. X * j = (j - 1) * X + X
    BY <1>1
  <2>2. 4 * X * Y = 4 * (X * Y) /\ 4 * (j - 1) * X = 4 * ((j - 1) * X)
        /\ 4 * X * j = 4 * (X * j)
    BY <1>1
  <2>3. QED
    BY <1>2, <2>1, <2>2
<1>5. PICK A, B, C : A = 4 * X * Y /\ B = 4 * (j - 1) * X /\ C = 4 * X * j
  OBVIOUS
<1>6. A = 4 * P /\ B = 4 * Q /\ C = 4 * (Q + X)
  BY <1>4, <1>5
<1>7. Slot(m, i, j) =
        CASE i = 0 /\ j = 0                     -> 0
          [] i = X + 1 /\ j = 0                 -> 2 + 3 * X
          [] i = 0 /\ j = Y + 1                 -> 4 + 3 * X + A + 6 * Y
          [] i = X + 1 /\ j = Y + 1             -> 6 + A + 6 * Y + 6 * X
          [] i \in 1 .. X /\ j = 0              -> 2 + 3 * (i - 1)
          [] i \in 1 .. X /\ j = Y + 1          -> 6 + 3 * X + A + 6 * Y + 3 * (i - 1)
          [] i = 0 /\ j \in 1 .. Y              -> 4 + 3 * X + 6 * (j - 1) + B
          [] i = X + 1 /\ j \in 1 .. Y          -> 4 + 3 * X + 3 * (2 * (j - 1) + 1) + C
          [] OTHER -> 4 + 3 * X + 3 * (1 + 2 * (j - 1)) + B + 4 * (i - 1)
  BY <1>1, <1>5 DEF Slot
<1>8. PICK s : s = Slot(m, i, j)
  OBVIOUS
<1>9. SlotIs(s, X, Y, P, Q, i, j)
  <2>1. i = 0 /\ j = 0 => s = 0
    BY <1>1, <1>7, <1>8
  <2>2. i = X + 1 /\ j = 0 => s = 2 + 3 * X
    BY <1>1, <1>7, <1>8
  <2>3. i = 0 /\ j = Y + 1 => s = 4 + 3 * X + 4 * P + 6 * Y
    BY <1>1, <1>3, <1>6, <1>7, <1>8
  <2>4. i = X + 1 /\ j = Y + 1 => s = 6 + 4 * P + 6 * Y + 6 * X
    BY <1>1, <1>3, <1>6, <1>7, <1>8
  <2>5. j = 0 /\ i > 0 /\ i < X + 1 => s = 2 + 3 * (i - 1)
    BY <1>1, <1>3, <1>6, <1>7, <1>8
  <2>6. j = Y + 1 /\ i > 0 /\ i < X + 1 => s = 6 + 3 * X + 4 * P + 6 * Y + 3 * (i - 1)
    BY <1>1, <1>3, <1>6, <1>7, <1>8
  <2>7. i = 0 /\ j > 0 /\ j < Y + 1 => s = 4 + 3 * X + 6 * (j - 1) + 4 * Q
    BY <1>1, <1>3, <1>6, <1>7, <1>8
  <2>8. i = X + 1 /\ j > 0 /\ j < Y + 1 => s = 7 + 3 * X + 6 * (j - 1) + 4 * (Q + X)
    BY <1>1, <1>3, <1>6, <1>7, <1>8
  <2>9. i > 0 /\ i < X + 1 /\ j > 0 /\ j < Y + 1
           => s = 7 + 3 * X + 6 * (j - 1) + 4 * Q + 4 * (i - 1)
    BY <1>1, <1>3, <1>6, <1>7, <1>8
  <2>10. QED
    BY ONLY <2>1, <2>2, <2>3, <2>4, <2>5, <2>6, <2>7, <2>8, <2>9 DEF SlotIs
<1>10. QED
  BY <1>2, <1>8, <1>9

\* the neighbours of a cell come behind those of the one before it
LEMMA SlotStep ==
    ASSUME NEW m, IsMesh(m), NEW i \in 0 .. m.Nx - 1, NEW j \in 0 .. m.Ny - 1
    PROVE  /\ i < m.Nx - 1 => Slot(m, i + 1, j) = Slot(m, i, j) + Position(m, i, j, 4)
           /\ i = m.Nx - 1 /\ j < m.Ny - 1 =>
                 Slot(m, 0, j + 1) = Slot(m, i, j) + Position(m, i, j, 4)
           /\ i = m.Nx - 1 /\ j = m.Ny - 1 =>
                 NumNeighbors(m) = Slot(m, i, j) + Position(m, i, j, 4)
           /\ Slot(m, i, j) \in Int
<1>1. PICK X, Y : X = m.Nx - 2 /\ Y = m.Ny - 2
  OBVIOUS
<1>2. X \in Nat /\ Y \in Nat /\ i \in 0 .. X + 1 /\ j \in 0 .. Y + 1
      /\ m.Nx - 1 = X + 1 /\ m.Ny - 1 = Y + 1
  BY <1>1 DEF IsMesh
<1>3. PICK P, Q, R : P = X * Y /\ Q = (j - 1) * X /\ R = ((j + 1) - 1) * X
  OBVIOUS
<1>4. P \in Int /\ Q \in Int /\ R \in Int /\ R = Q + X
  <2>1. ((j + 1) - 1) * X = (j - 1) * X + X
    BY <1>2
  <2>2. X * Y \in Int /\ (j - 1) * X \in Int /\ ((j + 1) - 1) * X \in Int
    BY <1>2
  <2>3. QED
    BY <1>3, <2>1, <2>2
<1>5. j = Y => R = P
  BY <1>2, <1>3
<1>6. PICK s : s = Slot(m, i, j)
  OBVIOUS
<1>7. SlotIs(s, X, Y, P, Q, i, j)
  BY <1>1, <1>3, <1>6, SlotFacts
<1>8. PICK l : l = Position(m, i, j, 4)
  OBVIOUS
<1>9. l = (IF i > 0 THEN 1 ELSE 0) + (IF i < X + 1 THEN 1 ELSE 0)
             + (IF j > 0 THEN 1 ELSE 0) + (IF j < Y + 1 THEN 1 ELSE 0)
  BY <1>2, <1>8 DEF Position, One
<1>10. s \in Int
  <2>1. PICK k : k = i
    OBVIOUS
  <2>2. (i = 0 \/ i = X + 1 \/ (i > 0 /\ i < X + 1)) /\ (j = 0 \/ j = Y + 1 \/ (j > 0 /\ j < Y + 1))
    BY <1>2
  <2>3. QED
    BY <1>2, <1>4, <1>7, <2>2 DEF SlotIs
<1>11. ASSUME i < X + 1
       PROVE  Slot(m, i + 1, j) = s + l
  <2>1. i + 1 \in 0 .. m.Nx - 1
    BY <1>2, <1>11
  <2>2. PICK t : t = Slot(m, i + 1, j)
    OBVIOUS
  <2>3. SlotIs(t, X, Y, P, Q, i + 1, j)
    BY <1>1, <1>3, <2>1, <2>2, SlotFacts
  <2>4. CASE j = 0
    BY <1>2, <1>4, <1>7, <1>9, <1>11, <2>2, <2>3, <2>4 DEF SlotIs
  <2>5. CASE j = Y + 1
    BY <1>2, <1>4, <1>7, <1>9, <1>11, <2>2, <2>3, <2>5 DEF SlotIs
  <2>6. CASE j > 0 /\ j < Y + 1
    BY <1>2, <1>4, <1>7, <1>9, <1>11, <2>2, <2>3, <2>6 DEF SlotIs
  <2>7. QED
    BY <1>2, <2>4, <2>5, <2>6
<1>12. ASSUME i = X + 1, j < Y + 1
       PROVE  Slot(m, 0, j + 1) = s + l
  <2>1. j + 1 \in 0 .. m.Ny - 1 /\ 0 \in 0 .. m.Nx - 1
    BY <1>2, <1>12
  <2>2. PICK t, h : t = Slot(m, 0, j + 1) /\ h = j + 1
    OBVIOUS
  <2>3. SlotIs(t, X, Y, P, R, 0, h)
    <3>1. SlotIs(Slot(m, 0, j + 1), X, Y, X * Y, ((j + 1) - 1) * X, 0, j + 1)
      BY <1>1, <2>1, SlotFacts
    <3>2. QED
      BY <1>3, <2>2, <3>1
  <2>4. CASE j = 0 /\ Y = 0
    <3>1. P = 0
      BY <1>2, <1>3, <2>4
    <3>2. QED
      BY <1>2, <1>4, <1>7, <1>9, <1>12, <2>2, <2>3, <2>4, <3>1 DEF SlotIs
  <2>5. CASE j = 0 /\ Y > 0
    <3>1. Q = 0 - X
      BY <1>2, <1>3, <2>5
    <3>2. QED
      BY <1>2, <1>4, <1>7, <1>9, <1>12, <2>2, <2>3, <2>5, <3>1 DEF SlotIs
  <2>6. CASE j > 0 /\ j < Y
    BY <1>2, <1>4, <1>7, <1>9, <1>12, <2>2, <2>3, <2>6 DEF SlotIs
  <2>7. CASE j > 0 /\ j = Y
    BY <1>2, <1>4, <1>5, <1>7, <1>9, <1>12, <2>2, <2>3, <2>7 DEF SlotIs
  <2>8. QED
    BY <1>2, <1>12, <2>4, <2>5, <2>6, <2>7
<1>13. ASSUME i = X + 1, j = Y + 1
       PROVE  NumNeighbors(m) = s + l
  <2>1. NumNeighbors(m) = 4 * X * Y + 3 * (2 * X + 2 * Y) + 2 * 4
    BY <1>1 DEF NumNeighbors
  <2>2. 4 * X * Y = 4 * P
    <3>1. 4 * X * Y = 4 * (X * Y)
      BY <1>2
    <3>2. QED
      BY <1>3, <3>1
  <2>3. PICK A : A = 4 * X * Y
    OBVIOUS
  <2>4. A = 4 * P /\ NumNeighbors(m) = A + 3 * (2 * X + 2 * Y) + 2 * 4
    BY <2>1, <2>2, <2>3
  <2>5. s = 6 + 4 * P + 6 * Y + 6 * X /\ l = 2
    BY <1>2, <1>7, <1>9, <1>13 DEF SlotIs
  <2>6. QED
    BY <1>2, <1>4, <2>4, <2>5
<1>14. QED
  BY <1>2, <1>6, <1>8, <1>10, <1>11, <1>12, <1>13

\* the beginnings do not fall
LEMMA PlacesRise ==
    ASSUME NEW n \in Nat, NEW s, \A k \in 1 .. n : Len(s[k]) \in Nat,
           NEW off, Places(off, s, n), NEW k \in 0 .. n, NEW l \in k .. n
    PROVE  off[k] <= off[l]
<1> DEFINE T == {d \in 0 .. n - k : off[k] <= off[k + d]}
<1>1. off \in [0 .. n -> Nat] /\ \A h \in 1 .. n : off[h] = off[h - 1] + Len(s[h])
  BY DEF Places
<1>2. 0 \in T
  <2>1. k + 0 = k /\ 0 \in 0 .. n - k /\ off[k] \in Nat
    BY <1>1
  <2>2. QED
    BY <2>1
<1>3. ASSUME NEW d \in 0 .. (n - k) - 1, d \in T
      PROVE  d + 1 \in T
  <2>1. PICK h : h = k + d + 1
    OBVIOUS
  <2>2. h \in 1 .. n /\ h - 1 = k + d /\ h = k + (d + 1) /\ h \in 0 .. n /\ k + d \in 0 .. n
    BY <2>1
  <2>3. off[h] = off[k + d] + Len(s[h]) /\ Len(s[h]) \in Nat
    BY <1>1, <2>2
  <2>4. off[k] <= off[k + d] /\ off[k] \in Nat /\ off[k + d] \in Nat
    BY <1>1, <1>3, <2>2
  <2>5. off[k] <= off[h]
    BY <2>3, <2>4
  <2>6. QED
    BY <2>2, <2>5
<1>4. l - k \in 0 .. n - k /\ n - k \in Nat
  OBVIOUS
<1>5. 0 .. n - k \subseteq T
  <2> HIDE DEF T
  <2>1. QED
    BY <1>2, <1>3, <1>4, UpTo
<1>6. l - k \in T /\ k + (l - k) = l
  <2> HIDE DEF T
  <2>1. QED
    BY <1>4, <1>5
<1>7. QED
  BY <1>6

\* a place lies in one of the sequences only
SamePlace(off, k, j, l, h) == off[k - 1] + j = off[l - 1] + h
LEMMA OnePlace ==
    ASSUME NEW n \in Nat, NEW s, \A k \in 1 .. n : Len(s[k]) \in Nat,
           NEW off, Places(off, s, n),
           NEW k \in 1 .. n, NEW j \in 1 .. Len(s[k]),
           NEW l \in 1 .. n, NEW h \in 1 .. Len(s[l]), SamePlace(off, k, j, l, h)
    PROVE  k = l /\ j = h
<1>1. ASSUME NEW a \in 1 .. n, NEW b \in 1 .. n, NEW x \in 1 .. Len(s[a]),
             NEW y \in 1 .. Len(s[b]), a < b
      PROVE  off[a - 1] + x < off[b - 1] + y
  <2>1. off[a] = off[a - 1] + Len(s[a]) /\ Len(s[a]) \in Nat /\ Len(s[b]) \in Nat
    BY DEF Places
  <2>2. a - 1 \in 0 .. n /\ a \in 0 .. n /\ b - 1 \in a .. n /\ b - 1 \in 0 .. n
    BY <1>1
  <2>3. off[a] <= off[b - 1]
    BY <2>2, PlacesRise
  <2>4. off[a - 1] \in Nat /\ off[b - 1] \in Nat
    BY <2>2 DEF Places
  <2>5. x \in 1 .. Len(s[a]) /\ y \in Nat /\ y > 0
    BY <1>1, <2>1
  <2>6. QED
    BY ONLY <2>1, <2>3, <2>4, <2>5
<1>2. off[k - 1] \in Nat /\ off[l - 1] \in Nat
  <2>1. k - 1 \in 0 .. n /\ l - 1 \in 0 .. n
    OBVIOUS
  <2>2. QED
    BY <2>1 DEF Places
<1>3. Len(s[k]) \in Nat /\ Len(s[l]) \in Nat /\ j \in Nat /\ h \in Nat
  OBVIOUS
<1>4. ~(off[k - 1] + j < off[l - 1] + h) /\ ~(off[l - 1] + h < off[k - 1] + j)
  BY <1>2, <1>3 DEF SamePlace
<1>5. ~(k < l) /\ ~(l < k)
  BY <1>1, <1>4
<1>6. k = l
  BY <1>5
<1>7. QED
  BY <1>2, <1>3, <1>6 DEF SamePlace

-----------------------------------------------------------------------------
(* The neighbours of a cell.                                                *)

CellSlot(m, c) == Slot(m, Column(m, c), Row(m, c))
CellStencil(m, c) == Stencil(m, Column(m, c), Row(m, c))

LEMMA CellSlots ==
    ASSUME NEW m, IsMesh(m)
    PROVE  /\ m.Nx * m.Ny \in Nat /\ 0 \in Cells(m) /\ CellSlot(m, 0) = 0
           /\ \A c \in Cells(m) :
                 /\ CellStencil(m, c) \in Seq(Int) /\ CellSlot(m, c) \in Int
                 /\ c + 1 \in Cells(m) =>
                       CellSlot(m, c + 1) = CellSlot(m, c) + Len(CellStencil(m, c))
                 /\ c + 1 \notin Cells(m) =>
                       NumNeighbors(m) = CellSlot(m, c) + Len(CellStencil(m, c))
<1>1. PICK n, k : n = m.Nx /\ k = m.Ny
  OBVIOUS
<1>2. n \in Nat /\ k \in Nat /\ n >= 2 /\ k >= 2
  BY <1>1 DEF IsMesh
<1>3. n * k \in Nat
  BY <1>2
<1>4. 0 \in 0 .. n - 1 /\ 0 \in 0 .. k - 1
  BY <1>2
<1>5. CellAt(m, 0, 0) = 0
  BY <1>1, <1>2 DEF CellAt
<1>6. 0 \in Cells(m) /\ Column(m, 0) = 0 /\ Row(m, 0) = 0
  BY <1>1, <1>4, <1>5, CellAtFacts
<1>7. CellSlot(m, 0) = 0
  <2>1. CellSlot(m, 0) = Slot(m, 0, 0)
    BY <1>6 DEF CellSlot
  <2>2. PICK X, Y : X = m.Nx - 2 /\ Y = m.Ny - 2
    OBVIOUS
  <2>3. PICK P, Q, s : P = X * Y /\ Q = (0 - 1) * X /\ s = Slot(m, 0, 0)
    OBVIOUS
  <2>4. SlotIs(s, X, Y, P, Q, 0, 0)
    BY <1>1, <1>4, <2>2, <2>3, SlotFacts
  <2>5. s = 0
    BY <2>4 DEF SlotIs
  <2>6. QED
    BY <2>1, <2>3, <2>5
<1>8. ASSUME NEW c \in Cells(m)
      PROVE  /\ CellStencil(m, c) \in Seq(Int) /\ CellSlot(m, c) \in Int
             /\ c + 1 \in Cells(m) =>
                   CellSlot(m, c + 1) = CellSlot(m, c) + Len(CellStencil(m, c))
             /\ c + 1 \notin Cells(m) =>
                   NumNeighbors(m) = CellSlot(m, c) + Len(CellStencil(m, c))
  <2>1. PICK i, j : i = Column(m, c) /\ j = Row(m, c)
    OBVIOUS
  <2>2. c \in Nat /\ i \in 0 .. m.Nx - 1 /\ j \in 0 .. m.Ny - 1 /\ c = CellAt(m, i, j)
    BY <2>1, CellFacts
  <2>3. CellStencil(m, c) = Stencil(m, i, j) /\ CellSlot(m, c) = Slot(m, i, j)
    BY <2>1 DEF CellStencil, CellSlot
  <2>4. Stencil(m, i, j) \in Seq(Int) /\ Len(Stencil(m, i, j)) = Position(m, i, j, 4)
    BY <2>2, StencilFacts
  <2>5. /\ i < m.Nx - 1 => Slot(m, i + 1, j) = Slot(m, i, j) + Position(m, i, j, 4)
        /\ i = m.Nx - 1 /\ j < m.Ny - 1 =>
              Slot(m, 0, j + 1) = Slot(m, i, j) + Position(m, i, j, 4)
        /\ i = m.Nx - 1 /\ j = m.Ny - 1 =>
              NumNeighbors(m) = Slot(m, i, j) + Position(m, i, j, 4)
        /\ Slot(m, i, j) \in Int
    BY <2>2, SlotStep
  <2>6. c = j * n + i /\ j * n \in Nat /\ i \in 0 .. n - 1 /\ j \in 0 .. k - 1
    BY <1>1, <1>2, <2>2 DEF CellAt
  <2>7. CASE i < n - 1
    <3>0. CellAt(m, i + 1, j) = c + 1
      <4>1. CellAt(m, i + 1, j) = j * n + (i + 1)
        BY <1>1 DEF CellAt
      <4>2. QED
        BY <2>6, <4>1
    <3>1. i + 1 \in 0 .. m.Nx - 1 /\ CellAt(m, i + 1, j) = c + 1
      BY <1>1, <1>2, <2>6, <2>7, <3>0
    <3>2. c + 1 \in Cells(m) /\ Column(m, c + 1) = i + 1 /\ Row(m, c + 1) = j
      BY <2>2, <3>1, CellAtFacts
    <3>3. CellSlot(m, c + 1) = Slot(m, i + 1, j)
      BY <3>2 DEF CellSlot
    <3>4. QED
      BY <1>1, <2>3, <2>4, <2>5, <2>7, <3>2, <3>3
  <2>8. CASE i = n - 1 /\ j < k - 1
    <3>1. j + 1 \in 0 .. m.Ny - 1 /\ 0 \in 0 .. m.Nx - 1
      BY <1>1, <1>2, <1>4, <2>6, <2>8
    <3>2. CellAt(m, 0, j + 1) = c + 1
      <4>1. (j + 1) * n = j * n + n
        BY <1>2, <2>6
      <4>2. (j + 1) * n + 0 = c + 1
        BY <1>2, <2>6, <2>8, <4>1
      <4>3. QED
        BY <1>1, <4>2 DEF CellAt
    <3>3. c + 1 \in Cells(m) /\ Column(m, c + 1) = 0 /\ Row(m, c + 1) = j + 1
      BY <3>1, <3>2, CellAtFacts
    <3>4. CellSlot(m, c + 1) = Slot(m, 0, j + 1)
      BY <3>3 DEF CellSlot
    <3>5. QED
      BY <1>1, <2>3, <2>4, <2>5, <2>8, <3>3, <3>4
  <2>9. CASE i = n - 1 /\ j = k - 1
    <3>1. c + 1 = n * k
      <4>1. (k - 1) * n + n = n * k
        BY <1>2
      <4>2. QED
        BY <1>2, <2>6, <2>9, <4>1
    <3>2. c + 1 \notin Cells(m)
      BY <1>1, <1>3, <3>1 DEF Cells
    <3>3. QED
      BY <1>1, <2>3, <2>4, <2>5, <2>9, <3>2
  <2>10. QED
    BY <1>2, <2>6, <2>7, <2>8, <2>9
<1>9. QED
  BY <1>1, <1>3, <1>6, <1>7, <1>8

\* the beginnings of the neighbours of the cells, and the end
Begins(m) == [k \in 0 .. m.Nx * m.Ny |->
                 IF k \in Cells(m) THEN CellSlot(m, k) ELSE NumNeighbors(m)]
Stencils(m) == [k \in 1 .. m.Nx * m.Ny |-> CellStencil(m, k - 1)]

LEMMA BeginsArePlaces ==
    ASSUME NEW m, IsMesh(m)
    PROVE  /\ Places(Begins(m), Stencils(m), m.Nx * m.Ny)
           /\ \A k \in 1 .. m.Nx * m.Ny : Stencils(m)[k] \in Seq(Int)
<1>1. PICK n : n = m.Nx * m.Ny
  OBVIOUS
<1>2. n \in Nat /\ Cells(m) = 0 .. n - 1 /\ n > 0
  BY <1>1, CellSlots DEF Cells
<1>3. PICK off, s : off = Begins(m) /\ s = Stencils(m)
  OBVIOUS
<1>4. DOMAIN off = 0 .. n /\ off[0] = 0
  BY <1>1, <1>2, <1>3, CellSlots DEF Begins
<1>5. ASSUME NEW k \in 1 .. n
      PROVE  /\ s[k] \in Seq(Int) /\ off[k - 1] \in Int
             /\ off[k] = off[k - 1] + Len(s[k])
  <2>1. PICK c : c = k - 1
    OBVIOUS
  <2>2. c \in 0 .. n - 1 /\ k = c + 1 /\ k \in 0 .. n /\ c \in 0 .. n
    BY <1>2, <1>5, <2>1
  <2>3. c \in Cells(m) /\ (k \in Cells(m) <=> c + 1 \in Cells(m))
    BY <1>2, <2>2
  <2>4. s[k] = CellStencil(m, c)
    BY <1>1, <1>3, <2>1 DEF Stencils
  <2>5. off[c] = CellSlot(m, c)
    BY <1>1, <1>3, <2>2, <2>3 DEF Begins
  <2>6. off[k] = IF c + 1 \in Cells(m) THEN CellSlot(m, c + 1) ELSE NumNeighbors(m)
    BY <1>1, <1>3, <2>2 DEF Begins
  <2>7. QED
    BY <2>1, <2>3, <2>4, <2>5, <2>6, CellSlots
<1> DEFINE T == {k \in 0 .. n : off[k] \in Nat}
<1>6. 0 .. n \subseteq T
  <2>1. 0 \in T
    BY <1>2, <1>4
  <2>2. ASSUME NEW k \in 0 .. n - 1, k \in T
        PROVE  k + 1 \in T
    <3>1. PICK l : l = k + 1
      OBVIOUS
    <3>2. l \in 1 .. n /\ l - 1 = k /\ l \in 0 .. n
      BY <1>2, <2>2, <3>1
    <3>3. s[l] \in Seq(Int) /\ off[l] = off[k] + Len(s[l])
      BY <1>5, <3>2
    <3>4. Len(s[l]) \in Nat /\ off[k] \in Nat
      BY <2>2, <3>3
    <3>5. QED
      BY <3>1, <3>2, <3>3, <3>4
  <2> HIDE DEF T
  <2>3. QED
    BY <1>2, <2>1, <2>2, UpTo
<1>7. off \in [0 .. n -> Nat]
  <2>1. \A k \in 0 .. n : off[k] \in Nat
    BY <1>6
  <2>2. off = [k \in 0 .. n |-> off[k]]
    BY <1>1, <1>3 DEF Begins
  <2>3. QED
    BY <2>1, <2>2
<1>8. Places(off, s, n)
  BY <1>4, <1>5, <1>7 DEF Places
<1>9. QED
  BY <1>1, <1>3, <1>5, <1>8

LEMMA SameSeq ==
    ASSUME NEW S, NEW a \in Seq(S), NEW b \in Seq(S), Len(a) = Len(b),
           \A i \in 1 .. Len(a) : a[i] = b[i]
    PROVE  a = b
<1>1. /\ Len(a) \in Nat /\ DOMAIN a = 1 .. Len(a) /\ a = [i \in DOMAIN a |-> a[i]]
      /\ DOMAIN b = 1 .. Len(b) /\ b = [i \in DOMAIN b |-> b[i]]
  OBVIOUS
<1>2. QED
  BY <1>1, Zenon

\* cell_neighbors holds the neighbours of every cell where number_of_neighbors says
LEMMA NeighborsAre ==
    ASSUME NEW m, IsMesh(m), NEW c \in Cells(m)
    PROVE  SubSeq(CellNeighbors(m), NumberOfNeighbors(m)[c + 1] + 1, NumberOfNeighbors(m)[c + 2])
               = CellStencil(m, c)
<1>1. PICK n, off, s : n = m.Nx * m.Ny /\ off = Begins(m) /\ s = Stencils(m)
  OBVIOUS
<1>2. n \in Nat /\ Cells(m) = 0 .. n - 1 /\ c \in 0 .. n - 1
  BY <1>1, CellSlots DEF Cells
<1>3. Places(off, s, n) /\ \A k \in 1 .. n : s[k] \in Seq(Int)
  BY <1>1, BeginsArePlaces
<1>4. ASSUME NEW d \in 0 .. n - 1
      PROVE  /\ s[d + 1] = CellStencil(m, d) /\ off[d] = CellSlot(m, d)
             /\ off[d + 1] = off[d] + Len(s[d + 1])
             /\ off[d] \in Nat /\ s[d + 1] \in Seq(Int) /\ Len(s[d + 1]) \in Nat
  <2>1. PICK k : k = d + 1
    OBVIOUS
  <2>2. k \in 1 .. n /\ k - 1 = d /\ d \in 0 .. n /\ d \in Cells(m)
    BY <1>2, <1>4, <2>1
  <2>3. s[k] = CellStencil(m, d)
    BY <1>1, <2>2 DEF Stencils
  <2>4. off[d] = CellSlot(m, d)
    BY <1>1, <2>2 DEF Begins
  <2>5. off[k] = off[d] + Len(s[k]) /\ off[d] \in Nat
    BY <1>3, <2>2 DEF Places
  <2>6. s[k] \in Seq(Int)
    BY <1>3, <2>2
  <2>7. Len(s[k]) \in Nat
    BY <2>6
  <2>8. QED
    BY <2>1, <2>3, <2>4, <2>5, <2>6, <2>7
<1>5. NumberOfNeighbors(m)[c + 1] = off[c]
  <2>1. CASE c = 0
    <3>1. NumberOfNeighbors(m)[c + 1] = 0
      BY <1>1, <1>2, <2>1 DEF NumberOfNeighbors
    <3>2. off[0] = 0
      BY <1>3 DEF Places
    <3>3. QED
      BY <2>1, <3>1, <3>2
  <2>2. CASE c # 0
    <3>1. PICK d : d = c - 1
      OBVIOUS
    <3>2. d \in 0 .. n - 1 /\ d + 1 = c /\ (c + 1) - 2 = d /\ c + 1 \in 1 .. n + 1 /\ c + 1 # 1
      BY <1>2, <2>2, <3>1
    <3>3. NumberOfNeighbors(m)[c + 1] = CellSlot(m, d) + Len(CellStencil(m, d))
      BY <1>1, <3>2 DEF NumberOfNeighbors, CellSlot, CellStencil
    <3>4. QED
      BY <1>4, <3>2, <3>3
  <2>3. QED
    BY <2>1, <2>2
<1>6. NumberOfNeighbors(m)[c + 2] = off[c + 1]
  <2>1. (c + 2) - 2 = c /\ c + 2 \in 1 .. n + 1 /\ c + 2 # 1
    BY <1>2
  <2>2. NumberOfNeighbors(m)[c + 2] = CellSlot(m, c) + Len(CellStencil(m, c))
    BY <1>1, <2>1 DEF NumberOfNeighbors, CellSlot, CellStencil
  <2>3. QED
    BY <1>2, <1>4, <2>2
<1>7. off[n] = NumNeighbors(m) /\ off[n] \in Nat
  <2>1. n \notin Cells(m) /\ n \in 0 .. n
    BY <1>2
  <2>2. off[n] = NumNeighbors(m)
    BY <1>1, <2>1 DEF Begins
  <2>3. QED
    BY <1>3, <2>1, <2>2 DEF Places
<1>8. \A k \in 1 .. n : Len(s[k]) \in Nat
  BY <1>3
<1>9. PICK b, e, t : b = off[c] /\ e = off[c + 1] /\ t = CellStencil(m, c)
  OBVIOUS
<1>10. b \in Nat /\ e = b + Len(t) /\ t \in Seq(Int) /\ Len(t) \in Nat /\ e <= NumNeighbors(m)
  <2>1. c + 1 \in 0 .. n /\ n \in (c + 1) .. n
    BY <1>2
  <2>2. off[c + 1] <= off[n]
    BY <1>2, <1>3, <1>8, <2>1, PlacesRise
  <2>3. QED
    BY <1>2, <1>4, <1>7, <1>9, <2>2
<1>11. PICK z : z = CellNeighbors(m)
  OBVIOUS
<1>12. ASSUME NEW j \in 1 .. Len(t)
       PROVE  z[b + j] = t[j]
  <2>1. PICK k : k = b + j
    OBVIOUS
  <2>2. k \in 1 .. NumNeighbors(m) /\ k \in Int
    BY <1>7, <1>10, <1>12, <2>1
  <2>3. ASSUME NEW d \in Cells(m)
        PROVE  Covers(m, d, k - 1)
                  <=> k - off[d] \in 1 .. Len(s[d + 1])
    <3>1. Covers(m, d, k - 1)
             <=> k - 1 \in CellSlot(m, d) .. CellSlot(m, d) + Len(CellStencil(m, d)) - 1
      BY DEF Covers, CellSlot, CellStencil
    <3>2. d \in 0 .. n - 1
      BY <1>2, <2>3
    <3>3. PICK o, l : o = off[d] /\ l = Len(s[d + 1])
      OBVIOUS
    <3>4. o \in Nat /\ l \in Nat /\ o = CellSlot(m, d) /\ l = Len(CellStencil(m, d))
      BY <1>4, <3>2, <3>3
    <3>5. k - 1 \in o .. o + l - 1 <=> k - o \in 1 .. l
      BY <2>2, <3>4
    <3>6. QED
      BY <3>1, <3>3, <3>4, <3>5
  <2>4. Covers(m, c, k - 1)
    <3>1. k - off[c] = j /\ Len(s[c + 1]) = Len(t)
      BY <1>2, <1>4, <1>9, <1>10, <1>12, <2>1
    <3>2. QED
      BY <1>12, <2>3, <3>1
  <2>5. PICK d \in Cells(m) : d = CHOOSE u \in Cells(m) : Covers(m, u, k - 1)
    BY <2>4
  <2>6. Covers(m, d, k - 1)
    BY <2>4, <2>5
  <2>7. d = c
    <3>1. PICK h : h = k - off[d]
      OBVIOUS
    <3>2. h \in 1 .. Len(s[d + 1]) /\ j \in 1 .. Len(s[c + 1])
      BY <1>2, <1>4, <1>9, <1>12, <2>3, <2>6, <3>1
    <3>3. d \in 0 .. n - 1
      BY <1>2
    <3>4. off[d] \in Nat /\ off[c] = b
      BY <1>4, <1>9, <3>3
    <3>5. PICK x, y : x = d + 1 /\ y = c + 1
      OBVIOUS
    <3>6. x \in 1 .. n /\ y \in 1 .. n /\ x - 1 = d /\ y - 1 = c
      BY <1>2, <3>3, <3>5
    <3>7. off[x - 1] + h = off[y - 1] + j
      <4>1. off[d] + h = k
        BY <2>2, <3>1, <3>4
      <4>2. QED
        BY <2>1, <3>4, <3>6, <4>1
    <3>71. SamePlace(off, x, h, y, j)
      BY <3>7 DEF SamePlace
    <3>8. h \in 1 .. Len(s[x]) /\ j \in 1 .. Len(s[y])
      BY <3>2, <3>5
    <3>9. x = y
      BY ONLY <1>2, <1>3, <1>8, <3>6, <3>71, <3>8, OnePlace
    <3>10. QED
      BY <3>6, <3>9
  <2>8. z[k] = LET u == CHOOSE u \in Cells(m) : Covers(m, u, k - 1)
                   x == Column(m, u)
                   y == Row(m, u)
               IN  Stencil(m, x, y)[k - Slot(m, x, y)]
    BY <1>11, <2>2, <2>4 DEF CellNeighbors
  <2>9. z[k] = CellStencil(m, c)[k - CellSlot(m, c)]
    BY <2>5, <2>7, <2>8 DEF CellStencil, CellSlot
  <2>10. k - CellSlot(m, c) = j
    BY <1>2, <1>4, <1>9, <1>10, <1>12, <2>1
  <2>11. QED
    BY <1>9, <2>1, <2>9, <2>10
<1>13. PICK a : a = SubSeq(z, b + 1, e)
  OBVIOUS
<1>14. a = t
  <2>1. \A i \in b + 1 .. e : z[i] \in Int
    <3>1. SUFFICES ASSUME NEW i \in b + 1 .. e
                   PROVE  z[i] \in Int
      OBVIOUS
    <3>2. PICK j : j = i - b
      OBVIOUS
    <3>3. j \in 1 .. Len(t) /\ i = b + j
      BY <1>10, <3>1, <3>2
    <3>4. z[i] = t[j]
      BY <1>12, <3>3
    <3>5. QED
      BY <1>10, <3>3, <3>4
  <2>2. PICK f : f = b + 1
    OBVIOUS
  <2>3. f \in Int /\ e \in Int /\ \A i \in f .. e : z[i] \in Int
    BY <1>10, <2>1, <2>2
  <2>4. /\ SubSeq(z, f, e) \in Seq(Int)
        /\ Len(SubSeq(z, f, e)) = IF f <= e THEN e - f + 1 ELSE 0
        /\ \A i \in 1 .. e - f + 1 : SubSeq(z, f, e)[i] = z[f + i - 1]
    BY ONLY <2>3, SubSeqProperties
  <2>5. a \in Seq(Int) /\ Len(a) = Len(t) /\ \A i \in 1 .. Len(t) : a[i] = z[b + i]
    <3>1. e - f + 1 = Len(t) /\ (IF f <= e THEN e - f + 1 ELSE 0) = Len(t)
      BY <1>10, <2>2
    <3>2. \A i \in 1 .. Len(t) : f + i - 1 = b + i
      BY <1>10, <2>2
    <3>3. QED
      BY <1>13, <2>2, <2>4, <3>1, <3>2
  <2>6. \A i \in 1 .. Len(t) : a[i] = t[i]
    BY <1>12, <2>5
  <2>7. QED
    BY <1>10, <2>5, <2>6, SameSeq
<1>15. QED
  BY <1>5, <1>6, <1>9, <1>11, <1>13, <1>14

-----------------------------------------------------------------------------
(* Which cells are neighbours.                                              *)

\* a neighbour of a cell is on one of its four sides
LEMMA BesideFacts ==
    ASSUME NEW m, IsMesh(m), NEW i \in 0 .. m.Nx - 1, NEW j \in 0 .. m.Ny - 1,
           NEW q \in 1 .. 4, Has(m, i, j, q)
    PROVE  /\ Position(m, i, j, q) \in 1 .. Len(Stencil(m, i, j))
           /\ Beside(m, i, j, q) \in Cells(m)
           /\ Column(m, Beside(m, i, j, q)) =
                 (CASE q = 1 -> i - 1 [] q = 2 -> i + 1 [] q = 3 -> i [] q = 4 -> i)
           /\ Row(m, Beside(m, i, j, q)) =
                 (CASE q = 1 -> j [] q = 2 -> j [] q = 3 -> j - 1 [] q = 4 -> j + 1)
<1>1. PICK n, k : n = m.Nx /\ k = m.Ny
  OBVIOUS
<1>2. n \in Nat /\ k \in Nat /\ n >= 2 /\ k >= 2 /\ i \in 0 .. n - 1 /\ j \in 0 .. k - 1
  BY <1>1 DEF IsMesh
<1>3. Len(Stencil(m, i, j)) = Position(m, i, j, 4)
  BY StencilFacts
<1>4. Position(m, i, j, q) \in 1 .. Position(m, i, j, 4)
  <2>1. q = 1 \/ q = 2 \/ q = 3 \/ q = 4
    OBVIOUS
  <2>2. PICK x, y, z, w : /\ x = One(i > 0) /\ y = One(i < m.Nx - 1)
                          /\ z = One(j > 0) /\ w = One(j < m.Ny - 1)
    OBVIOUS
  <2>3. x \in 0 .. 1 /\ y \in 0 .. 1 /\ z \in 0 .. 1 /\ w \in 0 .. 1
    BY <2>2 DEF One
  <2>4. /\ Position(m, i, j, 1) = x /\ Position(m, i, j, 2) = x + y
        /\ Position(m, i, j, 3) = x + y + z /\ Position(m, i, j, 4) = x + y + z + w
    BY <2>2 DEF Position
  <2>5. CASE q = 1
    <3>1. x = 1
      BY <2>2, <2>5 DEF Has, One
    <3>2. QED
      BY <2>3, <2>4, <2>5, <3>1
  <2>6. CASE q = 2
    <3>1. y = 1
      BY <2>2, <2>6 DEF Has, One
    <3>2. QED
      BY <2>3, <2>4, <2>6, <3>1
  <2>7. CASE q = 3
    <3>1. z = 1
      BY <2>2, <2>7 DEF Has, One
    <3>2. QED
      BY <2>3, <2>4, <2>7, <3>1
  <2>8. CASE q = 4
    <3>1. w = 1
      BY <2>2, <2>8 DEF Has, One
    <3>2. QED
      BY <2>3, <2>4, <2>8, <3>1
  <2>9. QED
    BY <2>1, <2>5, <2>6, <2>7, <2>8
<1>5. q = 1 \/ q = 2 \/ q = 3 \/ q = 4
  OBVIOUS
<1>6. CASE q = 1
  <2>1. i - 1 \in 0 .. m.Nx - 1 /\ Beside(m, i, j, q) = CellAt(m, i - 1, j)
    BY <1>1, <1>2, <1>6 DEF Has, Beside
  <2>2. QED
    BY <1>3, <1>4, <1>6, <2>1, CellAtFacts
<1>7. CASE q = 2
  <2>1. i + 1 \in 0 .. m.Nx - 1 /\ Beside(m, i, j, q) = CellAt(m, i + 1, j)
    BY <1>1, <1>2, <1>7 DEF Has, Beside
  <2>2. QED
    BY <1>3, <1>4, <1>7, <2>1, CellAtFacts
<1>8. CASE q = 3
  <2>1. j - 1 \in 0 .. m.Ny - 1 /\ Beside(m, i, j, q) = CellAt(m, i, j - 1)
    BY <1>1, <1>2, <1>8 DEF Has, Beside
  <2>2. QED
    BY <1>3, <1>4, <1>8, <2>1, CellAtFacts
<1>9. CASE q = 4
  <2>1. j + 1 \in 0 .. m.Ny - 1 /\ Beside(m, i, j, q) = CellAt(m, i, j + 1)
    BY <1>1, <1>2, <1>9 DEF Has, Beside
  <2>2. QED
    BY <1>3, <1>4, <1>9, <2>1, CellAtFacts
<1>10. QED
  BY <1>5, <1>6, <1>7, <1>8, <1>9

\* each place of a stencil is that of one side
LEMMA EachPlace ==
    ASSUME NEW m, IsMesh(m), NEW i \in 0 .. m.Nx - 1, NEW j \in 0 .. m.Ny - 1,
           NEW k \in 1 .. Len(Stencil(m, i, j))
    PROVE  \E q \in 1 .. 4 : /\ Has(m, i, j, q) /\ k = Position(m, i, j, q)
                             /\ Stencil(m, i, j)[k] = Beside(m, i, j, q)
<1>1. k \in 1 .. Position(m, i, j, 4)
  BY StencilFacts
<1>2. \E q \in 1 .. 4 : Has(m, i, j, q) /\ k = Position(m, i, j, q)
  <2>s. PICK x, y, z, w : /\ x = One(i > 0) /\ y = One(i < m.Nx - 1)
                          /\ z = One(j > 0) /\ w = One(j < m.Ny - 1)
    OBVIOUS
  <2>u. x \in 0 .. 1 /\ y \in 0 .. 1 /\ z \in 0 .. 1 /\ w \in 0 .. 1
    BY <2>s DEF One
  <2>t. /\ Position(m, i, j, 1) = x /\ Position(m, i, j, 2) = x + y
        /\ Position(m, i, j, 3) = x + y + z /\ Position(m, i, j, 4) = x + y + z + w
    BY <2>s DEF Position
  <2>1. \/ x = 1 /\ k = x
        \/ y = 1 /\ k = x + y
        \/ z = 1 /\ k = x + y + z
        \/ w = 1 /\ k = x + y + z + w
    BY <1>1, <2>t, <2>u
  <2>2. CASE x = 1 /\ k = x
    <3>1. Has(m, i, j, 1) /\ k = Position(m, i, j, 1)
      BY <2>s, <2>t, <2>2 DEF Has, One
    <3>2. QED
      BY <3>1
  <2>3. CASE y = 1 /\ k = x + y
    <3>1. Has(m, i, j, 2) /\ k = Position(m, i, j, 2)
      BY <2>s, <2>t, <2>3 DEF Has, One
    <3>2. QED
      BY <3>1
  <2>4. CASE z = 1 /\ k = x + y + z
    <3>1. Has(m, i, j, 3) /\ k = Position(m, i, j, 3)
      BY <2>s, <2>t, <2>4 DEF Has, One
    <3>2. QED
      BY <3>1
  <2>5. CASE w = 1 /\ k = x + y + z + w
    <3>1. Has(m, i, j, 4) /\ k = Position(m, i, j, 4)
      BY <2>s, <2>t, <2>5 DEF Has, One
    <3>2. QED
      BY <3>1
  <2>6. QED
    BY <2>1, <2>2, <2>3, <2>4, <2>5
<1>3. QED
  BY <1>2, StencilFacts

-----------------------------------------------------------------------------
(* The stripes.                                                             *)

\* the first column of each rank, and at the end the number of columns
Start(m) ==
    [p \in 0 .. m.numprocs |->
        p * (m.Nx \div m.numprocs)
            + (IF p < m.Nx % m.numprocs THEN p ELSE m.Nx % m.numprocs)]
ColumnRank(m, i) == Assign1dRank(m)[i + 1]
Columns(m) == [k \in 1 .. m.numprocs |-> [x \in 1 .. SizeRank(m, k - 1) |-> k - 1]]

LEMMA StartPlaces ==
    ASSUME NEW m, IsMesh(m)
    PROVE  /\ Places(Start(m), Columns(m), m.numprocs) /\ Start(m)[m.numprocs] = m.Nx
           /\ \A k \in 1 .. m.numprocs : /\ Columns(m)[k] \in Seq(Int)
                                         /\ Len(Columns(m)[k]) = SizeRank(m, k - 1)
                                         /\ SizeRank(m, k - 1) \in Nat
<1>1. PICK n, np : n = m.Nx /\ np = m.numprocs
  OBVIOUS
<1>2. n \in Nat /\ np \in Nat \ {0}
  BY <1>1 DEF IsMesh
<1>3. PICK d, e : d = n \div np /\ e = n % np
  OBVIOUS
<1>4. d \in Nat /\ e \in 0 .. np - 1
  <2>1. n \div np \in Nat
    BY <1>2
  <2>2. n % np \in 0 .. np - 1
    BY <1>2
  <2>3. QED
    BY <1>3, <2>1, <2>2
<1>5. n = np * d + e
  BY <1>2, <1>3, <1>4, SMTT(30)
<1>6. PICK off : off = Start(m)
  OBVIOUS
<1>7. off = [p \in 0 .. np |-> p * d + (IF p < e THEN p ELSE e)]
  BY <1>1, <1>3, <1>6 DEF Start
<1>8. ASSUME NEW p \in 0 .. np
      PROVE  p * d \in Nat /\ off[p] \in Nat /\ off[p] = p * d + (IF p < e THEN p ELSE e)
  <2>1. p * d \in Nat
    BY <1>2, <1>4
  <2>2. PICK t : t = p * d
    OBVIOUS
  <2>3. off[p] = t + (IF p < e THEN p ELSE e)
    BY <1>7, <2>2
  <2>4. QED
    BY <1>2, <1>4, <2>1, <2>2, <2>3
<1>9. off \in [0 .. np -> Nat]
  BY <1>7, <1>8
<1>10. off[0] = 0
  <2>1. 0 \in 0 .. np /\ 0 * d = 0
    BY <1>2, <1>4
  <2>2. QED
    BY <1>4, <1>8, <2>1
<1>11. off[np] = n
  <2>1. np \in 0 .. np /\ ~(np < e)
    BY <1>2, <1>4
  <2>2. QED
    BY <1>5, <1>8, <2>1
<1>12. ASSUME NEW k \in 1 .. np
       PROVE  /\ Columns(m)[k] \in Seq(Int) /\ Len(Columns(m)[k]) = SizeRank(m, k - 1)
              /\ SizeRank(m, k - 1) \in Nat /\ off[k] = off[k - 1] + SizeRank(m, k - 1)
  <2>1. PICK p, z : p = k - 1 /\ z = SizeRank(m, k - 1)
    OBVIOUS
  <2>2. p \in 0 .. np /\ k \in 0 .. np /\ k = p + 1 /\ p \in Int
    BY <1>2, <1>12, <2>1
  <2>3. z = d + (IF p < e THEN 1 ELSE 0)
    BY <1>1, <1>3, <2>1 DEF SizeRank
  <2>4. z \in Nat
    BY <1>4, <2>3
  <2>5. k * d = p * d + d
    BY <1>4, <2>2
  <2>6. off[k] = off[p] + z
    <3>1. PICK t : t = p * d
      OBVIOUS
    <3>2. t \in Nat /\ off[p] = t + (IF p < e THEN p ELSE e)
      BY <1>8, <2>2, <3>1
    <3>3. off[k] = (t + d) + (IF k < e THEN k ELSE e)
      <4>1. off[k] = k * d + (IF k < e THEN k ELSE e)
        BY <1>8, <2>2
      <4>2. QED
        BY <2>5, <3>1, <4>1
    <3>4. QED
      BY <1>4, <2>2, <2>3, <3>2, <3>3
  <2>7. Columns(m)[k] = [x \in 1 .. z |-> p]
    BY <1>1, <1>12, <2>1 DEF Columns
  <2>8. Columns(m)[k] \in Seq(Int) /\ Len(Columns(m)[k]) = z
    BY <2>2, <2>4, <2>7
  <2>9. QED
    BY <2>1, <2>4, <2>6, <2>8
<1>13. Places(off, Columns(m), np)
  BY <1>9, <1>10, <1>12 DEF Places
<1>14. QED
  BY <1>1, <1>6, <1>11, <1>12, <1>13

\* a rank has the columns from its first one to that of the next
LEMMA StripesAre ==
    ASSUME NEW m, IsMesh(m), NEW i \in 0 .. m.Nx - 1
    PROVE  /\ ColumnRank(m, i) \in Ranks(m)
           /\ Start(m)[ColumnRank(m, i)] <= i /\ i < Start(m)[ColumnRank(m, i) + 1]
<1>1. PICK n, np : n = m.Nx /\ np = m.numprocs
  OBVIOUS
<1>2. n \in Nat /\ np \in Nat \ {0} /\ i \in 0 .. n - 1
  BY <1>1 DEF IsMesh
<1>3. PICK off, s : off = Start(m) /\ s = Columns(m)
  OBVIOUS
<1>4. /\ Places(off, s, np) /\ off[np] = n
      /\ \A k \in 1 .. np : s[k] \in Seq(Int) /\ Len(s[k]) = SizeRank(m, k - 1)
                            /\ SizeRank(m, k - 1) \in Nat
  BY <1>1, <1>3, StartPlaces
<1>5. PICK z : z = Assign1dRank(m)
  OBVIOUS
<1>6. z = FlattenSeq(s)
  BY <1>3, <1>5 DEF Assign1dRank, Columns
<1>7. Len(s) = np
  BY <1>1, <1>2, <1>3 DEF Columns
<1>8. PutTogether(z, Int, s, off, np)
  <2>1. \A k \in 1 .. np : s[k] \in Seq(Int)
    BY <1>4
  <2>2. PutTogether(FlattenSeq(s), Int, s, off, np)
    BY ONLY <1>2, <1>4, <1>7, <2>1, FlattenAt
  <2>3. QED
    BY <1>6, <2>2
<1>9. PICK x : x = i + 1
  OBVIOUS
<1>10. x \in 1 .. off[np]
  BY <1>2, <1>4, <1>9
<1>11. PICK k \in 1 .. np : \E j \in 1 .. Len(s[k]) : x = off[k - 1] + j
  <2>1. \A k \in 1 .. np : Len(s[k]) \in Nat
    BY <1>4
  <2>2. np \in Nat
    BY <1>2
  <2>3. InPlace(off, s, np, x)
    BY ONLY <1>4, <1>10, <2>1, <2>2, PlaceIn
  <2>4. QED
    BY <2>3 DEF InPlace
<1>12. PICK j \in 1 .. Len(s[k]) : x = off[k - 1] + j
  BY <1>11
<1>13. s[k][j] = k - 1
  <2>1. s[k] = [y \in 1 .. SizeRank(m, k - 1) |-> k - 1]
    BY <1>1, <1>3, <1>11 DEF Columns
  <2>2. j \in 1 .. SizeRank(m, k - 1)
    BY <1>4, <1>12
  <2>3. QED
    BY <2>1, <2>2
<1>14. z[x] = k - 1
  BY <1>8, <1>12, <1>13 DEF PutTogether
<1>15. off[k] = off[k - 1] + Len(s[k]) /\ off[k - 1] \in Nat /\ Len(s[k]) \in Nat
  <2>1. k \in 1 .. np /\ k - 1 \in 0 .. np
    BY <1>2
  <2>2. QED
    BY <1>4, <2>1 DEF Places
<1>16. off[k - 1] <= i /\ i < off[k]
  BY <1>2, <1>9, <1>12, <1>15
<1>17. ColumnRank(m, i) = k - 1
  BY <1>5, <1>9, <1>14 DEF ColumnRank
<1>18. k - 1 \in Ranks(m) /\ (k - 1) + 1 = k
  BY <1>1, <1>2 DEF Ranks
<1>19. QED
  BY <1>3, <1>16, <1>17, <1>18

\* and the ranks do not fall along a row
LEMMA StripesRise ==
    ASSUME NEW m, IsMesh(m), NEW i \in 0 .. m.Nx - 1, NEW l \in 0 .. m.Nx - 1, i <= l
    PROVE  ColumnRank(m, i) <= ColumnRank(m, l)
<1>1. PICK n, np : n = m.Nx /\ np = m.numprocs
  OBVIOUS
<1>2. n \in Nat /\ np \in Nat \ {0} /\ i \in 0 .. n - 1 /\ l \in 0 .. n - 1
  BY <1>1 DEF IsMesh
<1>3. PICK off, s : off = Start(m) /\ s = Columns(m)
  OBVIOUS
<1>4. Places(off, s, np) /\ \A k \in 1 .. np : Len(s[k]) \in Nat
  BY <1>1, <1>3, StartPlaces
<1>5. PICK p, q : p = ColumnRank(m, i) /\ q = ColumnRank(m, l)
  OBVIOUS
<1>6. /\ p \in 0 .. np - 1 /\ off[p] <= i /\ i < off[p + 1]
      /\ q \in 0 .. np - 1 /\ off[q] <= l /\ l < off[q + 1]
  BY <1>1, <1>3, <1>5, StripesAre DEF Ranks
<1>7. SUFFICES ASSUME q < p PROVE FALSE
  BY <1>5, <1>6
<1>8. q + 1 \in 0 .. np /\ p \in (q + 1) .. np /\ p \in 0 .. np
  BY <1>2, <1>6, <1>7
<1>9. off[q + 1] <= off[p]
  BY <1>2, <1>4, <1>8, PlacesRise
<1>10. off[q + 1] \in Nat /\ off[p] \in Nat
  BY <1>4, <1>8 DEF Places
<1>11. QED
  BY <1>2, <1>6, <1>9, <1>10

-----------------------------------------------------------------------------
(* Counting by ranks.                                                       *)

\* the offset of a count of each kind is how many are of the kinds before
Counted(I, n, f, counts) ==
    /\ \A p \in 0 .. n - 1 : counts[p] \in Nat
    /\ \A p \in 0 .. n : Offset(counts, p) = Cardinality({c \in I : f[c] < p})
    /\ Offset(counts, n) = Cardinality(I)

LEMMA Parts ==
    ASSUME NEW I, IsFiniteSet(I), NEW n \in Nat, NEW f, \A c \in I : f[c] \in 0 .. n - 1,
           NEW counts, \A p \in 0 .. n - 1 : counts[p] = Cardinality({c \in I : f[c] = p})
    PROVE  Counted(I, n, f, counts)
<1>1. ASSUME NEW p \in 0 .. n - 1
      PROVE  counts[p] \in Nat
  <2>1. {c \in I : f[c] = p} \in SUBSET I
    OBVIOUS
  <2>2. QED
    BY <2>1, FS_Subset, FS_CardinalityType
<1>2. /\ Offset(counts, 0) = 0
      /\ \A p \in 0 .. n - 1 : Offset(counts, p + 1) = Offset(counts, p) + counts[p]
  BY <1>1, OffsetSteps
<1> DEFINE Before(p) == {c \in I : f[c] < p}
           T == {p \in 0 .. n : Offset(counts, p) = Cardinality(Before(p))}
<1>3. 0 \in T
  <2>1. Before(0) = {}
    OBVIOUS
  <2>2. Cardinality({}) = 0
    BY FS_EmptySet
  <2>3. QED
    BY <1>2, <2>1, <2>2
<1>4. ASSUME NEW p \in 0 .. n - 1, p \in T
      PROVE  p + 1 \in T
  <2>1. PICK A, B, C : A = Before(p) /\ B = {c \in I : f[c] = p} /\ C = Before(p + 1)
    OBVIOUS
  <2>2. C = A \union B /\ A \intersect B = {}
    <3>1. \A c \in I : (f[c] < p + 1 <=> f[c] < p \/ f[c] = p) /\ ~(f[c] < p /\ f[c] = p)
      <4>1. SUFFICES ASSUME NEW c \in I
                     PROVE  (f[c] < p + 1 <=> f[c] < p \/ f[c] = p) /\ ~(f[c] < p /\ f[c] = p)
        OBVIOUS
      <4>2. PICK x : x = f[c]
        OBVIOUS
      <4>3. x \in Int
        BY <4>2
      <4>4. QED
        BY <4>2, <4>3
    <3>2. QED
      BY <2>1, <3>1
  <2>3. A \in SUBSET I /\ B \in SUBSET I
    BY <2>1
  <2>4. /\ IsFiniteSet(A) /\ IsFiniteSet(B)
        /\ Cardinality(A) \in Nat /\ Cardinality(B) \in Nat
    BY <2>3, FS_Subset, FS_CardinalityType
  <2>5. Cardinality(C) = Cardinality(A) + Cardinality(B)
    <3>1. Cardinality(A \union B)
             = Cardinality(A) + Cardinality(B) - Cardinality(A \intersect B)
      BY <2>4, FS_Union
    <3>2. Cardinality(A \intersect B) = 0
      BY <2>2, FS_EmptySet
    <3>3. QED
      BY <2>2, <2>4, <3>1, <3>2
  <2>6. Offset(counts, p + 1) = Cardinality(A) + Cardinality(B)
    BY <1>2, <1>4, <2>1
  <2>7. p + 1 \in 0 .. n
    OBVIOUS
  <2>8. QED
    BY <2>1, <2>5, <2>6, <2>7
<1>5. 0 .. n \subseteq T
  <2> HIDE DEF T
  <2>1. QED
    BY <1>3, <1>4, UpTo
<1>6. Before(n) = I
  <2>1. \A c \in I : f[c] < n
    <3>1. SUFFICES ASSUME NEW c \in I
                   PROVE  f[c] < n
      OBVIOUS
    <3>2. f[c] \in 0 .. n - 1
      OBVIOUS
    <3>3. QED
      BY <3>2
  <2>2. QED
    BY <2>1
<1>7. n \in T
  <2>1. n \in 0 .. n
    OBVIOUS
  <2> HIDE DEF T
  <2>2. QED
    BY <1>5, <2>1
<1>8. QED
  BY <1>1, <1>5, <1>6, <1>7 DEF Counted

-----------------------------------------------------------------------------
(* The numbers of the cells.                                                *)

GlobalsAre ==
    /\ IsMesh(mesh)
    /\ number_of_neighbors = NumberOfNeighbors(mesh)
    /\ cell_neighbors = CellNeighbors(mesh)
    /\ ranks_list = RanksList(mesh)

NS(r) == Cardinality(Own(r))
Sizes == [p \in Procs |-> NS(p)]
Local(c) == Cardinality({d \in 0 .. c - 1 : RankOf(d) = RankOf(c)})
G(c) == Gcnum(Sizes, c)

LEMMA RankFacts ==
    ASSUME GlobalsAre
    PROVE  /\ mesh.numprocs \in Nat \ {0} /\ Procs = 0 .. mesh.numprocs - 1
           /\ IsFiniteSet(Cells(mesh)) /\ Cells(mesh) \subseteq Nat
           /\ \A c \in Cells(mesh) : /\ RankOf(c) \in Procs
                                     /\ RankOf(c) = ColumnRank(mesh, Column(mesh, c))
                                     /\ 0 .. c - 1 \subseteq Cells(mesh)
                                     /\ Neighbors(c) = CellStencil(mesh, c)
<1>1. mesh.numprocs \in Nat \ {0} /\ Procs = 0 .. mesh.numprocs - 1
  BY DEF GlobalsAre, IsMesh, Procs, Ranks
<1>2. PICK n : n = mesh.Nx * mesh.Ny
  OBVIOUS
<1>3. n \in Nat /\ Cells(mesh) = 0 .. n - 1
  BY <1>2, CellSlots DEF GlobalsAre, Cells
<1>4. IsFiniteSet(0 .. n - 1)
  BY <1>3, FS_Interval
<1>5. ASSUME NEW c \in Cells(mesh)
      PROVE  /\ RankOf(c) \in Procs /\ RankOf(c) = ColumnRank(mesh, Column(mesh, c))
             /\ 0 .. c - 1 \subseteq Cells(mesh) /\ Neighbors(c) = CellStencil(mesh, c)
  <2>1. c \in 0 .. n - 1
    BY <1>3
  <2>2. c + 1 \in 1 .. n /\ (c + 1) - 1 = c
    BY <1>3, <2>1
  <2>3. RankOf(c) = RanksList(mesh)[c + 1]
    BY DEF GlobalsAre, RankOf
  <2>4. RanksList(mesh)[c + 1] = Assign1dRank(mesh)[Column(mesh, c) + 1]
    BY <1>2, <2>2 DEF RanksList
  <2>5. RankOf(c) = ColumnRank(mesh, Column(mesh, c))
    BY <2>3, <2>4 DEF ColumnRank
  <2>6. Column(mesh, c) \in 0 .. mesh.Nx - 1
    BY CellFacts DEF GlobalsAre
  <2>7. RankOf(c) \in Procs
    BY <2>5, <2>6, StripesAre DEF GlobalsAre, Procs
  <2>8. 0 .. c - 1 \subseteq Cells(mesh)
    BY <1>3, <2>1
  <2>9. Neighbors(c) = CellStencil(mesh, c)
    BY NeighborsAre DEF GlobalsAre, Neighbors
  <2>10. QED
    BY <2>5, <2>7, <2>8, <2>9
<1>6. QED
  BY <1>1, <1>3, <1>4, <1>5

LEMMA OwnFacts ==
    ASSUME GlobalsAre, NEW p
    PROVE  /\ Own(p) \subseteq Cells(mesh) /\ Own(p) \subseteq Int /\ IsFiniteSet(Own(p))
           /\ NS(p) \in Nat /\ Len(OwnCells(p)) = NS(p) /\ OwnCells(p) \in [1 .. NS(p) -> Own(p)]
           /\ OwnCells(p) \in Seq(Int)
           /\ \A k \in 1 .. NS(p) : OwnCells(p)[k] \in Own(p) /\ Local(OwnCells(p)[k]) = k - 1
           /\ \A c \in Own(p) : /\ Local(c) \in 0 .. NS(p) - 1
                                /\ OwnCells(p)[Local(c) + 1] = c
<1>1. Own(p) \in SUBSET Cells(mesh)
  BY DEF Own
<1>2. IsFiniteSet(Own(p)) /\ Own(p) \subseteq Int
  BY <1>1, RankFacts, FS_Subset
<1>3. ASSUME NEW c \in Own(p)
      PROVE  Local(c) = Cardinality(LowerIn(Own(p), c))
  <2>1. RankOf(c) = p /\ c \in Cells(mesh)
    BY DEF Own
  <2>2. 0 .. c - 1 \subseteq Cells(mesh) /\ c \in Nat /\ Cells(mesh) \subseteq Nat
    BY <2>1, RankFacts
  <2>3. \A d \in Cells(mesh) : d < c <=> d \in 0 .. c - 1
    BY <2>2
  <2>4. {d \in 0 .. c - 1 : RankOf(d) = RankOf(c)} = LowerIn(Own(p), c)
    BY <2>1, <2>2, <2>3 DEF LowerIn, Own
  <2>5. QED
    BY <2>4 DEF Local
<1>4. PICK S, A : S = Own(p) /\ A = OwnCells(p)
  OBVIOUS
<1>5. A = Ascending(S) /\ S \subseteq Int /\ IsFiniteSet(S)
  BY <1>2, <1>4 DEF OwnCells
<1>6. /\ Len(A) = Cardinality(S)
      /\ A \in [1 .. Cardinality(S) -> S]
      /\ \A k \in 1 .. Cardinality(S) : Cardinality(LowerIn(S, A[k])) = k - 1
      /\ \A c \in S : /\ Cardinality(LowerIn(S, c)) + 1 \in 1 .. Cardinality(S)
                      /\ A[Cardinality(LowerIn(S, c)) + 1] = c
  BY <1>5, AscendingFacts
<1>7. /\ Cardinality(S) \in Nat
      /\ \A c \in S : Cardinality(LowerIn(S, c)) \in 0 .. Cardinality(S) - 1
  BY <1>5, LowerFacts
<1>8. \A k \in 1 .. NS(p) : A[k] \in Own(p) /\ Local(A[k]) = k - 1
  BY <1>3, <1>4, <1>6 DEF NS
<1>9. \A c \in Own(p) : Local(c) \in 0 .. NS(p) - 1 /\ A[Local(c) + 1] = c
  BY <1>3, <1>4, <1>6, <1>7 DEF NS
<1>10. A \in [1 .. NS(p) -> Own(p)] /\ Len(A) = NS(p) /\ NS(p) \in Nat
  BY <1>4, <1>6, <1>7 DEF NS
<1>11. A \in Seq(Int)
  <2>1. A \in [1 .. NS(p) -> Int]
    BY <1>2, <1>10
  <2>2. QED
    BY <1>10, <2>1
<1>12. QED
  BY <1>1, <1>2, <1>4, <1>8, <1>9, <1>10, <1>11

\* where the numbers of the cells of each rank begin
Begin == [k \in 0 .. mesh.numprocs |-> Offset(Sizes, k)]
CellLists == [k \in 1 .. mesh.numprocs |-> OwnCells(k - 1)]

LEMMA BeginFacts ==
    ASSUME GlobalsAre
    PROVE  /\ Places(Begin, CellLists, mesh.numprocs)
           /\ \A k \in 1 .. mesh.numprocs : /\ Len(CellLists[k]) = NS(k - 1)
                                            /\ Len(CellLists[k]) \in Nat
           /\ \A p \in Procs : Offset(Sizes, p) \in Nat /\ Sizes[p] = NS(p)
<1>1. PICK n : n = mesh.numprocs
  OBVIOUS
<1>2. n \in Nat /\ Procs = 0 .. n - 1
  BY <1>1, RankFacts
<1>3. PICK counts : counts = Sizes
  OBVIOUS
<1>4. \A p \in 0 .. n - 1 : counts[p] = NS(p) /\ counts[p] \in Nat
  BY <1>2, <1>3, OwnFacts DEF Sizes
<1>5. PICK s : s = CellLists
  OBVIOUS
<1>6. ASSUME NEW k \in 1 .. n
      PROVE  Len(s[k]) = counts[k - 1] /\ Len(s[k]) = NS(k - 1) /\ Len(s[k]) \in Nat
  <2>1. k - 1 \in 0 .. n - 1
    BY <1>2, <1>6
  <2>2. s[k] = OwnCells(k - 1)
    BY <1>1, <1>5, <1>6 DEF CellLists
  <2>3. QED
    BY <1>4, <2>1, <2>2, OwnFacts
<1>7. Places([k \in 0 .. n |-> Offset(counts, k)], s, n)
  <2>1. \A k \in 1 .. n : Len(s[k]) = counts[k - 1]
    BY <1>6
  <2>2. \A p \in 0 .. n - 1 : counts[p] \in Nat
    BY <1>4
  <2>3. QED
    BY ONLY <1>2, <2>1, <2>2, OffsetPlaces
<1>8. \A p \in 0 .. n : Offset(counts, p) \in Nat
  BY <1>2, <1>4, OffsetSteps
<1>9. QED
  BY <1>1, <1>2, <1>3, <1>4, <1>5, <1>6, <1>7, <1>8 DEF Begin

LEMMA NumberFacts ==
    ASSUME GlobalsAre
    PROVE  /\ \A c \in Cells(mesh) : /\ G(c) = Offset(Sizes, RankOf(c)) + Local(c)
                                     /\ G(c) \in Nat /\ Local(c) \in Nat
           /\ \A c, d \in Cells(mesh) : G(c) = G(d) => c = d
           /\ \A c, d \in Cells(mesh) : RankOf(c) < RankOf(d) => G(c) < G(d)
<1>1. PICK n, off, s : n = mesh.numprocs /\ off = Begin /\ s = CellLists
  OBVIOUS
<1>2. /\ n \in Nat /\ Procs = 0 .. n - 1
      /\ Places(off, s, n)
      /\ \A k \in 1 .. n : Len(s[k]) = NS(k - 1) /\ Len(s[k]) \in Nat
  BY <1>1, RankFacts, BeginFacts
<1>3. ASSUME NEW c \in Cells(mesh)
      PROVE  /\ RankOf(c) \in 0 .. n - 1 /\ RankOf(c) + 1 \in 1 .. n
             /\ G(c) = Offset(Sizes, RankOf(c)) + Local(c)
             /\ G(c) = off[RankOf(c)] + Local(c) /\ off[RankOf(c)] \in Nat
             /\ Local(c) \in Nat /\ Local(c) + 1 \in 1 .. Len(s[RankOf(c) + 1])
             /\ OwnCells(RankOf(c))[Local(c) + 1] = c
  <2>1. PICK p : p = RankOf(c)
    OBVIOUS
  <2>2. p \in 0 .. n - 1 /\ p + 1 \in 1 .. n /\ (p + 1) - 1 = p /\ p \in 0 .. n
    <3>1. p \in Procs
      BY <1>3, <2>1, RankFacts
    <3>2. QED
      BY <1>2, <3>1
  <2>3. c \in Own(p)
    BY <2>1 DEF Own
  <2>4. Local(c) \in 0 .. NS(p) - 1 /\ OwnCells(p)[Local(c) + 1] = c
    BY <2>3, OwnFacts
  <2>5. G(c) = Offset(Sizes, p) + Local(c)
    BY <2>1 DEF G, Gcnum, Local
  <2>6. off[p] = Offset(Sizes, p) /\ off[p] \in Nat
    BY <1>1, <1>2, <2>2 DEF Begin, Places
  <2>7. Len(s[p + 1]) = NS(p) /\ NS(p) \in Nat
    BY <1>2, <2>2, OwnFacts
  <2>8. QED
    BY <2>1, <2>2, <2>4, <2>5, <2>6, <2>7
<1>4. ASSUME NEW c \in Cells(mesh), NEW d \in Cells(mesh), G(c) = G(d)
      PROVE  c = d
  <2>1. PICK k, j, l, h : /\ k = RankOf(c) + 1 /\ j = Local(c) + 1
                          /\ l = RankOf(d) + 1 /\ h = Local(d) + 1
    OBVIOUS
  <2>2. k \in 1 .. n /\ j \in 1 .. Len(s[k]) /\ l \in 1 .. n /\ h \in 1 .. Len(s[l])
    BY <1>3, <2>1
  <2>3. k - 1 = RankOf(c) /\ l - 1 = RankOf(d)
    <3>1. RankOf(c) \in Int /\ RankOf(d) \in Int
      BY <1>3
    <3>2. QED
      BY <2>1, <3>1
  <2>4. off[k - 1] + j = off[l - 1] + h
    <3>1. PICK x, y, a, b : /\ x = off[RankOf(c)] /\ y = off[RankOf(d)]
                            /\ a = Local(c) /\ b = Local(d)
      OBVIOUS
    <3>2. x \in Nat /\ a \in Nat /\ G(c) = x + a /\ y \in Nat /\ b \in Nat /\ G(d) = y + b
      BY <1>3, <3>1
    <3>21. x + a = y + b
      BY ONLY <1>4, <3>2, Zenon
    <3>3. x + (a + 1) = y + (b + 1)
      BY ONLY <3>2, <3>21
    <3>4. off[k - 1] = x /\ off[l - 1] = y /\ j = a + 1 /\ h = b + 1
      BY <2>1, <2>3, <3>1
    <3>5. QED
      BY <3>3, <3>4
  <2>5. SamePlace(off, k, j, l, h)
    BY <2>4 DEF SamePlace
  <2>6. \A i \in 1 .. n : Len(s[i]) \in Nat
    BY <1>2
  <2>7. n \in Nat /\ Places(off, s, n)
    BY <1>2
  <2>8. k = l /\ j = h
    BY ONLY <2>2, <2>5, <2>6, <2>7, OnePlace
  <2>9. RankOf(c) = RankOf(d)
    BY <2>3, <2>8
  <2>10. QED
    BY <1>3, <2>1, <2>8, <2>9
<1>5. ASSUME NEW c \in Cells(mesh), NEW d \in Cells(mesh), RankOf(c) < RankOf(d)
      PROVE  G(c) < G(d)
  <2>1. PICK p, q : p = RankOf(c) /\ q = RankOf(d)
    OBVIOUS
  <2>2. p \in 0 .. n - 1 /\ q \in 0 .. n - 1 /\ p < q /\ n \in Nat
    BY <1>2, <1>3, <1>5, <2>1
  <2>3. p + 1 \in 0 .. n /\ q \in (p + 1) .. n /\ p + 1 \in 1 .. n /\ (p + 1) - 1 = p
    BY <2>2
  <2>4. off[p + 1] <= off[q]
    <3>1. \A i \in 1 .. n : Len(s[i]) \in Nat
      BY <1>2
    <3>2. PICK k : k = p + 1
      OBVIOUS
    <3>3. k \in 0 .. n /\ q \in k .. n /\ Places(off, s, n)
      BY <1>2, <2>3, <3>2
    <3>4. off[k] <= off[q]
      BY ONLY <2>2, <3>1, <3>3, PlacesRise
    <3>5. QED
      BY <3>2, <3>4
  <2>5. off[p + 1] = off[p] + Len(s[p + 1])
    BY <1>2, <2>3 DEF Places
  <2>6. off[p] \in Nat /\ off[q] \in Nat /\ Len(s[p + 1]) \in Nat
    BY <1>2, <1>3, <2>1, <2>3
  <2>7. G(c) = off[p] + Local(c) /\ Local(c) + 1 <= Len(s[p + 1]) /\ Local(c) \in Nat
    BY <1>3, <2>1
  <2>8. G(d) = off[q] + Local(d) /\ Local(d) \in Nat
    BY <1>3, <2>1
  <2>9. QED
    BY <2>4, <2>5, <2>6, <2>7, <2>8
<1>6. QED
  BY <1>3, <1>4, <1>5

-----------------------------------------------------------------------------
(* The ghosts of a rank, in the order of its rlist.                         *)

\* the neighbours of a cell are those it touches
LEMMA Touching ==
    ASSUME GlobalsAre, NEW d \in Cells(mesh)
    PROVE  /\ Neighbors(d) \in Seq(Int) /\ ToSet(Neighbors(d)) \subseteq Cells(mesh)
           /\ \A c \in Cells(mesh) : c \in ToSet(Neighbors(d)) <=> Adjacent(c, d)
<1>1. PICK i, j, m, s : i = Column(m, d) /\ j = Row(m, d) /\ m = mesh /\ s = Neighbors(d)
  OBVIOUS
<1>2. /\ d \in Cells(m) /\ IsMesh(m)
      /\ i \in 0 .. m.Nx - 1 /\ j \in 0 .. m.Ny - 1 /\ s = Stencil(m, i, j)
      /\ m.Nx \in Nat /\ m.Ny \in Nat
  BY <1>1, RankFacts, CellFacts DEF CellStencil, GlobalsAre, IsMesh
<1>3. s \in Seq(Int)
  BY <1>2, StencilFacts
<1>4. ToSet(s) = {s[k] : k \in 1 .. Len(s)}
  <2>1. DOMAIN s = 1 .. Len(s)
    BY <1>3
  <2>2. QED
    BY <2>1 DEF ToSet
<1>5. ASSUME NEW k \in 1 .. Len(s)
      PROVE  s[k] \in Cells(m) /\ Adjacent(s[k], d)
  <2>1. k \in 1 .. Len(Stencil(m, i, j))
    BY <1>2, <1>5
  <2>2. PICK q \in 1 .. 4 : Has(m, i, j, q) /\ Stencil(m, i, j)[k] = Beside(m, i, j, q)
    BY <1>2, <2>1, EachPlace
  <2>3. PICK c : c = Beside(m, i, j, q)
    OBVIOUS
  <2>4. /\ c \in Cells(m)
        /\ Column(m, c) = (CASE q = 1 -> i - 1 [] q = 2 -> i + 1 [] q = 3 -> i [] q = 4 -> i)
        /\ Row(m, c) = (CASE q = 1 -> j [] q = 2 -> j [] q = 3 -> j - 1 [] q = 4 -> j + 1)
    BY <1>2, <2>2, <2>3, BesideFacts
  <2>5. q = 1 \/ q = 2 \/ q = 3 \/ q = 4
    OBVIOUS
  <2>6. PICK x, y : x = Column(m, c) - i /\ y = Row(m, c) - j
    OBVIOUS
  <2>7. /\ q = 1 => x = -1 /\ y = 0
        /\ q = 2 => x = 1 /\ y = 0
        /\ q = 3 => x = 0 /\ y = -1
        /\ q = 4 => x = 0 /\ y = 1
    BY <1>2, <2>4, <2>6
  <2>8. AbsValue(x) + AbsValue(y) = 1
    BY <2>5, <2>7 DEF AbsValue
  <2>9. Adjacent(c, d)
    BY <1>1, <2>6, <2>8 DEF Adjacent
  <2>10. QED
    BY <1>2, <2>2, <2>3, <2>4, <2>9
<1>6. ASSUME NEW c \in Cells(m), Adjacent(c, d)
      PROVE  \E k \in 1 .. Len(s) : s[k] = c
  <2>1. PICK a, b : a = Column(m, c) /\ b = Row(m, c)
    OBVIOUS
  <2>2. a \in 0 .. m.Nx - 1 /\ b \in 0 .. m.Ny - 1 /\ c = CellAt(m, a, b)
    BY <1>2, <2>1, CellFacts
  <2>3. PICK x, y : x = a - i /\ y = b - j
    OBVIOUS
  <2>31. AbsValue(Column(mesh, c) - Column(mesh, d)) + AbsValue(Row(mesh, c) - Row(mesh, d)) = 1
    BY ONLY <1>6 DEF Adjacent
  <2>32. /\ x = Column(mesh, c) - Column(mesh, d)
         /\ y = Row(mesh, c) - Row(mesh, d)
    BY ONLY <1>1, <2>1, <2>3, Zenon
  <2>33. x \in Int /\ y \in Int
    BY <1>2, <2>2, <2>3
  <2>4. AbsValue(x) + AbsValue(y) = 1 /\ x \in Int /\ y \in Int
    BY ONLY <2>31, <2>32, <2>33, Zenon
  <2>5. \/ x = -1 /\ y = 0
        \/ x = 1 /\ y = 0
        \/ x = 0 /\ y = -1
        \/ x = 0 /\ y = 1
    BY <2>4 DEF AbsValue
  <2>6. \E q \in 1 .. 4 : Has(m, i, j, q) /\ c = Beside(m, i, j, q)
    <3>1. CASE x = -1 /\ y = 0
      <4>1. a = i - 1 /\ b = j
        BY <1>2, <2>2, <2>3, <3>1
      <4>2. Has(m, i, j, 1) /\ c = Beside(m, i, j, 1)
        BY <1>2, <2>2, <4>1 DEF Has, Beside
      <4>3. QED
        BY <4>2
    <3>2. CASE x = 1 /\ y = 0
      <4>1. a = i + 1 /\ b = j
        BY <1>2, <2>2, <2>3, <3>2
      <4>2. Has(m, i, j, 2) /\ c = Beside(m, i, j, 2)
        BY <1>2, <2>2, <4>1 DEF Has, Beside
      <4>3. QED
        BY <4>2
    <3>3. CASE x = 0 /\ y = -1
      <4>1. a = i /\ b = j - 1
        BY <1>2, <2>2, <2>3, <3>3
      <4>2. Has(m, i, j, 3) /\ c = Beside(m, i, j, 3)
        BY <1>2, <2>2, <4>1 DEF Has, Beside
      <4>3. QED
        BY <4>2
    <3>4. CASE x = 0 /\ y = 1
      <4>1. a = i /\ b = j + 1
        BY <1>2, <2>2, <2>3, <3>4
      <4>2. Has(m, i, j, 4) /\ c = Beside(m, i, j, 4)
        BY <1>2, <2>2, <4>1 DEF Has, Beside
      <4>3. QED
        BY <4>2
    <3>5. QED
      BY <2>5, <3>1, <3>2, <3>3, <3>4
  <2>7. PICK q \in 1 .. 4 : Has(m, i, j, q) /\ c = Beside(m, i, j, q)
    BY <2>6
  <2>8. Position(m, i, j, q) \in 1 .. Len(Stencil(m, i, j))
    BY <1>2, <2>7, BesideFacts
  <2>9. Stencil(m, i, j)[Position(m, i, j, q)] = Beside(m, i, j, q)
    BY <1>2, <2>7, StencilFacts
  <2>10. QED
    BY <1>2, <2>7, <2>8, <2>9
<1>7. QED
  BY <1>1, <1>3, <1>4, <1>5, <1>6

NG(r) == Cardinality(Involved(r))
RC(r) == [p \in Procs |-> Cardinality({c \in Involved(r) : RankOf(c) = p})]
RList(r) == GhostList(r, Sizes)
GhostAt(r, k) == CHOOSE c \in Involved(r) : G(c) = RList(r)[k]

\* a rank needs the cells of the others that its own touch
LEMMA InvolvedIs ==
    ASSUME GlobalsAre, NEW r
    PROVE  /\ IsFiniteSet(Involved(r)) /\ NG(r) \in Nat
           /\ Involved(r) = {c \in Cells(mesh) : RankOf(c) # r
                                /\ \E d \in Cells(mesh) : RankOf(d) = r /\ Adjacent(c, d)}
<1>1. Involved(r) = {c \in Cells(mesh) : RankOf(c) # r
                                /\ \E d \in Cells(mesh) : RankOf(d) = r /\ Adjacent(c, d)}
  BY Touching DEF Involved, Own
<1>2. Involved(r) \in SUBSET Cells(mesh)
  BY <1>1
<1>3. QED
  BY <1>1, <1>2, RankFacts, FS_Subset, FS_CardinalityType DEF NG

\* and asks each owner for so many
LEMMA CountFacts ==
    ASSUME GlobalsAre, NEW r
    PROVE  /\ \A p \in Procs : RC(r)[p] \in Nat
           /\ \A p \in 0 .. mesh.numprocs :
                 /\ Offset(RC(r), p) \in Nat
                 /\ Offset(RC(r), p) = Cardinality({c \in Involved(r) : RankOf(c) < p})
           /\ \A p \in Procs : Offset(RC(r), p + 1) = Offset(RC(r), p) + RC(r)[p]
           /\ Offset(RC(r), mesh.numprocs) = NG(r) /\ SumFunction(RC(r)) = NG(r)
<1>1. PICK I, n, f, counts : /\ I = Involved(r) /\ n = mesh.numprocs
                             /\ f = [c \in I |-> RankOf(c)] /\ counts = RC(r)
  OBVIOUS
<1>2. IsFiniteSet(I) /\ n \in Nat /\ Procs = 0 .. n - 1 /\ I \subseteq Cells(mesh)
  BY <1>1, RankFacts, InvolvedIs
<1>3. \A c \in I : f[c] \in 0 .. n - 1 /\ f[c] = RankOf(c)
  BY <1>1, <1>2, RankFacts
<1>4. \A p \in 0 .. n - 1 : counts[p] = Cardinality({c \in I : f[c] = p})
  <2>1. SUFFICES ASSUME NEW p \in 0 .. n - 1
                 PROVE  counts[p] = Cardinality({c \in I : f[c] = p})
    OBVIOUS
  <2>2. {c \in I : f[c] = p} = {c \in I : RankOf(c) = p}
    BY <1>3
  <2>3. QED
    BY <1>1, <1>2, <2>2 DEF RC
<1>5. /\ \A p \in 0 .. n - 1 : counts[p] \in Nat
      /\ \A p \in 0 .. n : Offset(counts, p) = Cardinality({c \in I : f[c] < p})
      /\ Offset(counts, n) = Cardinality(I)
  <2>1. \A c \in I : f[c] \in 0 .. n - 1
    BY <1>3
  <2>2. Counted(I, n, f, counts)
    BY ONLY <1>2, <1>4, <2>1, Parts
  <2>3. QED
    BY <2>2 DEF Counted
<1>6. ASSUME NEW p \in 0 .. n
      PROVE  Offset(counts, p) = Cardinality({c \in I : RankOf(c) < p})
  <2>1. {c \in I : f[c] < p} = {c \in I : RankOf(c) < p}
    BY <1>3
  <2>2. QED
    BY <1>5, <2>1
<1>7. /\ \A p \in 0 .. n : Offset(counts, p) \in Nat
      /\ \A p \in 0 .. n - 1 : Offset(counts, p + 1) = Offset(counts, p) + counts[p]
  BY <1>2, <1>5, OffsetSteps
<1>8. SumFunction(counts) = Offset(counts, n)
  <2>1. DOMAIN counts = 0 .. n - 1
    BY <1>1, <1>2 DEF RC
  <2>2. QED
    BY <2>1 DEF SumFunction, Offset
<1>9. QED
  BY <1>1, <1>2, <1>5, <1>6, <1>7, <1>8 DEF NG

LEMMA RListFacts ==
    ASSUME GlobalsAre, NEW r
    PROVE  /\ Len(RList(r)) = NG(r) /\ RList(r) \in [1 .. NG(r) -> Nat]
           /\ \A k \in 1 .. NG(r) : /\ GhostAt(r, k) \in Involved(r)
                                    /\ G(GhostAt(r, k)) = RList(r)[k]
                                    /\ k = Cardinality({d \in Involved(r) :
                                                          G(d) < G(GhostAt(r, k))}) + 1
           /\ \A c \in Involved(r) : \E k \in 1 .. NG(r) : GhostAt(r, k) = c
<1>1. PICK I, f, W, A : /\ I = Involved(r) /\ f = [c \in I |-> G(c)]
                        /\ W = {G(c) : c \in I} /\ A = RList(r)
  OBVIOUS
<1>2. IsFiniteSet(I) /\ I \subseteq Cells(mesh) /\ Cardinality(I) = NG(r)
  BY <1>1, InvolvedIs DEF NG
<1>3. \A c \in I : G(c) \in Nat /\ \A d \in I : G(c) = G(d) => c = d
  BY <1>2, NumberFacts
<1>4. \A J \in SUBSET I : /\ IsFiniteSet({G(c) : c \in J})
                          /\ Cardinality({G(c) : c \in J}) = Cardinality(J)
  <2>1. SUFFICES ASSUME NEW J \in SUBSET I
                 PROVE  /\ IsFiniteSet({G(c) : c \in J})
                        /\ Cardinality({G(c) : c \in J}) = Cardinality(J)
    OBVIOUS
  <2>2. PICK V, g : V = {G(c) : c \in J} /\ g = [c \in J |-> G(c)]
    OBVIOUS
  <2>3. IsFiniteSet(J)
    BY <1>2, FS_Subset
  <2>4. g \in Surjection(J, V) /\ g \in Injection(J, V)
    <3>1. g \in [J -> V]
      BY <2>2
    <3>2. \A a, b \in J : g[a] = g[b] => a = b
      BY <1>3, <2>1, <2>2
    <3>3. \A v \in V : \E a \in J : g[a] = v
      BY <2>2
    <3>4. QED
      BY <3>1, <3>2, <3>3 DEF Surjection, Injection, IsInjective
  <2>5. IsFiniteSet(V) /\ Cardinality(V) = Cardinality(J)
    BY <2>3, <2>4, FS_Surjection
  <2>6. QED
    BY <2>2, <2>5
<1>5. IsFiniteSet(W) /\ Cardinality(W) = NG(r) /\ W \subseteq Int /\ W \subseteq Nat
  BY <1>1, <1>2, <1>3, <1>4
<1>6. A = Ascending(W)
  BY <1>1 DEF RList, GhostList, G
<1>7. /\ Len(A) = Cardinality(W)
      /\ A \in [1 .. Cardinality(W) -> W]
      /\ \A k \in 1 .. Cardinality(W) : Cardinality(LowerIn(W, A[k])) = k - 1
      /\ \A c \in W : /\ Cardinality(LowerIn(W, c)) + 1 \in 1 .. Cardinality(W)
                      /\ A[Cardinality(LowerIn(W, c)) + 1] = c
  BY <1>5, <1>6, AscendingFacts
<1>8. ASSUME NEW k \in 1 .. NG(r)
      PROVE  /\ GhostAt(r, k) \in I /\ G(GhostAt(r, k)) = A[k]
             /\ k = Cardinality({d \in I : G(d) < G(GhostAt(r, k))}) + 1
  <2>1. A[k] \in W /\ Cardinality(LowerIn(W, A[k])) = k - 1
    BY <1>5, <1>7
  <2>2. \E c \in I : G(c) = A[k]
    BY <1>1, <2>1
  <2>3. GhostAt(r, k) \in I /\ G(GhostAt(r, k)) = A[k]
    BY <1>1, <2>2 DEF GhostAt
  <2>4. PICK J : J = {d \in I : G(d) < A[k]}
    OBVIOUS
  <2>5. LowerIn(W, A[k]) = {G(c) : c \in J}
    BY <1>1, <2>4 DEF LowerIn
  <2>6. Cardinality(J) = k - 1
    BY <1>4, <2>1, <2>4, <2>5
  <2>7. QED
    BY <2>3, <2>4, <2>6
<1>9. ASSUME NEW c \in I
      PROVE  \E k \in 1 .. NG(r) : GhostAt(r, k) = c
  <2>1. PICK v : v = G(c)
    OBVIOUS
  <2>2. v \in W
    BY <1>1, <2>1
  <2>3. PICK k \in 1 .. NG(r) : A[k] = v
    BY <1>5, <1>7, <2>2
  <2>4. GhostAt(r, k) \in I /\ G(GhostAt(r, k)) = G(c)
    BY <1>8, <2>1, <2>3
  <2>5. GhostAt(r, k) = c
    BY <1>3, <2>4
  <2>6. QED
    BY <2>5
<1>10. A \in [1 .. NG(r) -> Nat]
  BY <1>5, <1>7
<1>11. QED
  BY <1>1, <1>5, <1>7, <1>8, <1>9, <1>10

\* the ghosts of one owner are together, in the segment its count says
LEMMA GhostFacts ==
    ASSUME GlobalsAre, NEW r
    PROVE  /\ \A p \in Procs : \A j \in 1 .. RC(r)[p] :
                 /\ Offset(RC(r), p) + j \in 1 .. NG(r)
                 /\ RankOf(GhostAt(r, Offset(RC(r), p) + j)) = p
           /\ \A k \in 1 .. NG(r) : LET p == RankOf(GhostAt(r, k)) IN
                 /\ p \in Procs /\ k - Offset(RC(r), p) \in 1 .. RC(r)[p]
<1>1. PICK I, n, R : I = Involved(r) /\ n = mesh.numprocs /\ R = RC(r)
  OBVIOUS
<1>2. /\ IsFiniteSet(I) /\ n \in Nat /\ Procs = 0 .. n - 1 /\ I \subseteq Cells(mesh)
  BY <1>1, RankFacts, InvolvedIs
<1>3. \A c \in I : RankOf(c) \in 0 .. n - 1 /\ G(c) \in Nat
  BY <1>2, RankFacts, NumberFacts
<1>4. \A p \in 0 .. n : Offset(R, p) = Cardinality({c \in I : RankOf(c) < p})
                       /\ Offset(R, p) \in Nat
  BY <1>1, CountFacts
<1>5. ASSUME NEW k \in 1 .. NG(r), NEW p, p = RankOf(GhostAt(r, k))
      PROVE  p \in 0 .. n - 1 /\ Offset(R, p) < k /\ k <= Offset(R, p + 1)
  <2>1. PICK g, J : g = GhostAt(r, k) /\ J = {d \in I : G(d) < G(g)}
    OBVIOUS
  <2>2. g \in I /\ k = Cardinality(J) + 1
    BY <1>1, <2>1, RListFacts
  <2>3. p \in 0 .. n - 1 /\ p = RankOf(g)
    BY <1>3, <1>5, <2>1, <2>2
  <2>4. p + 1 \in 0 .. n /\ p \in 0 .. n
    BY <1>2, <2>3
  <2>5. PICK K, M : K = {c \in I : RankOf(c) < p} /\ M = {c \in I : RankOf(c) < p + 1}
    OBVIOUS
  <2>6. J \in SUBSET I /\ K \in SUBSET I /\ M \in SUBSET I
    BY <2>1, <2>5
  <2>7. /\ IsFiniteSet(J) /\ Cardinality(J) \in Nat /\ IsFiniteSet(K) /\ Cardinality(K) \in Nat
        /\ IsFiniteSet(M) /\ Cardinality(M) \in Nat
    BY <1>2, <2>6, FS_Subset, FS_CardinalityType
  <2>8. K \subseteq J
    BY <1>2, <2>1, <2>2, <2>3, <2>5, NumberFacts
  <2>9. J \union {g} \subseteq M /\ g \notin J
    <3>1. g \notin J
      <4>1. G(g) \in Nat
        BY <1>3, <2>2
      <4>2. ~(G(g) < G(g))
        BY <4>1
      <4>3. QED
        BY <2>1, <4>2
    <3>2. \A d \in I : RankOf(d) < p + 1 \/ p < RankOf(d)
      <4>1. SUFFICES ASSUME NEW d \in I
                     PROVE  RankOf(d) < p + 1 \/ p < RankOf(d)
        OBVIOUS
      <4>2. RankOf(d) \in Int /\ p \in Int
        BY <1>3, <2>3
      <4>3. QED
        BY <4>2
    <3>3. \A d \in I : p < RankOf(d) => ~(G(d) < G(g))
      <4>1. SUFFICES ASSUME NEW d \in I, p < RankOf(d)
                     PROVE  ~(G(d) < G(g))
        OBVIOUS
      <4>2. G(g) < G(d)
        BY <1>2, <2>2, <2>3, <4>1, NumberFacts
      <4>3. G(g) \in Nat /\ G(d) \in Nat
        BY <1>3, <2>2
      <4>4. QED
        BY <4>2, <4>3
    <3>4. g \in M
      <4>1. p < p + 1
        BY <2>3
      <4>2. QED
        BY <2>2, <2>3, <2>5, <4>1
    <3>5. QED
      BY <2>1, <2>5, <3>1, <3>2, <3>3, <3>4
  <2>10. Cardinality(J \union {g}) = Cardinality(J) + 1
    BY <2>7, <2>9, FS_AddElement
  <2>11. Cardinality(K) <= Cardinality(J) /\ Cardinality(J \union {g}) <= Cardinality(M)
    BY <2>7, <2>8, <2>9, FS_Subset
  <2>12. Offset(R, p) = Cardinality(K) /\ Offset(R, p + 1) = Cardinality(M)
    BY <1>4, <2>4, <2>5
  <2>13. QED
    BY <2>2, <2>3, <2>7, <2>10, <2>11, <2>12
<1>6. \A p \in 0 .. n - 1 : R[p] \in Nat /\ Offset(R, p + 1) = Offset(R, p) + R[p]
  BY <1>1, <1>2, CountFacts
<1>8. ASSUME NEW p \in 0 .. n - 1, NEW q \in 0 .. n, p < q
      PROVE  Offset(R, p + 1) <= Offset(R, q)
  <2>1. PICK A, B : A = {c \in I : RankOf(c) < p + 1} /\ B = {c \in I : RankOf(c) < q}
    OBVIOUS
  <2>2. A \subseteq B
    <3>1. \A c \in I : RankOf(c) < p + 1 => RankOf(c) < q
      <4>1. SUFFICES ASSUME NEW c \in I
                     PROVE  RankOf(c) < p + 1 => RankOf(c) < q
        OBVIOUS
      <4>2. RankOf(c) \in Int /\ p \in Int /\ q \in Int
        BY <1>3
      <4>3. QED
        BY <1>8, <4>2
    <3>2. QED
      BY <2>1, <3>1
  <2>3. IsFiniteSet(B)
    BY <1>2, <2>1, FS_Subset
  <2>4. Cardinality(A) <= Cardinality(B)
    BY <2>2, <2>3, FS_Subset
  <2>5. p + 1 \in 0 .. n
    BY <1>2
  <2>6. QED
    BY <1>4, <2>1, <2>4, <2>5
<1>9. ASSUME NEW p \in 0 .. n - 1, NEW j \in 1 .. R[p]
      PROVE  Offset(R, p) + j \in 1 .. NG(r) /\ RankOf(GhostAt(r, Offset(R, p) + j)) = p
  <2>1. PICK k, o : k = o + j /\ o = Offset(R, p)
    OBVIOUS
  <2>2. o \in Nat /\ R[p] \in Nat /\ Offset(R, p + 1) = o + R[p] /\ p + 1 \in 0 .. n
        /\ n \in 0 .. n
    <3>1. p \in 0 .. n - 1 /\ p \in 0 .. n
      BY <1>2, <1>9
    <3>2. p + 1 \in 0 .. n /\ n \in 0 .. n
      BY <1>2, <3>1
    <3>3. o \in Nat
      BY <1>4, <2>1, <3>1
    <3>4. R[p] \in Nat /\ Offset(R, p + 1) = o + R[p]
      BY <1>6, <2>1, <3>1
    <3>5. QED
      BY <3>2, <3>3, <3>4
  <2>3. Offset(R, p + 1) <= NG(r) /\ NG(r) \in Nat
    <3>1. p < n /\ Offset(R, n) = NG(r)
      BY <1>1, <1>2, <1>9, CountFacts
    <3>2. QED
      BY <1>4, <1>8, <2>2, <3>1
  <2>4. k \in 1 .. NG(r)
    BY <2>1, <2>2, <2>3
  <2>5. PICK q : q = RankOf(GhostAt(r, k))
    OBVIOUS
  <2>6. q \in 0 .. n - 1 /\ Offset(R, q) < k /\ k <= Offset(R, q + 1)
    BY <1>5, <2>4, <2>5
  <2>7. Offset(R, q) \in Nat /\ Offset(R, q + 1) \in Nat
    <3>1. q \in 0 .. n /\ q + 1 \in 0 .. n
      BY <1>2, <2>6
    <3>2. QED
      BY <1>4, <3>1
  <2>8. ~(p < q)
    BY <1>8, <2>1, <2>2, <2>6, <2>7
  <2>9. ~(q < p)
    BY <1>8, <2>1, <2>2, <2>6, <2>7
  <2>10. q = p
    BY <2>6, <2>8, <2>9
  <2>11. QED
    BY <2>1, <2>4, <2>5, <2>10
<1>10. ASSUME NEW k \in 1 .. NG(r), NEW p, p = RankOf(GhostAt(r, k))
       PROVE  p \in Procs /\ k - Offset(R, p) \in 1 .. R[p]
  <2>1. p \in 0 .. n - 1 /\ Offset(R, p) < k /\ k <= Offset(R, p + 1)
    BY <1>5, <1>10
  <2>2. p \in 0 .. n
    BY <1>2, <2>1
  <2>3. Offset(R, p) \in Nat /\ R[p] \in Nat /\ Offset(R, p + 1) = Offset(R, p) + R[p]
    BY <1>4, <1>6, <2>1, <2>2
  <2>4. QED
    BY <1>2, <2>1, <2>3
<1>11. QED
  BY <1>1, <1>2, <1>9, <1>10

-----------------------------------------------------------------------------
(* What two ranks ask of each other.                                        *)

\* cells of two ranks touch along a row, the lower rank on the left
LEMMA Across ==
    ASSUME GlobalsAre, NEW c \in Cells(mesh), NEW d \in Cells(mesh), Adjacent(c, d)
    PROVE  /\ Adjacent(d, c)
           /\ RankOf(d) < RankOf(c) => d = c - 1
           /\ RankOf(c) < RankOf(d) => d = c + 1
<1>1. PICK a, b, i, j : /\ a = Column(mesh, c) /\ b = Row(mesh, c)
                        /\ i = Column(mesh, d) /\ j = Row(mesh, d)
  OBVIOUS
<1>2. PICK n : n = mesh.Nx
  OBVIOUS
<1>3. IsMesh(mesh) /\ n \in Nat
  BY <1>2 DEF GlobalsAre, IsMesh
<1>4. /\ a \in 0 .. mesh.Nx - 1 /\ b \in 0 .. mesh.Ny - 1 /\ c = CellAt(mesh, a, b)
      /\ i \in 0 .. mesh.Nx - 1 /\ j \in 0 .. mesh.Ny - 1 /\ d = CellAt(mesh, i, j)
  BY <1>1, <1>3, CellFacts
<1>5. a \in Int /\ b \in Int /\ i \in Int /\ j \in Int
  BY <1>4
<1>6. AbsValue(a - i) + AbsValue(b - j) = 1
  BY <1>1 DEF Adjacent
<1>7. AbsValue(i - a) + AbsValue(j - b) = 1
  BY <1>5, <1>6 DEF AbsValue
<1>8. Adjacent(d, c)
  BY <1>1, <1>7 DEF Adjacent
<1>9. RankOf(c) = ColumnRank(mesh, a) /\ RankOf(d) = ColumnRank(mesh, i)
  BY <1>1, RankFacts
<1>10. PICK p, q : p = RankOf(c) /\ q = RankOf(d)
  OBVIOUS
<1>11. p \in Int /\ q \in Int
  BY <1>10, RankFacts
<1>12. a <= i => p <= q
  BY <1>3, <1>4, <1>9, <1>10, StripesRise
<1>13. i <= a => q <= p
  BY <1>3, <1>4, <1>9, <1>10, StripesRise
<1>14. c = b * n + a /\ d = j * n + i
  BY <1>2, <1>4 DEF CellAt
<1>15. ASSUME q < p
       PROVE  d = c - 1
  <2>1. i < a
    BY <1>5, <1>11, <1>12, <1>15
  <2>2. i = a - 1 /\ j = b
    BY <1>5, <1>6, <2>1 DEF AbsValue
  <2>3. PICK t : t = b * n
    OBVIOUS
  <2>4. t \in Int
    BY <1>3, <1>5, <2>3
  <2>5. QED
    BY <1>5, <1>14, <2>2, <2>3, <2>4
<1>16. ASSUME p < q
       PROVE  d = c + 1
  <2>1. a < i
    BY <1>5, <1>11, <1>13, <1>16
  <2>2. i = a + 1 /\ j = b
    BY <1>5, <1>6, <2>1 DEF AbsValue
  <2>3. PICK t : t = b * n
    OBVIOUS
  <2>4. t \in Int
    BY <1>3, <1>5, <2>3
  <2>5. QED
    BY <1>5, <1>14, <2>2, <2>3, <2>4
<1>17. QED
  BY <1>8, <1>10, <1>15, <1>16

\* two ranks need as many cells of each other
LEMMA CountsMeet ==
    ASSUME GlobalsAre, NEW r \in Procs, NEW p \in Procs
    PROVE  RC(r)[p] = RC(p)[r]
<1>1. ASSUME NEW x \in Procs, NEW y \in Procs, x # y
      PROVE  RC(x)[y] <= RC(y)[x]
  <2>1. PICK A, B : /\ A = {c \in Involved(x) : RankOf(c) = y}
                    /\ B = {c \in Involved(y) : RankOf(c) = x}
    OBVIOUS
  <2>2. /\ A = {c \in Cells(mesh) : RankOf(c) = y
                   /\ \E d \in Cells(mesh) : RankOf(d) = x /\ Adjacent(c, d)}
        /\ B = {c \in Cells(mesh) : RankOf(c) = x
                   /\ \E d \in Cells(mesh) : RankOf(d) = y /\ Adjacent(c, d)}
    BY <1>1, <2>1, InvolvedIs
  <2>3. x \in Int /\ y \in Int
    BY RankFacts
  <2>4. PICK s \in Int : s = IF x < y THEN -1 ELSE 1
    OBVIOUS
  <2>5. \A c \in A : c + s \in B /\ c \in Int
    <3>1. SUFFICES ASSUME NEW c \in A
                   PROVE  c + s \in B /\ c \in Int
      OBVIOUS
    <3>2. PICK d \in Cells(mesh) : RankOf(d) = x /\ Adjacent(c, d)
      BY <2>2
    <3>3. c \in Cells(mesh) /\ RankOf(c) = y /\ c \in Int
      BY <2>2, RankFacts
    <3>4. /\ Adjacent(d, c) /\ (x < y => d = c - 1) /\ (y < x => d = c + 1)
      BY <3>2, <3>3, Across
    <3>5. d = c + s
      BY <1>1, <2>3, <2>4, <3>3, <3>4
    <3>6. d \in B
      BY <2>2, <3>2, <3>3, <3>4
    <3>7. QED
      BY <3>3, <3>5, <3>6
  <2>6. PICK f : f = [c \in A |-> c + s]
    OBVIOUS
  <2>7. f \in Injection(A, B)
    <3>1. f \in [A -> B]
      BY <2>5, <2>6
    <3>2. \A a, b \in A : f[a] = f[b] => a = b
      BY <2>4, <2>5, <2>6
    <3>3. QED
      BY <3>1, <3>2 DEF Injection, IsInjective
  <2>8. IsFiniteSet(B)
    <3>1. B \in SUBSET Involved(y)
      BY <2>1
    <3>2. QED
      BY <3>1, InvolvedIs, FS_Subset
  <2>9. Cardinality(A) <= Cardinality(B)
    BY <2>7, <2>8, FS_Injection
  <2>10. QED
    BY <2>1, <2>9 DEF RC
<1>2. RC(r)[p] \in Nat /\ RC(p)[r] \in Nat
  BY CountFacts
<1>3. CASE r = p
  BY <1>3
<1>4. CASE r # p
  BY <1>1, <1>2, <1>4
<1>5. QED
  BY <1>3, <1>4

\* so a rank is asked for as many as it asks for
LEMMA AskedFor ==
    ASSUME GlobalsAre, NEW r \in Procs
    PROVE  [p \in Procs |-> RC(p)[r]] = RC(r)
BY CountsMeet DEF RC

-----------------------------------------------------------------------------
(* What an Alltoallv brings.                                                *)

\* what a rank asks of another
LEMMA SegmentFacts ==
    ASSUME GlobalsAre, NEW r \in Procs, NEW p \in Procs
    PROVE  /\ Segment(RList(r), RC(r), p) \in Seq(Int)
           /\ Len(Segment(RList(r), RC(r), p)) = RC(r)[p]
           /\ \A j \in 1 .. RC(r)[p] :
                 Segment(RList(r), RC(r), p)[j] = G(GhostAt(r, Offset(RC(r), p) + j))
<1>1. PICK o, k, z : o = Offset(RC(r), p) /\ k = RC(r)[p] /\ z = RList(r)
  OBVIOUS
<1>2. o \in Nat /\ k \in Nat
  <2>1. p \in 0 .. mesh.numprocs
    BY RankFacts
  <2>2. QED
    BY <1>1, <2>1, CountFacts
<1>3. \A j \in 1 .. k : /\ o + j \in 1 .. NG(r) /\ z[o + j] \in Int
                        /\ z[o + j] = G(GhostAt(r, o + j))
  <2>1. SUFFICES ASSUME NEW j \in 1 .. k
                 PROVE  /\ o + j \in 1 .. NG(r) /\ z[o + j] \in Int
                        /\ z[o + j] = G(GhostAt(r, o + j))
    OBVIOUS
  <2>2. PICK i : i = o + j
    OBVIOUS
  <2>3. i \in 1 .. NG(r)
    BY <1>1, <2>1, <2>2, GhostFacts
  <2>4. G(GhostAt(r, i)) = z[i] /\ z[i] \in Int
    <3>1. RList(r) \in [1 .. NG(r) -> Nat] /\ G(GhostAt(r, i)) = RList(r)[i]
      BY <2>3, RListFacts
    <3>2. RList(r)[i] \in Nat
      BY <2>3, <3>1
    <3>3. QED
      BY <1>1, <3>1, <3>2
  <2>5. QED
    BY <2>2, <2>3, <2>4
<1>4. PICK a, e : a = o + 1 /\ e = o + k
  OBVIOUS
<1>5. a \in Int /\ e \in Int /\ \A i \in a .. e : z[i] \in Int
  <2>1. \A i \in a .. e : i - o \in 1 .. k /\ o + (i - o) = i
    BY <1>2, <1>4
  <2>2. \A i \in a .. e : z[o + (i - o)] \in Int
    BY <1>3, <2>1
  <2>3. QED
    BY <1>2, <1>4, <2>1, <2>2
<1>6. /\ SubSeq(z, a, e) \in Seq(Int)
      /\ Len(SubSeq(z, a, e)) = IF a <= e THEN e - a + 1 ELSE 0
      /\ \A i \in 1 .. e - a + 1 : SubSeq(z, a, e)[i] = z[a + i - 1]
  BY ONLY <1>5, SubSeqProperties
<1>7. e - a + 1 = k /\ (IF a <= e THEN e - a + 1 ELSE 0) = k
      /\ \A i \in 1 .. k : a + i - 1 = o + i
  BY <1>2, <1>4
<1>8. Segment(RList(r), RC(r), p) = SubSeq(z, a, e)
  BY <1>1, <1>4 DEF Segment
<1>9. QED
  BY <1>1, <1>3, <1>6, <1>7, <1>8

\* the segments a rank receives, one behind the other, are the values of its ghosts
Brings(f, from, r, val) ==
    /\ \A p \in Procs : p \in from <=> RC(r)[p] > 0
    /\ \A p \in from : /\ f[p] \in Seq(Int) /\ Len(f[p]) = RC(r)[p]
                       /\ \A j \in 1 .. RC(r)[p] :
                             f[p][j] = val[GhostAt(r, Offset(RC(r), p) + j)]

LEMMA Transfer ==
    ASSUME GlobalsAre, NEW r \in Procs, NEW f, NEW from, NEW val, Brings(f, from, r, val)
    PROVE  \A k \in 1 .. NG(r) : Packed(f, from)[k] = val[GhostAt(r, k)]
<1>1. PICK n, R, s : /\ n = mesh.numprocs /\ R = RC(r)
                     /\ s = [k \in 1 .. n |-> IF k - 1 \in from THEN f[k - 1] ELSE <<>>]
  OBVIOUS
<1>2. n \in Nat \ {0} /\ Procs = 0 .. n - 1
  BY <1>1, RankFacts
<1>3. \A p \in 0 .. n - 1 : R[p] \in Nat
  BY <1>1, <1>2, CountFacts
<1>4. ASSUME NEW k \in 1 .. n
      PROVE  s[k] \in Seq(Int) /\ Len(s[k]) = R[k - 1]
  <2>1. k - 1 \in Procs /\ R[k - 1] \in Nat
    BY <1>2, <1>3, <1>4
  <2>2. s[k] = IF k - 1 \in from THEN f[k - 1] ELSE <<>>
    BY <1>1
  <2>3. CASE k - 1 \in from
    BY <1>1, <2>2, <2>3 DEF Brings
  <2>4. CASE k - 1 \notin from
    <3>1. s[k] = <<>> /\ R[k - 1] = 0
      BY <1>1, <2>1, <2>2, <2>4 DEF Brings
    <3>2. QED
      BY <3>1
  <2>5. QED
    BY <2>3, <2>4
<1>5. PICK off : off = [k \in 0 .. n |-> Offset(R, k)]
  OBVIOUS
<1>6. Places(off, s, n)
  <2>1. \A k \in 1 .. n : Len(s[k]) = R[k - 1]
    BY <1>4
  <2>2. n \in Nat
    BY <1>2
  <2>3. Places([k \in 0 .. n |-> Offset(R, k)], s, n)
    BY ONLY <1>3, <2>1, <2>2, OffsetPlaces
  <2>4. QED
    BY <1>5, <2>3
<1>7. PutTogether(FlattenSeq(s), Int, s, off, n)
  <2>1. Len(s) = n
    BY <1>1, <1>2
  <2>2. \A k \in 1 .. n : s[k] \in Seq(Int)
    BY <1>4
  <2>3. QED
    BY ONLY <1>2, <1>6, <2>1, <2>2, FlattenAt
<1>8. Packed(f, from) = FlattenSeq(s)
  BY <1>1 DEF Packed
<1>9. SUFFICES ASSUME NEW k \in 1 .. NG(r)
               PROVE  Packed(f, from)[k] = val[GhostAt(r, k)]
  OBVIOUS
<1>10. PICK p : p = RankOf(GhostAt(r, k))
  OBVIOUS
<1>11. p \in Procs /\ k - Offset(R, p) \in 1 .. R[p]
  BY <1>1, <1>9, <1>10, GhostFacts
<1>12. PICK l, j : l = p + 1 /\ j = k - Offset(R, p)
  OBVIOUS
<1>13. l \in 1 .. n /\ l - 1 = p /\ p \in 0 .. n - 1 /\ p \in 0 .. n
  BY <1>2, <1>11, <1>12
<1>14. R[p] > 0 /\ j \in 1 .. R[p] /\ R[p] \in Nat
  BY <1>3, <1>11, <1>12, <1>13
<1>15. p \in from
  BY <1>1, <1>11, <1>14 DEF Brings
<1>16. s[l] = f[p] /\ Len(s[l]) = R[p] /\ f[p][j] = val[GhostAt(r, Offset(R, p) + j)]
  BY <1>1, <1>4, <1>13, <1>14, <1>15 DEF Brings
<1>17. FlattenSeq(s)[off[l - 1] + j] = s[l][j]
  BY <1>7, <1>13, <1>14, <1>16 DEF PutTogether
<1>18. off[p] = Offset(R, p) /\ Offset(R, p) \in Nat
  BY <1>5, <1>6, <1>13 DEF Places
<1>19. Offset(R, p) + j = k
  BY <1>9, <1>12, <1>18
<1>20. QED
  BY <1>8, <1>13, <1>16, <1>17, <1>18, <1>19

-----------------------------------------------------------------------------
(* What holds of every rank as far as it has come.                          *)

Place == [start |-> 0, num_solved |-> 1, num_involved |-> 2, rcounts |-> 3, rlist |-> 4,
          ghosts |-> 5, loc_x |-> 6, loc_y |-> 7, grid |-> 8, Q_cell_local |-> 9,
          min_value |-> 10, ready |-> 11]
At(r) == Place[stage[r]]
Stages == {"start", "num_solved", "num_involved", "rcounts", "rlist", "ghosts",
           "loc_x", "loc_y", "grid", "Q_cell_local", "min_value", "ready"}

\* the calls that give the others something, how many of them are made, and what each
\* gives
Calls == <<"num_solved", "num_involved", "rcounts", "rlist", "ghosts",
           "loc_x", "loc_y", "Q_cell_local", "min_value">>
Made(a) == IF a <= 7 THEN a ELSE IF a = 11 THEN 9 ELSE a - 1

Itself == [c \in Cells(mesh) |-> c]
XOf == [c \in Cells(mesh) |-> 2 * Column(mesh, c) + 1]
YOf == [c \in Cells(mesh) |-> 2 * Row(mesh, c) + 1]
Ones == [c \in Cells(mesh) |-> 1]
Sent(r, val) ==
    [p \in Procs |->
        [k \in 1 .. RC(p)[r] |-> val[GhostAt(p, Offset(RC(p), r) + k)]]]
Asked(r) == [p \in Procs |-> Segment(RList(r), RC(r), p)]
Gave(r, k, to) ==
    /\ k = 1 => to = ToAll(NS(r))
    /\ k = 3 => to = RC(r)
    /\ k = 4 => to = Asked(r)
    /\ k = 5 => to = Sent(r, Itself)
    /\ k = 6 => to = Sent(r, XOf)
    /\ k = 7 => to = Sent(r, YOf)
    /\ k = 8 => to = Sent(r, Ones)

\* the cells of a rank in the order of its local numbers, those it is to send, and its
\* neighbours by a numbering
CellOf(r, i) == IF i < NS(r) THEN OwnCells(r)[i + 1] ELSE GhostAt(r, i - NS(r) + 1)
SendLists(r) ==
    [p \in Procs |-> [k \in 1 .. RC(p)[r] |-> Local(GhostAt(p, Offset(RC(p), r) + k))]]
NeighborLists(r) == [i \in 0 .. NS(r) - 1 |-> Neighbors(CellOf(r, i))]
ByNumber(lists, number) ==
    [i \in DOMAIN lists |-> [k \in DOMAIN lists[i] |-> number[lists[i][k]]]]
NeighborsBy(r, number) == ByNumber(NeighborLists(r), number)
CellNumbers == [c \in Cells(mesh) |-> G(c)]

\* g and m are the members of Grid and MpiClass of rank r
NumberedAre(r, g) ==
    /\ g.num_solved = NS(r)
    /\ \A i \in 0 .. NS(r) - 1 : g.local_global[i] = CellOf(r, i)
    /\ \A c \in Own(r) : g.global_local[c] = Local(c)
GhostsAre(r, g, m) ==
    /\ g.num_involved = NS(r) + NG(r)
    /\ g.offset = Offset(Sizes, r)
    /\ g.gcnum = CellNumbers
    /\ m.involved_node = NG(r) /\ m.rcounts = RC(r)
PlacedAre(r, g) ==
    /\ \A i \in 0 .. NS(r) + NG(r) - 1 : /\ g.local_global[i] = CellOf(r, i)
                                         /\ g.global_local[CellOf(r, i)] = i
    /\ g.cell_neighbors_local = NeighborsBy(r, g.global_local)
    /\ \A i \in 0 .. NS(r) - 1 : g.loc_x[i] = XOf[CellOf(r, i)]
LocatedAre(r, g) ==
    /\ \A i \in 0 .. NS(r) + NG(r) - 1 : g.loc_x[i] = XOf[CellOf(r, i)]
    /\ \A i \in 0 .. NS(r) - 1 : g.loc_y[i] = YOf[CellOf(r, i)]
CentresAre(r, g) ==
    \A i \in 0 .. NS(r) + NG(r) - 1 :
        g.xcen_local[i] = <<XOf[CellOf(r, i)], YOf[CellOf(r, i)]>>
\* and what it has given, a being how far it has come
PostedAre(r, a, po) ==
    /\ po = [k \in 1 .. Made(a) |-> po[k]]
    /\ \A k \in 1 .. Made(a) : po[k].call = Calls[k] /\ Gave(r, k, po[k].to)
SharedAre(r, a, g, m) ==
    /\ a \in 2 .. 4 => m.rlist = RList(r)
    /\ a >= 4 => m.scounts = RC(r) /\ m.ssize = NG(r)
    /\ a >= 5 => m.slist = SendLists(r)

RankOK(r, a, po, g, m) ==
    /\ PostedAre(r, a, po)
    /\ a >= 1 => NumberedAre(r, g)
    /\ a >= 2 => GhostsAre(r, g, m)
    /\ SharedAre(r, a, g, m)
    /\ a >= 6 => PlacedAre(r, g)
    /\ a >= 7 => LocatedAre(r, g)
    /\ a >= 8 => CentresAre(r, g)

ShapeOK(r) ==
    /\ stage[r] \in Stages
    /\ DOMAIN grid[r] = DOMAIN NewGrid /\ DOMAIN mpiparams[r] = DOMAIN NewMpiClass
    /\ DOMAIN solver[r] = DOMAIN NewSolver
SetupInv ==
    /\ GlobalsAre
    /\ DOMAIN stage = Procs /\ DOMAIN posted = Procs
    /\ DOMAIN grid = Procs /\ DOMAIN mpiparams = Procs /\ DOMAIN solver = Procs
    /\ \A r \in Procs : ShapeOK(r) /\ RankOK(r, At(r), posted[r], grid[r], mpiparams[r])

\* what the ranks compute alike stays
LEMMA Steady ==
    ASSUME UNCHANGED globalVars
    PROVE  /\ GlobalsAre' <=> GlobalsAre
           /\ Procs' = Procs /\ Cells(mesh)' = Cells(mesh)
           /\ \A c : RankOf(c)' = RankOf(c)
           /\ \A c : Neighbors(c)' = Neighbors(c)
           /\ \A r : Own(r)' = Own(r)
           /\ \A r : Involved(r)' = Involved(r)
<1>1. GlobalsAre' <=> GlobalsAre
  BY DEF globalVars, GlobalsAre
<1>2. Procs' = Procs /\ Cells(mesh)' = Cells(mesh)
  BY DEF globalVars, Procs
<1>3. \A c : RankOf(c)' = RankOf(c)
  BY DEF globalVars, RankOf
<1>4. \A c : Neighbors(c)' = Neighbors(c)
  BY DEF globalVars, Neighbors
<1>5. \A r : Own(r)' = Own(r)
  BY <1>3 DEF globalVars, Own
<1>6. \A r : Involved(r)' = Involved(r)
  BY <1>3, <1>4, <1>5 DEF Involved
<1>7. QED
  BY <1>1, <1>2, <1>3, <1>4, <1>5, <1>6

LEMMA SteadyNumbers ==
    ASSUME UNCHANGED globalVars
    PROVE  /\ \A r : NS(r)' = NS(r) /\ OwnCells(r)' = OwnCells(r)
           /\ \A c : Local(c)' = Local(c) /\ G(c)' = G(c)
           /\ Sizes' = Sizes /\ \A r : NG(r)' = NG(r) /\ RC(r)' = RC(r)
           /\ \A r : RList(r)' = RList(r)
           /\ \A r, k : GhostAt(r, k)' = GhostAt(r, k)
<1>1. \A r : NS(r)' = NS(r) /\ OwnCells(r)' = OwnCells(r)
  BY Steady DEF NS, OwnCells
<1>2. \A c : Local(c)' = Local(c)
  BY Steady DEF Local
<1>3. Sizes' = Sizes
  BY <1>1, Steady DEF Sizes
<1>4. \A c : G(c)' = G(c)
  BY <1>3, Steady DEF G, Gcnum
<1>5. \A r : NG(r)' = NG(r) /\ RC(r)' = RC(r)
  BY Steady DEF NG, RC
<1>6. \A r : RList(r)' = RList(r)
  <2>1. TAKE r
  <2>2. {Gcnum(Sizes, c) : c \in Involved(r)}' = {Gcnum(Sizes, c) : c \in Involved(r)}
    <3>1. \A c : Gcnum(Sizes, c)' = Gcnum(Sizes, c)
      BY <1>4 DEF G
    <3>2. Involved(r)' = Involved(r)
      BY Steady
    <3>3. QED
      BY <3>1, <3>2
  <2>3. QED
    <3>1. RList(r) = Ascending({Gcnum(Sizes, c) : c \in Involved(r)})
      BY DEF RList, GhostList
    <3>2. (RList(r) = Ascending({Gcnum(Sizes, c) : c \in Involved(r)}))'
      BY DEF RList, GhostList
    <3>3. (Ascending({Gcnum(Sizes, c) : c \in Involved(r)}))'
              = Ascending({Gcnum(Sizes, c) : c \in Involved(r)})
      BY ONLY <2>2
    <3>4. QED
      BY <3>1, <3>2, <3>3, Zenon
<1>7. \A r, k : GhostAt(r, k)' = GhostAt(r, k)
  BY <1>4, <1>6, Steady DEF GhostAt
<1>8. QED
  BY <1>1, <1>2, <1>3, <1>4, <1>5, <1>6, <1>7

LEMMA SteadyLists ==
    ASSUME UNCHANGED globalVars
    PROVE  /\ \A r, i : CellOf(r, i)' = CellOf(r, i)
           /\ \A r : SendLists(r)' = SendLists(r) /\ Asked(r)' = Asked(r)
           /\ \A r, f : NeighborsBy(r, f)' = NeighborsBy(r, f)
           /\ CellNumbers' = CellNumbers /\ XOf' = XOf /\ YOf' = YOf
           /\ \A r, k, to : Gave(r, k, to)' <=> Gave(r, k, to)
<1>1. \A r, i : CellOf(r, i)' = CellOf(r, i)
  BY SteadyNumbers DEF CellOf
<1>2. \A r : SendLists(r)' = SendLists(r)
  BY Steady, SteadyNumbers DEF SendLists
<1>3. \A r : Asked(r)' = Asked(r)
  BY Steady, SteadyNumbers DEF Asked
<1>4. \A r, f : NeighborsBy(r, f)' = NeighborsBy(r, f)
  <2>1. \A r : NeighborLists(r)' = NeighborLists(r)
    BY <1>1, Steady, SteadyNumbers DEF NeighborLists
  <2>2. QED
    BY ONLY <2>1 DEF NeighborsBy
<1>5. CellNumbers' = CellNumbers
  BY Steady, SteadyNumbers DEF CellNumbers
<1>6. XOf' = XOf /\ YOf' = YOf /\ Ones' = Ones /\ Itself' = Itself
  BY Steady DEF XOf, YOf, Ones, Itself, globalVars
<1>7. \A r, val : Sent(r, val)' = Sent(r, val)
  BY Steady, SteadyNumbers DEF Sent
<1>8. /\ \A r : ToAll(NS(r))' = ToAll(NS(r))
      /\ \A r : Sent(r, Itself)' = Sent(r, Itself)
      /\ \A r : Sent(r, XOf)' = Sent(r, XOf)
      /\ \A r : Sent(r, YOf)' = Sent(r, YOf)
      /\ \A r : Sent(r, Ones)' = Sent(r, Ones)
  BY <1>6, Steady, SteadyNumbers DEF ToAll, Sent
<1>9. \A r, k, to : Gave(r, k, to)' <=> Gave(r, k, to)
  BY <1>3, <1>8, SteadyNumbers DEF Gave
<1>10. QED
  BY <1>1, <1>2, <1>3, <1>4, <1>5, <1>6, <1>9

\* so does what has been computed from it
LEMMA SteadyRank ==
    ASSUME UNCHANGED globalVars, NEW r, NEW a, NEW po, NEW g, NEW m
    PROVE  RankOK(r, a, po, g, m)' <=> RankOK(r, a, po, g, m)
<1>1. PostedAre(r, a, po)' <=> PostedAre(r, a, po)
  BY SteadyLists DEF PostedAre
<1>2. NumberedAre(r, g)' <=> NumberedAre(r, g)
  BY Steady, SteadyNumbers, SteadyLists DEF NumberedAre
<1>3. GhostsAre(r, g, m)' <=> GhostsAre(r, g, m)
  BY SteadyNumbers, SteadyLists DEF GhostsAre
<1>4. SharedAre(r, a, g, m)' <=> SharedAre(r, a, g, m)
  BY SteadyNumbers, SteadyLists DEF SharedAre
<1>5. PlacedAre(r, g)' <=> PlacedAre(r, g)
  BY SteadyNumbers, SteadyLists DEF PlacedAre
<1>6. LocatedAre(r, g)' <=> LocatedAre(r, g)
  BY SteadyNumbers, SteadyLists DEF LocatedAre
<1>7. CentresAre(r, g)' <=> CentresAre(r, g)
  BY SteadyNumbers, SteadyLists DEF CentresAre
<1>8. QED
  BY <1>1, <1>2, <1>3, <1>4, <1>5, <1>6, <1>7 DEF RankOK

\* a step is right if it leaves every rank right
LEMMA RanksGoOn ==
    ASSUME UNCHANGED globalVars, NEW r,
           NEW a, a = At(r)', NEW po, po = posted'[r], NEW g, g = grid'[r],
           NEW m, m = mpiparams'[r], RankOK(r, a, po, g, m)
    PROVE  RankOK(r, At(r), posted[r], grid[r], mpiparams[r])'
<1>1. RankOK(r, a, po, g, m)'
  BY SteadyRank
<1>2. PostedAre(r, At(r), posted[r])'
  BY <1>1 DEF RankOK, PostedAre
<1>3. (At(r) >= 1 => NumberedAre(r, grid[r]))'
  BY <1>1 DEF RankOK, NumberedAre
<1>4. (At(r) >= 2 => GhostsAre(r, grid[r], mpiparams[r]))'
  BY <1>1 DEF RankOK, GhostsAre
<1>5. SharedAre(r, At(r), grid[r], mpiparams[r])'
  BY <1>1 DEF RankOK, SharedAre
<1>6. (At(r) >= 6 => PlacedAre(r, grid[r]))'
  BY <1>1 DEF RankOK, PlacedAre
<1>7. (At(r) >= 7 => LocatedAre(r, grid[r]))'
  BY <1>1 DEF RankOK, LocatedAre
<1>8. (At(r) >= 8 => CentresAre(r, grid[r]))'
  BY <1>1 DEF RankOK, CentresAre
<1>9. QED
  BY <1>2, <1>3, <1>4, <1>5, <1>6, <1>7, <1>8 DEF RankOK

-----------------------------------------------------------------------------
(* Giving and receiving.                                                    *)

LEMMA AppendIs ==
    ASSUME NEW n \in Nat, NEW po, po = [k \in 1 .. n |-> po[k]], NEW e
    PROVE  /\ Len(po) = n
           /\ Append(po, e) = [k \in 1 .. n + 1 |-> IF k <= n THEN po[k] ELSE e]
<1> DEFINE S == {po[k] : k \in 1 .. n} \union {e}
<1>1. po \in [1 .. n -> S]
  OBVIOUS
<1>2. po \in Seq(S) /\ e \in S
  BY <1>1
<1> HIDE DEF S
<1>3. Len(po) = n
  BY <1>1, <1>2
<1>4. QED
  BY <1>2, <1>3

\* what a rank that makes its next call has given
LEMMA PostIs ==
    ASSUME DOMAIN posted = Procs, NEW r \in Procs, NEW a, Made(a) \in Nat,
           PostedAre(r, a, posted[r]),
           NEW b, Made(b) = Made(a) + 1, NEW call, call = Calls[Made(b)],
           NEW to, Gave(r, Made(b), to), Post(r, call, to)
    PROVE  PostedAre(r, b, posted'[r])
<1>1. PICK e : e = [call |-> call, to |-> to]
  OBVIOUS
<1>2. PICK n : n = Made(a)
  OBVIOUS
<1>3. n \in Nat /\ posted[r] = [k \in 1 .. n |-> posted[r][k]]
  BY <1>2 DEF PostedAre
<1>4. posted' = [posted EXCEPT ![r] = Append(posted[r], e)]
  BY <1>1 DEF Post
<1>5. posted'[r] = Append(posted[r], e)
  BY ONLY <1>4, DOMAIN posted = Procs, r \in Procs
<1>6. posted'[r] = [k \in 1 .. n + 1 |-> IF k <= n THEN posted[r][k] ELSE e]
  BY ONLY <1>3, <1>5, AppendIs
<1>7. \A k \in 1 .. n : posted[r][k].call = Calls[k] /\ Gave(r, k, posted[r][k].to)
  BY <1>2 DEF PostedAre
<1>8. e.call = Calls[n + 1] /\ Gave(r, n + 1, e.to)
  BY <1>1, <1>2
<1> HIDE DEF PostedAre
<1>9. \A k \in 1 .. n + 1 : posted'[r][k].call = Calls[k] /\ Gave(r, k, posted'[r][k].to)
  BY ONLY <1>3, <1>6, <1>7, <1>8
<1>10. posted'[r] = [k \in 1 .. n + 1 |-> posted'[r][k]]
  BY ONLY <1>6
<1>11. Made(b) = n + 1
  BY <1>2
<1>12. QED
  BY ONLY <1>9, <1>10, <1>11 DEF PostedAre

\* a call that all of them have entered brings from each what it gave to it
LEMMA ReceivedIs ==
    ASSUME SetupInv, NEW r \in Procs, NEW from, from \subseteq Procs, Entered(r, from),
           Made(At(r)) >= 1
    PROVE  /\ Received(r, from) = [p \in from |-> Received(r, from)[p]]
           /\ \A p \in from :
                 \E to : Gave(p, Made(At(r)), to) /\ Received(r, from)[p] = to[r]
<1>1. Received(r, from) = [p \in from |-> posted[p][Len(posted[r])].to[r]]
  BY DEF Received
<1>2. \A p \in Procs : /\ Made(At(p)) \in Nat /\ PostedAre(p, At(p), posted[p])
  BY DEF SetupInv, ShapeOK, RankOK, At, Stages, Place, Made
<1>3. \A p \in Procs : Len(posted[p]) = Made(At(p))
  <2>1. TAKE p \in Procs
  <2>2. PICK n : n = Made(At(p))
    OBVIOUS
  <2>3. n \in Nat /\ posted[p] = [k \in 1 .. n |-> posted[p][k]]
    BY <1>2, <2>2 DEF PostedAre
  <2>4. Len(posted[p]) = n
    BY ONLY <2>3, AppendIs
  <2>5. QED
    BY <2>2, <2>4
<1>4. ASSUME NEW p \in from
      PROVE  \E to : Gave(p, Made(At(r)), to) /\ Received(r, from)[p] = to[r]
  <2>1. p \in Procs /\ Len(posted[p]) >= Len(posted[r])
    BY DEF Entered
  <2>2. Made(At(r)) \in 1 .. Made(At(p))
    BY <1>2, <1>3, <2>1
  <2>3. Gave(p, Made(At(r)), posted[p][Made(At(r))].to)
    BY <1>2, <2>1, <2>2 DEF PostedAre
  <2>4. Received(r, from)[p] = posted[p][Made(At(r))].to[r]
    BY <1>1, <1>3
  <2>5. QED
    BY <2>3, <2>4
<1>5. QED
  BY <1>1, <1>4

-----------------------------------------------------------------------------
(* The two halves of mpi_nbnb_transfer.                                     *)

\* vec has the values val for the cells of rank r, the first n of its local numbers
Holds(r, vec, val, n) == \A i \in 0 .. n - 1 : vec[i] = val[CellOf(r, i)]
Through(vec, lists) == [p \in Procs |-> [k \in 1 .. Len(lists[p]) |-> vec[lists[p][k]]]]

LEMMA OwnCellOf ==
    ASSUME GlobalsAre, NEW r, NEW c \in Own(r)
    PROVE  Local(c) \in 0 .. NS(r) - 1 /\ CellOf(r, Local(c)) = c
BY OwnFacts DEF CellOf

LEMMA SentIs ==
    ASSUME GlobalsAre, NEW r \in Procs, NEW vec, NEW val, Holds(r, vec, val, NS(r))
    PROVE  Through(vec, SendLists(r)) = Sent(r, val)
<1>1. ASSUME NEW p \in Procs
      PROVE  [k \in 1 .. Len(SendLists(r)[p]) |-> vec[SendLists(r)[p][k]]]
                 = [k \in 1 .. RC(p)[r] |-> val[GhostAt(p, Offset(RC(p), r) + k)]]
  <2>1. PICK n : n = RC(p)[r]
    OBVIOUS
  <2>2. n \in Nat
    BY <2>1, CountFacts
  <2>3. PICK s : s = SendLists(r)[p]
    OBVIOUS
  <2>4. s = [k \in 1 .. n |-> Local(GhostAt(p, Offset(RC(p), r) + k))]
    BY <2>1, <2>3 DEF SendLists
  <2>5. \A k \in 1 .. n : LET c == GhostAt(p, Offset(RC(p), r) + k) IN
           Local(c) \in 0 .. NS(r) - 1 /\ CellOf(r, Local(c)) = c
    <3>1. TAKE k \in 1 .. n
    <3>2. PICK c : c = GhostAt(p, Offset(RC(p), r) + k)
      OBVIOUS
    <3>3. RankOf(c) = r /\ c \in Involved(p)
      BY <2>1, <3>2, GhostFacts, RListFacts
    <3>4. c \in Cells(mesh)
      BY <3>3, InvolvedIs
    <3>5. c \in Own(r)
      BY <3>3, <3>4 DEF Own
    <3>6. QED
      BY <3>2, <3>5, OwnCellOf
  <2>6. s \in [1 .. n -> Int]
    BY <2>4, <2>5, <2>2
  <2>7. Len(s) = n
    BY <2>2, <2>6
  <2>8. \A k \in 1 .. n : vec[s[k]] = val[GhostAt(p, Offset(RC(p), r) + k)]
    BY <2>4, <2>5 DEF Holds
  <2>9. QED
    BY <2>1, <2>3, <2>7, <2>8
<1>2. QED
  BY <1>1 DEF Through, Sent

\* the ghosts have the values of their owners
Comes(r, val) ==
    \A p \in Procs : \A to : Gave(p, Made(At(r)), to) => to = Sent(p, val)

LEMMA UnpackIs ==
    ASSUME SetupInv, NEW r \in Procs, At(r) >= 2, Made(At(r)) >= 1,
           Entered(r, Owners(r)), NEW val, \A c \in Cells(mesh) : val[c] \in Int,
           Comes(r, val), NEW vec, Holds(r, vec, val, NS(r))
    PROVE  Holds(r, Unpack(r, vec), val, NS(r) + NG(r))
<1>1. GlobalsAre /\ GhostsAre(r, grid[r], mpiparams[r]) /\ NumberedAre(r, grid[r])
  <2>1. GlobalsAre /\ RankOK(r, At(r), posted[r], grid[r], mpiparams[r]) /\ At(r) \in Nat
    BY DEF SetupInv, ShapeOK, Stages, At, Place
  <2>2. QED
    BY <2>1 DEF RankOK
<1>2. /\ grid[r].num_solved = NS(r) /\ grid[r].num_involved = NS(r) + NG(r)
      /\ mpiparams[r].rcounts = RC(r)
  BY <1>1 DEF GhostsAre, NumberedAre
<1>3. NS(r) \in Nat /\ NG(r) \in Nat
  BY <1>1, OwnFacts, InvolvedIs
<1>4. \A p \in Procs : p \in Owners(r) <=> RC(r)[p] > 0
  BY <1>2 DEF Owners
<1>5. Owners(r) \subseteq Procs
  BY DEF Owners
<1>6. ASSUME NEW p \in Owners(r)
      PROVE  /\ Received(r, Owners(r))[p] \in Seq(Int)
             /\ Len(Received(r, Owners(r))[p]) = RC(r)[p]
             /\ \A j \in 1 .. RC(r)[p] :
                   Received(r, Owners(r))[p][j] = val[GhostAt(r, Offset(RC(r), p) + j)]
  <2>1. Received(r, Owners(r))[p] = Sent(p, val)[r]
    BY <1>5, ReceivedIs DEF Comes
  <2>2. PICK n : n = RC(r)[p]
    OBVIOUS
  <2>3. PICK s : s = Received(r, Owners(r))[p]
    OBVIOUS
  <2>4. s = [k \in 1 .. n |-> val[GhostAt(r, Offset(RC(r), p) + k)]]
    BY <2>1, <2>2, <2>3 DEF Sent
  <2>5. n \in Nat
    BY <1>1, <1>5, <2>2, CountFacts
  <2>6. \A k \in 1 .. n : val[GhostAt(r, Offset(RC(r), p) + k)] \in Int
    <3>1. \A k \in 1 .. n : Offset(RC(r), p) + k \in 1 .. NG(r)
      BY <1>1, <1>5, <2>2, GhostFacts
    <3>2. \A k \in 1 .. NG(r) : GhostAt(r, k) \in Cells(mesh)
      BY <1>1, RListFacts, InvolvedIs
    <3>3. QED
      BY <3>1, <3>2
  <2>7. s \in [1 .. n -> Int]
    BY <2>4, <2>6
  <2>8. s \in Seq(Int) /\ Len(s) = n
    BY <2>5, <2>7
  <2>9. QED
    BY <2>2, <2>3, <2>4, <2>8
<1>7. Brings(Received(r, Owners(r)), Owners(r), r, val)
  BY <1>4, <1>6 DEF Brings
<1>8. \A k \in 1 .. NG(r) : Packed(Received(r, Owners(r)), Owners(r))[k] = val[GhostAt(r, k)]
  BY <1>1, <1>7, Transfer
<1>9. PICK ns, ni, u : ns = NS(r) /\ ni = NS(r) + NG(r) /\ u = Unpack(r, vec)
  OBVIOUS
<1>14. u = [i \in 0 .. ni - 1 |-> IF i < ns THEN vec[i] ELSE GhostValue(r, i - ns)]
  <2>1. u = [i \in 0 .. grid[r].num_involved - 1 |->
                IF i < grid[r].num_solved THEN vec[i]
                ELSE GhostValue(r, i - grid[r].num_solved)]
    BY <1>9 DEF Unpack
  <2>2. grid[r].num_solved = ns /\ grid[r].num_involved = ni
    BY ONLY <1>2, <1>9
  <2>3. QED
    BY ONLY <2>1, <2>2
<1>10. \A i \in 0 .. ni - 1 : u[i] = val[CellOf(r, i)]
  <2>1. TAKE i \in 0 .. ni - 1
  <2>2. CASE i < NS(r)
    <3>1. i \in 0 .. NS(r) - 1
      BY <1>3, <1>9, <2>2
    <3>2. QED
      BY <1>9, <1>14, <2>2, <3>1 DEF Holds
  <2>3. CASE ~(i < NS(r))
    <3>1. i - NS(r) + 1 \in 1 .. NG(r) /\ i \in Int
      BY <1>3, <1>9, <2>3
    <3>2. u[i] = Packed(Received(r, Owners(r)), Owners(r))[i - NS(r) + 1]
      BY <1>9, <1>14, <2>3 DEF GhostValue
    <3>3. CellOf(r, i) = GhostAt(r, i - NS(r) + 1)
      BY <2>3 DEF CellOf
    <3>4. QED
      BY <1>8, <3>1, <3>2, <3>3
  <2>4. QED
    BY <2>2, <2>3
<1>16. QED
  BY ONLY <1>9, <1>10 DEF Holds

-----------------------------------------------------------------------------
(* The steps.                                                               *)

\* a step of rank r leaves what it should of the other ranks
Others(r) ==
    /\ DOMAIN posted' = Procs /\ DOMAIN grid' = Procs /\ DOMAIN mpiparams' = Procs
    /\ DOMAIN solver' = Procs
    /\ \A p \in Procs \ {r} : /\ posted'[p] = posted[p] /\ grid'[p] = grid[p]
                              /\ mpiparams'[p] = mpiparams[p] /\ solver'[p] = solver[p]
    /\ DOMAIN grid'[r] = DOMAIN NewGrid /\ DOMAIN mpiparams'[r] = DOMAIN NewMpiClass
    /\ DOMAIN solver'[r] = DOMAIN NewSolver

LEMMA StepIs ==
    ASSUME SetupInv, UNCHANGED globalVars, NEW r \in Procs, NEW s \in Stages,
           stage' = [stage EXCEPT ![r] = s], Others(r),
           NEW po, po = posted'[r], NEW g, g = grid'[r], NEW m, m = mpiparams'[r],
           RankOK(r, Place[s], po, g, m)
    PROVE  SetupInv'
<1>1. DOMAIN stage' = Procs /\ stage'[r] = s /\ \A p \in Procs \ {r} : stage'[p] = stage[p]
  BY DEF SetupInv
<1>2. Procs' = Procs /\ GlobalsAre'
  BY Steady DEF SetupInv
<1>3. \A p \in Procs : ShapeOK(p)'
  <2>1. TAKE p \in Procs
  <2>2. CASE p = r
    BY <1>1, <2>2 DEF Others, ShapeOK, NewGrid, NewMpiClass, NewSolver
  <2>3. CASE p # r
    BY <1>1, <2>3 DEF Others, ShapeOK, NewGrid, NewMpiClass, NewSolver, SetupInv
  <2>4. QED
    BY <2>2, <2>3
<1>4. \A p \in Procs : RankOK(p, At(p), posted[p], grid[p], mpiparams[p])'
  <2>1. TAKE p \in Procs
  <2>2. CASE p = r
    <3>1. Place[s] = At(p)'
      BY <1>1, <2>2 DEF At, Place
    <3>2. PICK a : a = Place[s]
      OBVIOUS
    <3>3. RankOK(p, a, po, g, m) /\ a = At(p)' /\ po = posted'[p] /\ g = grid'[p]
             /\ m = mpiparams'[p]
      BY <2>2, <3>1, <3>2
    <3>4. QED
      BY ONLY <3>3, UNCHANGED globalVars, RanksGoOn
  <2>3. CASE p # r
    <3>1. At(p) = At(p)'
      BY <1>1, <2>3 DEF At, Place
    <3>2. PICK a, qo, h, n : a = At(p) /\ qo = posted[p] /\ h = grid[p] /\ n = mpiparams[p]
      OBVIOUS
    <3>3. RankOK(p, At(p), posted[p], grid[p], mpiparams[p])
      BY DEF SetupInv
    <3>4. RankOK(p, a, qo, h, n)
      BY ONLY <3>2, <3>3, Zenon
    <3>5. a = At(p)' /\ qo = posted'[p] /\ h = grid'[p] /\ n = mpiparams'[p]
      BY <2>3, <3>1, <3>2 DEF Others
    <3>6. QED
      BY ONLY <3>4, <3>5, UNCHANGED globalVars, RanksGoOn
  <2>4. QED
    BY <2>2, <2>3
<1>5. QED
  BY <1>1, <1>2, <1>3, <1>4 DEF Others, SetupInv

\* where a rank is
LEMMA RankIs ==
    ASSUME SetupInv, NEW r \in Procs
    PROVE  /\ GlobalsAre /\ At(r) \in 0 .. 11 /\ Made(At(r)) \in Nat
           /\ RankOK(r, At(r), posted[r], grid[r], mpiparams[r])
           /\ DOMAIN grid = Procs /\ DOMAIN grid[r] = DOMAIN NewGrid
           /\ DOMAIN mpiparams = Procs /\ DOMAIN mpiparams[r] = DOMAIN NewMpiClass
           /\ DOMAIN solver = Procs /\ DOMAIN solver[r] = DOMAIN NewSolver
           /\ DOMAIN posted = Procs
<1>1. At(r) \in 0 .. 11
  BY DEF SetupInv, ShapeOK, At, Stages, Place
<1>2. Made(At(r)) \in Nat
  BY <1>1 DEF Made
<1>3. QED
  BY <1>1, <1>2 DEF SetupInv, ShapeOK

\* the local numbers of a rank are among the numbers of cells
LEMMA FitFacts ==
    ASSUME GlobalsAre, NEW r
    PROVE  0 .. NS(r) + NG(r) - 1 \subseteq Cells(mesh) /\ 0 .. NS(r) - 1 \subseteq Cells(mesh)
<1>1. IsFiniteSet(Own(r)) /\ IsFiniteSet(Involved(r)) /\ NS(r) \in Nat /\ NG(r) \in Nat
  BY OwnFacts, InvolvedIs
<1>2. Own(r) \intersect Involved(r) = {} /\ Own(r) \union Involved(r) \subseteq Cells(mesh)
  BY InvolvedIs DEF Own
<1>3. IsFiniteSet({}) /\ Cardinality({}) = 0
  BY FS_EmptySet
<1>4. Cardinality(Own(r) \union Involved(r)) = NS(r) + NG(r)
  <2>1. Cardinality(Own(r) \union Involved(r))
           = Cardinality(Own(r)) + Cardinality(Involved(r))
                - Cardinality(Own(r) \intersect Involved(r))
    BY <1>1, FS_Union
  <2>2. Cardinality(Own(r)) = NS(r) /\ Cardinality(Involved(r)) = NG(r)
    BY DEF NS, NG
  <2>3. Cardinality(Own(r) \intersect Involved(r)) = 0
    BY ONLY <1>2, <1>3
  <2>4. QED
    BY ONLY <1>1, <2>1, <2>2, <2>3
<1>5. PICK n : n = mesh.Nx * mesh.Ny
  OBVIOUS
<1>6. n \in Nat /\ Cells(mesh) = 0 .. n - 1
  BY <1>5, CellSlots DEF GlobalsAre, Cells
<1>7. Cardinality(Cells(mesh)) = n /\ IsFiniteSet(Cells(mesh))
  BY <1>6, FS_Interval
<1>8. NS(r) + NG(r) <= n
  BY <1>2, <1>4, <1>7, FS_Subset
<1>9. QED
  BY <1>1, <1>6, <1>8

LEMMA NumberCellsIs ==
    ASSUME SetupInv, NEW r \in Procs, NumberCells(r), UNCHANGED solver
    PROVE  SetupInv'
<1>1. GlobalsAre /\ stage[r] = "start" /\ At(r) = 0 /\ PostedAre(r, At(r), posted[r])
  <2>1. stage[r] = "start"
    BY DEF NumberCells
  <2>2. At(r) = 0
    BY <2>1 DEF At, Place
  <2>3. QED
    BY <2>1, <2>2, RankIs DEF RankOK
<1>2. PICK lg, gl : /\ lg = [i \in Cells(mesh) |->
                           IF i < Len(OwnCells(r)) THEN OwnCells(r)[i + 1] ELSE Unset]
                    /\ gl = [c \in Cells(mesh) |->
                           IF RankOf(c) = r
                           THEN Cardinality({d \in 0 .. c - 1 : RankOf(d) = r}) ELSE Unset]
  OBVIOUS
<1>3. PICK n : n = NS(r)
  OBVIOUS
<1>4. Len(OwnCells(r)) = n /\ n \in Nat
  BY <1>1, <1>3, OwnFacts
<1>5. grid' = [grid EXCEPT ![r].num_solved = n, ![r].local_global = lg, ![r].global_local = gl]
  BY <1>2, <1>4 DEF NumberCells
<1>6. DOMAIN grid = Procs /\ DOMAIN grid[r] = DOMAIN NewGrid /\ UNCHANGED <<solver, mpiparams>>
         /\ DOMAIN mpiparams = Procs /\ DOMAIN solver = Procs /\ DOMAIN posted = Procs
         /\ DOMAIN mpiparams[r] = DOMAIN NewMpiClass /\ DOMAIN solver[r] = DOMAIN NewSolver
  BY RankIs DEF NumberCells
<1>7. DOMAIN grid' = Procs /\ (\A p \in Procs \ {r} : grid'[p] = grid[p])
         /\ DOMAIN grid'[r] = DOMAIN NewGrid
  BY <1>5, <1>6 DEF NewGrid
<1>8. grid'[r].num_solved = n /\ grid'[r].local_global = lg /\ grid'[r].global_local = gl
  BY <1>5, <1>6 DEF NewGrid
<1>9. Post(r, "num_solved", ToAll(n))
  BY <1>4 DEF NumberCells
<1>10. DOMAIN posted' = Procs /\ \A p \in Procs \ {r} : posted'[p] = posted[p]
  BY <1>6, <1>9 DEF Post
<1>11. Others(r)
  BY <1>6, <1>7, <1>10 DEF Others
<1>12. PostedAre(r, 1, posted'[r])
  <2>1. Gave(r, 1, ToAll(n))
    BY <1>3 DEF Gave
  <2>2. Made(At(r)) = 0 /\ Made(1) = 1 /\ Calls[1] = "num_solved"
    BY <1>1 DEF Made, Calls
  <2>3. QED
    BY <1>1, <1>6, <1>9, <2>1, <2>2, PostIs
<1>13. NumberedAre(r, grid'[r])
  <2>1. \A i \in 0 .. NS(r) - 1 : lg[i] = CellOf(r, i)
    BY <1>1, <1>2, <1>3, <1>4, FitFacts DEF CellOf
  <2>2. \A c \in Own(r) : gl[c] = Local(c)
    BY <1>2 DEF Own, Local
  <2>3. QED
    BY <1>3, <1>8, <2>1, <2>2 DEF NumberedAre
<1>14. RankOK(r, 1, posted'[r], grid'[r], mpiparams'[r])
  BY <1>12, <1>13 DEF RankOK, SharedAre
<1>15. Place["num_solved"] = 1 /\ "num_solved" \in Stages
         /\ stage' = [stage EXCEPT ![r] = "num_solved"] /\ UNCHANGED globalVars
  BY DEF Place, Stages, NumberCells
<1>16. QED
  BY <1>11, <1>14, <1>15, StepIs

LEMMA PostLeaves ==
    ASSUME SetupInv, NEW r \in Procs, NEW call, NEW to, Post(r, call, to)
    PROVE  DOMAIN posted' = Procs /\ \A p \in Procs \ {r} : posted'[p] = posted[p]
BY RankIs DEF Post

LEMMA FindGhostsIs ==
    ASSUME SetupInv, NEW r \in Procs, FindGhosts(r), UNCHANGED solver
    PROVE  SetupInv'
<1>1. At(r) = 1 /\ Made(At(r)) = 1 /\ Made(2) = 2
  <2>1. stage[r] = "num_solved"
    BY DEF FindGhosts
  <2>2. QED
    BY <2>1 DEF At, Place, Made
<1>2. GlobalsAre /\ PostedAre(r, At(r), posted[r]) /\ NumberedAre(r, grid[r])
  BY <1>1, RankIs DEF RankOK
<1>3. Received(r, Procs) = Sizes
  <2>1. Entered(r, Procs)
    BY DEF FindGhosts
  <2>2. /\ Received(r, Procs) = [p \in Procs |-> Received(r, Procs)[p]]
        /\ \A p \in Procs : \E to : Gave(p, 1, to) /\ Received(r, Procs)[p] = to[r]
    BY <1>1, <2>1, ReceivedIs
  <2>3. \A p \in Procs : Received(r, Procs)[p] = NS(p)
    BY <2>2 DEF Gave, ToAll
  <2>4. QED
    BY <2>2, <2>3 DEF Sizes
<1>4. PICK ni, of, gc, ng, rc, rl :
         /\ ni = NS(r) + NG(r) /\ of = Offset(Sizes, r) /\ gc = CellNumbers
         /\ ng = NG(r) /\ rc = RC(r) /\ rl = RList(r)
  OBVIOUS
<1>5. grid' = [grid EXCEPT ![r].num_involved = ni, ![r].offset = of, ![r].gcnum = gc]
  <2>1. grid[r].num_solved + Cardinality(Involved(r)) = ni
    BY <1>2, <1>4 DEF NumberedAre, NG
  <2>2. [c \in Cells(mesh) |-> Gcnum(Sizes, c)] = gc
    BY <1>4 DEF CellNumbers, G
  <2>3. QED
    BY <1>3, <1>4, <2>1, <2>2 DEF FindGhosts
<1>6. mpiparams' = [mpiparams EXCEPT ![r].involved_node = ng, ![r].rcounts = rc, ![r].rlist = rl]
  BY <1>3, <1>4 DEF FindGhosts, NG, RC, RList
<1>7. Post(r, "num_involved", ToAll(grid[r].num_solved + Cardinality(Involved(r))))
  BY DEF FindGhosts
<1>8. Others(r)
  <2>1. DOMAIN grid' = Procs /\ DOMAIN mpiparams' = Procs /\ solver' = solver
    BY <1>5, <1>6, RankIs
  <2>2. \A p \in Procs \ {r} : grid'[p] = grid[p] /\ mpiparams'[p] = mpiparams[p]
    BY <1>5, <1>6, RankIs
  <2>3. DOMAIN grid'[r] = DOMAIN NewGrid /\ DOMAIN mpiparams'[r] = DOMAIN NewMpiClass
    BY <1>5, <1>6, RankIs DEF NewGrid, NewMpiClass
  <2>4. QED
    BY <1>7, <2>1, <2>2, <2>3, RankIs, PostLeaves DEF Others
<1>9. PICK g, m : g = grid'[r] /\ m = mpiparams'[r]
  OBVIOUS
<1>10. /\ g.num_involved = ni /\ g.offset = of /\ g.gcnum = gc
       /\ g.num_solved = grid[r].num_solved /\ g.local_global = grid[r].local_global
       /\ g.global_local = grid[r].global_local
  BY <1>5, <1>9, RankIs DEF NewGrid
<1>11. m.involved_node = ng /\ m.rcounts = rc /\ m.rlist = rl
  BY <1>6, <1>9, RankIs DEF NewMpiClass
<1>12. PostedAre(r, 2, posted'[r])
  <2>1. Gave(r, 2, ToAll(grid[r].num_solved + Cardinality(Involved(r))))
    BY DEF Gave
  <2>2. Made(2) = Made(At(r)) + 1 /\ Calls[2] = "num_involved"
    BY <1>1 DEF Calls
  <2>3. QED
    BY <1>1, <1>2, <1>7, <2>1, <2>2, RankIs, PostIs
<1>13. RankOK(r, 2, posted'[r], g, m)
  <2>1. NumberedAre(r, g)
    BY <1>2, <1>10 DEF NumberedAre
  <2>2. GhostsAre(r, g, m)
    BY <1>4, <1>10, <1>11 DEF GhostsAre
  <2>3. SharedAre(r, 2, g, m)
    BY <1>4, <1>11 DEF SharedAre
  <2>4. QED
    BY <1>12, <2>1, <2>2, <2>3 DEF RankOK
<1>14. Place["num_involved"] = 2 /\ "num_involved" \in Stages
         /\ stage' = [stage EXCEPT ![r] = "num_involved"] /\ UNCHANGED globalVars
  BY DEF Place, Stages, FindGhosts
<1>15. QED
  BY <1>8, <1>9, <1>13, <1>14, StepIs

LEMMA CountGhostsIs ==
    ASSUME SetupInv, NEW r \in Procs, CountGhosts(r), UNCHANGED solver
    PROVE  SetupInv'
<1>1. At(r) = 2 /\ Made(At(r)) = 2 /\ Made(3) = 3
  BY DEF CountGhosts, At, Place, Made
<1>2. /\ GlobalsAre /\ PostedAre(r, At(r), posted[r])
      /\ NumberedAre(r, grid[r]) /\ GhostsAre(r, grid[r], mpiparams[r])
      /\ SharedAre(r, 2, grid[r], mpiparams[r])
  BY <1>1, RankIs DEF RankOK
<1>3. Post(r, "rcounts", RC(r)) /\ UNCHANGED <<grid, mpiparams>>
  BY <1>2 DEF CountGhosts, GhostsAre
<1>4. Others(r)
  BY <1>3, RankIs, PostLeaves DEF Others
<1>5. PostedAre(r, 3, posted'[r])
  <2>1. Gave(r, 3, RC(r))
    BY DEF Gave
  <2>2. Made(3) = Made(At(r)) + 1 /\ Calls[3] = "rcounts"
    BY <1>1 DEF Calls
  <2>3. QED
    BY <1>1, <1>2, <1>3, <2>1, <2>2, RankIs, PostIs
<1>6. RankOK(r, 3, posted'[r], grid'[r], mpiparams'[r])
  <2>1. SharedAre(r, 3, grid[r], mpiparams[r])
    BY <1>2 DEF SharedAre
  <2>2. QED
    BY <1>2, <1>3, <1>5, <2>1 DEF RankOK
<1>7. Place["rcounts"] = 3 /\ "rcounts" \in Stages
         /\ stage' = [stage EXCEPT ![r] = "rcounts"] /\ UNCHANGED globalVars
  BY DEF Place, Stages, CountGhosts
<1>8. QED
  BY <1>4, <1>6, <1>7, StepIs

LEMMA AskOwnersIs ==
    ASSUME SetupInv, NEW r \in Procs, AskOwners(r), UNCHANGED solver
    PROVE  SetupInv'
<1>1. At(r) = 3 /\ Made(At(r)) = 3 /\ Made(4) = 4
  BY DEF AskOwners, At, Place, Made
<1>2. /\ GlobalsAre /\ PostedAre(r, At(r), posted[r])
      /\ NumberedAre(r, grid[r]) /\ GhostsAre(r, grid[r], mpiparams[r])
      /\ SharedAre(r, 3, grid[r], mpiparams[r])
  BY <1>1, RankIs DEF RankOK
<1>3. mpiparams[r].rcounts = RC(r) /\ mpiparams[r].rlist = RList(r)
  BY <1>2 DEF GhostsAre, SharedAre
<1>4. Received(r, Procs) = RC(r)
  <2>1. Entered(r, Procs)
    BY DEF AskOwners
  <2>2. /\ Received(r, Procs) = [p \in Procs |-> Received(r, Procs)[p]]
        /\ \A p \in Procs : \E to : Gave(p, 3, to) /\ Received(r, Procs)[p] = to[r]
    BY <1>1, <2>1, ReceivedIs
  <2>3. \A p \in Procs : Received(r, Procs)[p] = RC(p)[r]
    BY <2>2 DEF Gave
  <2>4. QED
    BY <1>2, <2>2, <2>3, AskedFor
<1>5. SumFunction(RC(r)) = NG(r)
  BY <1>2, CountFacts
<1>6. PICK rc, ng, rs : rc = RC(r) /\ ng = NG(r) /\ rs = SumFunction(mpiparams[r].rcounts)
  OBVIOUS
<1>7. mpiparams' = [mpiparams EXCEPT ![r].scounts = rc, ![r].ssize = ng, ![r].rsize = rs]
  BY <1>4, <1>5, <1>6 DEF AskOwners
<1>8. Post(r, "rlist", Asked(r)) /\ UNCHANGED grid
  BY <1>3 DEF AskOwners, Asked
<1>9. Others(r)
  <2>1. DOMAIN mpiparams' = Procs /\ \A p \in Procs \ {r} : mpiparams'[p] = mpiparams[p]
    BY <1>7, RankIs
  <2>2. DOMAIN mpiparams'[r] = DOMAIN NewMpiClass
    BY <1>7, RankIs DEF NewMpiClass
  <2>3. QED
    BY <1>8, <2>1, <2>2, RankIs, PostLeaves DEF Others
<1>10. PICK m : m = mpiparams'[r]
  OBVIOUS
<1>11. /\ m.scounts = rc /\ m.ssize = ng /\ m.rlist = mpiparams[r].rlist
       /\ m.rcounts = mpiparams[r].rcounts /\ m.involved_node = mpiparams[r].involved_node
  BY <1>7, <1>10, RankIs DEF NewMpiClass
<1>12. PostedAre(r, 4, posted'[r])
  <2>1. Gave(r, 4, Asked(r))
    BY DEF Gave
  <2>2. Made(4) = Made(At(r)) + 1 /\ Calls[4] = "rlist"
    BY <1>1 DEF Calls
  <2>3. QED
    BY <1>1, <1>2, <1>8, <2>1, <2>2, RankIs, PostIs
<1>13. RankOK(r, 4, posted'[r], grid'[r], m)
  <2>1. SharedAre(r, 4, grid[r], m)
    BY <1>3, <1>6, <1>11 DEF SharedAre
  <2>2. GhostsAre(r, grid[r], m)
    BY <1>2, <1>11 DEF GhostsAre
  <2>3. QED
    BY <1>2, <1>8, <1>12, <2>1, <2>2 DEF RankOK
<1>14. Place["rlist"] = 4 /\ "rlist" \in Stages
         /\ stage' = [stage EXCEPT ![r] = "rlist"] /\ UNCHANGED globalVars
  BY DEF Place, Stages, AskOwners
<1>15. QED
  BY <1>9, <1>10, <1>13, <1>14, StepIs

-----------------------------------------------------------------------------
(* The inverse of the numbers, and the cells by local numbers.              *)

LEMMA InverseIs ==
    ASSUME GlobalsAre, NEW c \in Cells(mesh)
    PROVE  AntiFunction(CellNumbers)[G(c)] = c
<1>1. DOMAIN CellNumbers = Cells(mesh) /\ \A d \in Cells(mesh) : CellNumbers[d] = G(d)
  BY DEF CellNumbers
<1>2. PICK t : t = G(c)
  OBVIOUS
<1>3. t \in Range(CellNumbers)
  BY <1>1, <1>2 DEF Range
<1>4. AntiFunction(CellNumbers)[t]
          = CHOOSE s \in Cells(mesh) : t \in Range(CellNumbers) => CellNumbers[s] = t
  BY <1>1, <1>3 DEF AntiFunction, Inverse
<1>5. \E s \in Cells(mesh) : t \in Range(CellNumbers) => CellNumbers[s] = t
  BY <1>1, <1>2
<1>6. PICK a : a = AntiFunction(CellNumbers)[t]
  OBVIOUS
<1>7. a \in Cells(mesh) /\ CellNumbers[a] = t
  BY <1>3, <1>4, <1>5, <1>6
<1>8. a = c
  BY <1>1, <1>2, <1>7, NumberFacts
<1>9. QED
  BY <1>2, <1>6, <1>8

\* a rank has its own cells first and then its ghosts, each once
LEMMA CellOfFacts ==
    ASSUME GlobalsAre, NEW r \in Procs
    PROVE  /\ NS(r) \in Nat /\ NG(r) \in Nat
           /\ \A i \in 0 .. NS(r) - 1 : /\ CellOf(r, i) \in Own(r) /\ CellOf(r, i) \in Cells(mesh)
                                        /\ Local(CellOf(r, i)) = i
                                        /\ G(CellOf(r, i)) = Offset(Sizes, r) + i
           /\ \A i \in NS(r) .. NS(r) + NG(r) - 1 :
                 /\ CellOf(r, i) = GhostAt(r, i - NS(r) + 1)
                 /\ CellOf(r, i) \in Involved(r) /\ CellOf(r, i) \in Cells(mesh)
                 /\ CellOf(r, i) \notin Own(r)
           /\ \A i, l \in NS(r) .. NS(r) + NG(r) - 1 : CellOf(r, i) = CellOf(r, l) => i = l
<1>1. NS(r) \in Nat /\ NG(r) \in Nat
  BY OwnFacts, InvolvedIs
<1>2. ASSUME NEW i \in 0 .. NS(r) - 1
      PROVE  /\ CellOf(r, i) \in Own(r) /\ CellOf(r, i) \in Cells(mesh)
             /\ Local(CellOf(r, i)) = i /\ G(CellOf(r, i)) = Offset(Sizes, r) + i
  <2>1. i < NS(r) /\ i + 1 \in 1 .. NS(r) /\ i \in Int
    BY <1>1
  <2>2. CellOf(r, i) = OwnCells(r)[i + 1]
    BY <2>1 DEF CellOf
  <2>3. CellOf(r, i) \in Own(r) /\ Local(CellOf(r, i)) = i + 1 - 1
    BY <2>1, <2>2, OwnFacts
  <2>4. CellOf(r, i) \in Cells(mesh) /\ RankOf(CellOf(r, i)) = r
    BY <2>3 DEF Own
  <2>5. i + 1 - 1 = i
    BY <2>1
  <2>6. QED
    BY <2>3, <2>4, <2>5, NumberFacts
<1>3. ASSUME NEW i \in NS(r) .. NS(r) + NG(r) - 1
      PROVE  /\ CellOf(r, i) = GhostAt(r, i - NS(r) + 1) /\ i - NS(r) + 1 \in 1 .. NG(r)
             /\ CellOf(r, i) \in Involved(r) /\ CellOf(r, i) \in Cells(mesh)
             /\ CellOf(r, i) \notin Own(r)
  <2>1. ~(i < NS(r)) /\ i - NS(r) + 1 \in 1 .. NG(r)
    BY <1>1
  <2>2. CellOf(r, i) = GhostAt(r, i - NS(r) + 1)
    BY <2>1 DEF CellOf
  <2>3. CellOf(r, i) \in Involved(r)
    BY <2>1, <2>2, RListFacts
  <2>4. QED
    BY <2>1, <2>2, <2>3, InvolvedIs DEF Own
<1>4. ASSUME NEW i \in NS(r) .. NS(r) + NG(r) - 1, NEW l \in NS(r) .. NS(r) + NG(r) - 1,
             CellOf(r, i) = CellOf(r, l)
      PROVE  i = l
  <2>1. PICK a, b : a = i - NS(r) + 1 /\ b = l - NS(r) + 1
    OBVIOUS
  <2>2. a \in 1 .. NG(r) /\ b \in 1 .. NG(r) /\ GhostAt(r, a) = GhostAt(r, b)
    BY <1>3, <1>4, <2>1
  <2>3. a = b
    <3>1. \A k \in 1 .. NG(r) :
             k = Cardinality({d \in Involved(r) : G(d) < G(GhostAt(r, k))}) + 1
      BY RListFacts
    <3>2. a = Cardinality({d \in Involved(r) : G(d) < G(GhostAt(r, a))}) + 1
      BY ONLY <2>2, <3>1
    <3>3. b = Cardinality({d \in Involved(r) : G(d) < G(GhostAt(r, b))}) + 1
      BY ONLY <2>2, <3>1
    <3>4. QED
      BY ONLY <2>2, <3>2, <3>3, Zenon
  <2>4. QED
    BY <1>1, <2>1, <2>3
<1>5. QED
  BY <1>1, <1>2, <1>3, <1>4

\* what a rank finds with the inverse are its cells
LEMMA OwnByNumber ==
    ASSUME GlobalsAre, NEW r \in Procs, NEW vec,
           \A i \in 0 .. NS(r) - 1 : vec[i] = AntiFunction(CellNumbers)[i + Offset(Sizes, r)]
    PROVE  Holds(r, vec, Itself, NS(r))
<1>1. ASSUME NEW i \in 0 .. NS(r) - 1
      PROVE  vec[i] = Itself[CellOf(r, i)]
  <2>1. PICK c, t : c = CellOf(r, i) /\ t = i + Offset(Sizes, r)
    OBVIOUS
  <2>2. c \in Cells(mesh) /\ G(c) = Offset(Sizes, r) + i
    BY <2>1, CellOfFacts
  <2>3. Offset(Sizes, r) \in Nat /\ i \in Int
    BY BeginFacts, OwnFacts
  <2>4. G(c) = t
    BY <2>1, <2>2, <2>3
  <2>5. vec[i] = AntiFunction(CellNumbers)[G(c)]
    BY ONLY <2>1, <2>4, i \in 0 .. NS(r) - 1,
            \A k \in 0 .. NS(r) - 1 : vec[k] = AntiFunction(CellNumbers)[k + Offset(Sizes, r)]
  <2>6. vec[i] = c
    BY <2>2, <2>5, InverseIs
  <2>7. QED
    BY <2>1, <2>2, <2>6 DEF Itself
<1>2. QED
  BY <1>1 DEF Holds

LEMMA MakeListsIs ==
    ASSUME SetupInv, NEW r \in Procs, MakeLists(r), UNCHANGED solver
    PROVE  SetupInv'
<1>1. At(r) = 4 /\ Made(At(r)) = 4 /\ Made(5) = 5
  <2>1. stage[r] = "rlist"
    BY DEF MakeLists
  <2>2. QED
    BY <2>1 DEF At, Place, Made
<1>2. /\ GlobalsAre /\ PostedAre(r, At(r), posted[r])
      /\ NumberedAre(r, grid[r]) /\ GhostsAre(r, grid[r], mpiparams[r])
      /\ SharedAre(r, 4, grid[r], mpiparams[r])
  BY <1>1, RankIs DEF RankOK
<1>3. /\ mpiparams[r].rcounts = RC(r) /\ mpiparams[r].scounts = RC(r)
      /\ grid[r].num_solved = NS(r) /\ grid[r].offset = Offset(Sizes, r)
      /\ grid[r].gcnum = CellNumbers
  BY <1>2 DEF GhostsAre, SharedAre, NumberedAre
<1>4. \A p \in Procs : p \in Askers(r) <=> RC(r)[p] > 0
  BY <1>3 DEF Askers
<1> DEFINE asked == [p \in Procs |-> IF p \in Askers(r) THEN Received(r, Askers(r))[p]
                                     ELSE <<>>]
           inv == [i \in 0 .. NS(r) - 1 |-> AntiFunction(CellNumbers)[i + Offset(Sizes, r)]]
<1>5. ASSUME NEW p \in Procs
      PROVE  /\ asked[p] \in Seq(Int) /\ Len(asked[p]) = RC(p)[r]
             /\ \A k \in 1 .. RC(p)[r] :
                   asked[p][k] = G(GhostAt(p, Offset(RC(p), r) + k))
  <2>1. CASE p \in Askers(r)
    <3>1. Entered(r, Askers(r)) /\ Askers(r) \subseteq Procs
      BY DEF MakeLists, Askers
    <3>2. Received(r, Askers(r))[p] = Asked(p)[r]
      BY <1>1, <2>1, <3>1, ReceivedIs DEF Gave
    <3>3. asked[p] = Segment(RList(p), RC(p), r)
      BY <2>1, <3>2 DEF Asked
    <3>4. QED
      BY <1>2, <3>3, SegmentFacts
  <2>2. CASE p \notin Askers(r)
    <3>1. RC(p)[r] = 0
      BY <1>2, <1>4, <2>2, CountsMeet, CountFacts
    <3>2. asked[p] = <<>>
      BY <2>2
    <3>3. asked[p] \in Seq(Int) /\ Len(asked[p]) = RC(p)[r]
      <4>1. PICK a, n : a = asked[p] /\ n = RC(p)[r]
        OBVIOUS
      <4>2. a = <<>> /\ n = 0
        BY ONLY <3>1, <3>2, <4>1
      <4>3. a \in Seq(Int) /\ Len(a) = n
        BY ONLY <4>2
      <4>4. QED
        BY ONLY <4>1, <4>3, Zenon
    <3>4. 1 .. RC(p)[r] = {}
      BY ONLY <3>1
    <3>5. QED
      BY ONLY <3>3, <3>4
  <2>3. QED
    BY <2>1, <2>2
<1>6. DOMAIN asked = Procs
  OBVIOUS
<1>7. PICK as : as = asked
  OBVIOUS
<1>8. Renumbered(as, Offset(Sizes, r)) = SendLists(r)
  <2>1. PICK o : o = Offset(Sizes, r)
    OBVIOUS
  <2>2. o \in Nat
    BY <1>2, <2>1, BeginFacts
  <2>3. ASSUME NEW p \in Procs
        PROVE  [k \in 1 .. Len(as[p]) |-> as[p][k] - o]
                  = [k \in 1 .. RC(p)[r] |-> Local(GhostAt(p, Offset(RC(p), r) + k))]
    <3>1. PICK n : n = RC(p)[r]
      OBVIOUS
    <3>2. Len(as[p]) = n /\ n \in Nat
      BY <1>2, <1>5, <1>7, <3>1, CountFacts
    <3>3. ASSUME NEW k \in 1 .. n
          PROVE  as[p][k] - o = Local(GhostAt(p, Offset(RC(p), r) + k))
      <4>1. PICK c : c = GhostAt(p, Offset(RC(p), r) + k)
        OBVIOUS
      <4>2. RankOf(c) = r /\ c \in Involved(p)
        BY <1>2, <3>1, <4>1, GhostFacts, RListFacts
      <4>3. c \in Cells(mesh)
        BY <1>2, <4>2, InvolvedIs
      <4>4. G(c) = o + Local(c) /\ Local(c) \in Nat
        BY <1>2, <2>1, <4>2, <4>3, NumberFacts
      <4>5. as[p][k] = G(c)
        BY <1>5, <1>7, <3>1, <4>1
      <4>6. QED
        BY ONLY <2>2, <4>1, <4>4, <4>5
    <3>4. QED
      BY ONLY <3>1, <3>2, <3>3
  <2>4. Renumbered(as, o) = [p \in Procs |-> [k \in 1 .. Len(as[p]) |-> as[p][k] - o]]
    BY <1>6, <1>7 DEF Renumbered
  <2>5. QED
    BY ONLY <2>1, <2>3, <2>4 DEF SendLists
<1>9. Holds(r, inv, Itself, NS(r))
  BY <1>2, OwnByNumber
<1>10. PICK sl, rl, ve : /\ sl = SendLists(r) /\ ve = inv
                        /\ rl = [k \in 1 .. mpiparams[r].rsize |-> grid[r].num_solved + k - 1]
  OBVIOUS
<1>11. Through(ve, sl) = Sent(r, Itself)
  BY <1>2, <1>9, <1>10, SentIs
<1>12. mpiparams' = [mpiparams EXCEPT ![r].slist = sl, ![r].rlist = rl]
  BY <1>3, <1>7, <1>8, <1>10 DEF MakeLists
<1>13. SendGhosts(r, sl, ve, "ghosts") /\ UNCHANGED grid
  BY <1>3, <1>7, <1>8, <1>10 DEF MakeLists
<1>14. Post(r, "ghosts", Sent(r, Itself))
  BY <1>11, <1>13 DEF SendGhosts, Through
<1>15. Others(r)
  <2>1. DOMAIN mpiparams' = Procs /\ \A p \in Procs \ {r} : mpiparams'[p] = mpiparams[p]
    BY <1>12, RankIs
  <2>2. DOMAIN mpiparams'[r] = DOMAIN NewMpiClass
    BY <1>12, RankIs DEF NewMpiClass
  <2>3. QED
    BY <1>13, <1>14, <2>1, <2>2, RankIs, PostLeaves DEF Others
<1>16. PICK m : m = mpiparams'[r]
  OBVIOUS
<1>17. /\ m.scounts = mpiparams[r].scounts /\ m.ssize = mpiparams[r].ssize /\ m.slist = sl
       /\ m.rcounts = mpiparams[r].rcounts /\ m.involved_node = mpiparams[r].involved_node
  BY <1>12, <1>16, RankIs DEF NewMpiClass
<1>18. PostedAre(r, 5, posted'[r])
  <2>1. Gave(r, 5, Sent(r, Itself))
    BY DEF Gave
  <2>2. Made(5) = Made(At(r)) + 1 /\ Calls[5] = "ghosts"
    BY <1>1 DEF Calls
  <2>3. QED
    BY <1>1, <1>2, <1>14, <2>1, <2>2, RankIs, PostIs
<1>19. RankOK(r, 5, posted'[r], grid'[r], m)
  <2>1. SharedAre(r, 5, grid[r], m)
    BY <1>2, <1>10, <1>17 DEF SharedAre
  <2>2. GhostsAre(r, grid[r], m)
    BY <1>2, <1>17 DEF GhostsAre
  <2>3. QED
    BY <1>2, <1>13, <1>18, <2>1, <2>2 DEF RankOK
<1>20. Place["ghosts"] = 5 /\ "ghosts" \in Stages
         /\ stage' = [stage EXCEPT ![r] = "ghosts"] /\ UNCHANGED globalVars
  BY DEF Place, Stages, MakeLists
<1>21. QED
  BY <1>15, <1>16, <1>19, <1>20, StepIs

\* every value of a cell is an integer
LEMMA ValuesAre ==
    ASSUME GlobalsAre
    PROVE  \A c \in Cells(mesh) : /\ Itself[c] = c /\ Itself[c] \in Int
                                  /\ XOf[c] = 2 * Column(mesh, c) + 1 /\ XOf[c] \in Int
                                  /\ YOf[c] = 2 * Row(mesh, c) + 1 /\ YOf[c] \in Int
                                  /\ Ones[c] = 1 /\ Ones[c] \in Int
<1>1. TAKE c \in Cells(mesh)
<1>2. c \in Nat /\ Column(mesh, c) \in Int /\ Row(mesh, c) \in Int
  BY CellFacts DEF GlobalsAre
<1>3. QED
  BY <1>2 DEF Itself, XOf, YOf, Ones

\* the local numbers that a rank gives to its ghosts, ve having their cells
Renamed(r, ve, gl) ==
    [c \in Cells(mesh) |->
        IF \E i \in NS(r) .. NS(r) + NG(r) - 1 : ve[i] = c
        THEN CHOOSE i \in NS(r) .. NS(r) + NG(r) - 1 : ve[i] = c
        ELSE gl[c]]

LEMMA RenamedIs ==
    ASSUME GlobalsAre, NEW r \in Procs, NEW ve, Holds(r, ve, Itself, NS(r) + NG(r)),
           NEW gl, \A c \in Own(r) : gl[c] = Local(c)
    PROVE  \A i \in 0 .. NS(r) + NG(r) - 1 : Renamed(r, ve, gl)[CellOf(r, i)] = i
<1>1. NS(r) \in Nat /\ NG(r) \in Nat
  BY CellOfFacts
<1>2. \A i \in 0 .. NS(r) + NG(r) - 1 : CellOf(r, i) \in Cells(mesh) /\ ve[i] = CellOf(r, i)
  <2>1. TAKE i \in 0 .. NS(r) + NG(r) - 1
  <2>2. CellOf(r, i) \in Cells(mesh)
    BY <1>1, CellOfFacts
  <2>3. ve[i] = Itself[CellOf(r, i)]
    BY <1>1 DEF Holds
  <2>4. Itself[CellOf(r, i)] = CellOf(r, i)
    BY <2>2, ValuesAre
  <2>5. QED
    BY ONLY <2>2, <2>3, <2>4
<1>3. PICK u : u = Renamed(r, ve, gl)
  OBVIOUS
<1>4. PICK I : I = NS(r) .. NS(r) + NG(r) - 1
  OBVIOUS
<1>5. \A c \in Cells(mesh) : u[c] = IF \E i \in I : ve[i] = c
                                  THEN CHOOSE i \in I : ve[i] = c ELSE gl[c]
  BY <1>3, <1>4 DEF Renamed
<1>6. \A i \in I : i \in 0 .. NS(r) + NG(r) - 1
  BY <1>1, <1>4
<1>7. ASSUME NEW i \in 0 .. NS(r) - 1
      PROVE  u[CellOf(r, i)] = i
  <2>1. i \in 0 .. NS(r) + NG(r) - 1
    BY <1>1
  <2>2. PICK c : c = CellOf(r, i)
    OBVIOUS
  <2>3. c \in Own(r) /\ c \in Cells(mesh) /\ Local(c) = i
    BY <2>2, CellOfFacts
  <2>4. ~ \E l \in I : ve[l] = c
    BY <1>2, <1>4, <1>6, <2>3, CellOfFacts
  <2>5. u[c] = gl[c]
    BY ONLY <1>5, <2>3, <2>4
  <2>6. QED
    BY <2>2, <2>3, <2>5
<1>8. ASSUME NEW i \in I
      PROVE  u[CellOf(r, i)] = i
  <2>1. PICK c : c = CellOf(r, i)
    OBVIOUS
  <2>2. c \in Cells(mesh) /\ ve[i] = c
    BY <1>2, <1>6, <2>1
  <2>3. PICK l : l = CHOOSE j \in I : ve[j] = c
    OBVIOUS
  <2>4. l \in I /\ ve[l] = c
    BY ONLY <2>2, <2>3, i \in I
  <2>5. CellOf(r, l) = CellOf(r, i)
    BY <1>2, <1>6, <2>1, <2>2, <2>4
  <2>6. l = i
    BY <1>4, <2>4, <2>5, CellOfFacts
  <2>7. u[c] = l
    BY ONLY <1>5, <2>2, <2>3, i \in I
  <2>8. QED
    BY <2>1, <2>6, <2>7
<1>9. QED
  <2>1. TAKE i \in 0 .. NS(r) + NG(r) - 1
  <2>2. i \in 0 .. NS(r) - 1 \/ i \in I
    BY <1>1, <1>4
  <2>3. u[CellOf(r, i)] = i
    BY ONLY <1>7, <1>8, <2>2
  <2>4. QED
    BY ONLY <1>3, <2>3

LEMMA PlaceGhostsIs ==
    ASSUME SetupInv, NEW r \in Procs, PlaceGhosts(r), UNCHANGED solver
    PROVE  SetupInv'
<1>1. At(r) = 5 /\ Made(At(r)) = 5 /\ Made(6) = 6
  <2>1. stage[r] = "ghosts"
    BY DEF PlaceGhosts
  <2>2. QED
    BY <2>1 DEF At, Place, Made
<1>2. /\ GlobalsAre /\ PostedAre(r, At(r), posted[r])
      /\ NumberedAre(r, grid[r]) /\ GhostsAre(r, grid[r], mpiparams[r])
      /\ SharedAre(r, 5, grid[r], mpiparams[r])
  BY <1>1, RankIs DEF RankOK
<1>3. /\ mpiparams[r].slist = SendLists(r)
      /\ grid[r].num_solved = NS(r) /\ grid[r].offset = Offset(Sizes, r)
      /\ grid[r].num_involved = NS(r) + NG(r) /\ grid[r].gcnum = CellNumbers
      /\ \A i \in 0 .. NS(r) - 1 : grid[r].local_global[i] = CellOf(r, i)
      /\ \A c \in Own(r) : grid[r].global_local[c] = Local(c)
  BY <1>2 DEF GhostsAre, SharedAre, NumberedAre
<1>4. NS(r) \in Nat /\ NG(r) \in Nat
  BY <1>2, CellOfFacts
<1> DEFINE g == grid[r]
           inv == [i \in 0 .. g.num_solved - 1 |-> AntiFunction(g.gcnum)[i + g.offset]]
           ve == Unpack(r, inv)
           ghosts == g.num_solved .. g.num_involved - 1
           lg == [i \in Cells(mesh) |-> IF i \in ghosts THEN ve[i] ELSE g.local_global[i]]
           gl == [c \in Cells(mesh) |-> IF \E i \in ghosts : ve[i] = c
                                        THEN CHOOSE i \in ghosts : ve[i] = c
                                        ELSE g.global_local[c]]
           nbrs == [i \in 0 .. g.num_solved - 1 |-> Neighbors(lg[i])]
           ns == NumNeighbors(mesh) + SumFunction([i \in DOMAIN nbrs |-> Len(nbrs[i])])
           na == Len(FlattenSeq(OwnFaces(r)))
           nb == [i \in DOMAIN nbrs |-> [k \in DOMAIN nbrs[i] |-> gl[nbrs[i][k]]]]
           lx == [i \in 0 .. g.num_solved - 1 |-> 2 * Column(mesh, lg[i]) + 1]
<1>13. grid' = [grid EXCEPT ![r].local_global = lg, ![r].global_local = gl,
                   ![r].num_faces = ns, ![r].num_attached = na,
                   ![r].cell_neighbors_local = nb, ![r].loc_x = lx]
  BY DEF PlaceGhosts
<1>14. SendGhosts(r, mpiparams[r].slist, lx, "loc_x")
  BY DEF PlaceGhosts
<1>30. ve = Unpack(r, inv) /\ \A i \in 0 .. NS(r) - 1 :
                                 inv[i] = AntiFunction(CellNumbers)[i + Offset(Sizes, r)]
  <2>1. PICK n, o : n = NS(r) /\ o = Offset(Sizes, r)
    OBVIOUS
  <2>2. g.num_solved = n /\ g.offset = o /\ g.gcnum = CellNumbers
    BY ONLY <1>3, <2>1
  <2> HIDE DEF g
  <2>3. inv = [i \in 0 .. n - 1 |-> AntiFunction(CellNumbers)[i + o]]
    BY ONLY <2>2
  <2> HIDE DEF inv
  <2>4. QED
    BY ONLY <2>1, <2>3
<1>31. ghosts = NS(r) .. NS(r) + NG(r) - 1
  <2>1. PICK n, k, l : n = NS(r) /\ k = NG(r) /\ l = grid[r].num_involved
    OBVIOUS
  <2>2. n \in Nat /\ k \in Nat /\ l = n + k /\ grid[r].num_solved = n
    BY ONLY <1>3, <1>4, <2>1
  <2>3. l - 1 = n + k - 1
    BY ONLY <2>2
  <2>4. ghosts = n .. n + k - 1
    BY ONLY <2>1, <2>2, <2>3, Zenon
  <2>5. QED
    BY ONLY <2>1, <2>4, Zenon
<1>32. /\ lg = [i \in Cells(mesh) |-> IF i \in ghosts THEN ve[i] ELSE grid[r].local_global[i]]
       /\ gl = [c \in Cells(mesh) |-> IF \E i \in ghosts : ve[i] = c
                                       THEN CHOOSE i \in ghosts : ve[i] = c
                                       ELSE grid[r].global_local[c]]
       /\ nbrs = [i \in 0 .. g.num_solved - 1 |-> Neighbors(lg[i])]
       /\ nb = ByNumber(nbrs, gl)
       /\ lx = [i \in 0 .. g.num_solved - 1 |-> 2 * Column(mesh, lg[i]) + 1]
  BY DEF ByNumber
<1>33. g.num_solved = NS(r)
  BY <1>3
<1> HIDE DEF g, inv, ve, ghosts, lg, gl, nbrs, ns, na, nb, lx
<1>7. gl = Renamed(r, ve, grid[r].global_local)
  <2>1. PICK I : I = ghosts
    OBVIOUS
  <2>2. gl = [c \in Cells(mesh) |-> IF \E i \in I : ve[i] = c
                                    THEN CHOOSE i \in I : ve[i] = c
                                    ELSE grid[r].global_local[c]]
    BY ONLY <1>32, <2>1
  <2>3. I = NS(r) .. NS(r) + NG(r) - 1
    BY ONLY <1>31, <2>1
  <2>4. Renamed(r, ve, grid[r].global_local)
           = [c \in Cells(mesh) |-> IF \E i \in I : ve[i] = c
                                    THEN CHOOSE i \in I : ve[i] = c
                                    ELSE grid[r].global_local[c]]
    BY ONLY <2>3 DEF Renamed
  <2>5. QED
    BY ONLY <2>2, <2>4
<1>6. Holds(r, ve, Itself, NS(r) + NG(r))
  <2>1. Holds(r, inv, Itself, NS(r))
    BY <1>2, <1>30, OwnByNumber
  <2>2. Comes(r, Itself)
    BY <1>1 DEF Comes, Gave
  <2>3. \A c \in Cells(mesh) : Itself[c] \in Int
    BY <1>2, ValuesAre
  <2>4. Entered(r, Owners(r))
    BY DEF PlaceGhosts
  <2>5. QED
    BY <1>1, <1>30, <2>1, <2>2, <2>3, <2>4, UnpackIs
<1>8. \A i \in 0 .. NS(r) + NG(r) - 1 : lg[i] = CellOf(r, i) /\ gl[CellOf(r, i)] = i
  <2>1. TAKE i \in 0 .. NS(r) + NG(r) - 1
  <2>2. i \in Cells(mesh)
    BY <1>2, FitFacts
  <2>3. gl[CellOf(r, i)] = i
    BY <1>2, <1>3, <1>6, <1>7, RenamedIs
  <2>4. CASE i \in NS(r) .. NS(r) + NG(r) - 1
    <3>1. CellOf(r, i) \in Cells(mesh)
      BY <1>2, <2>4, CellOfFacts
    <3>2. ve[i] = CellOf(r, i)
      <4>1. ve[i] = Itself[CellOf(r, i)]
        BY <1>4, <1>6 DEF Holds
      <4>2. Itself[CellOf(r, i)] = CellOf(r, i)
        BY <1>2, <3>1, ValuesAre
      <4>3. QED
        BY ONLY <4>1, <4>2
    <3>3. QED
      BY <1>31, <1>32, <2>2, <2>3, <2>4, <3>2
  <2>5. CASE i \notin NS(r) .. NS(r) + NG(r) - 1
    <3>1. i \in 0 .. NS(r) - 1
      BY <1>4, <2>5
    <3>2. QED
      BY <1>3, <1>31, <1>32, <2>2, <2>3, <2>5, <3>1
  <2>6. QED
    BY <2>4, <2>5
<1>9. \A i \in 0 .. NS(r) - 1 : lg[i] = CellOf(r, i) /\ CellOf(r, i) \in Cells(mesh)
  BY <1>2, <1>4, <1>8, CellOfFacts
<1>10. nb = NeighborsBy(r, gl)
  <2>1. PICK n : n = NS(r)
    OBVIOUS
  <2>2. nbrs = [i \in 0 .. n - 1 |-> Neighbors(lg[i])]
    BY ONLY <1>32, <1>33, <2>1
  <2>3. \A i \in 0 .. n - 1 : lg[i] = CellOf(r, i)
    BY ONLY <1>9, <2>1
  <2>4. nbrs = NeighborLists(r)
    BY ONLY <2>1, <2>2, <2>3 DEF NeighborLists
  <2>5. QED
    BY ONLY <1>32, <2>4 DEF NeighborsBy
<1>11. Holds(r, lx, XOf, NS(r))
  <2>1. PICK n : n = NS(r)
    OBVIOUS
  <2>2. \A i \in 0 .. n - 1 : lx[i] = 2 * Column(mesh, lg[i]) + 1
    BY ONLY <1>32, <1>33, <2>1
  <2>3. QED
    BY <1>2, <1>9, <2>1, <2>2, ValuesAre DEF Holds
<1>15. Post(r, "loc_x", Sent(r, XOf))
  <2>1. Through(lx, SendLists(r)) = Sent(r, XOf)
    BY <1>2, <1>11, SentIs
  <2>2. QED
    BY <1>3, <1>14, <2>1 DEF SendGhosts, Through
<1>16. UNCHANGED mpiparams
  BY DEF PlaceGhosts
<1>17. Others(r)
  <2>1. DOMAIN grid' = Procs /\ \A p \in Procs \ {r} : grid'[p] = grid[p]
    BY <1>13, RankIs
  <2>2. DOMAIN grid'[r] = DOMAIN NewGrid
    BY <1>13, RankIs DEF NewGrid
  <2>3. QED
    BY <1>15, <1>16, <2>1, <2>2, RankIs, PostLeaves DEF Others
<1>18. PICK h : h = grid'[r]
  OBVIOUS
<1>19. /\ h.num_solved = grid[r].num_solved /\ h.num_involved = grid[r].num_involved
       /\ h.offset = grid[r].offset /\ h.gcnum = grid[r].gcnum
       /\ h.local_global = lg /\ h.global_local = gl /\ h.cell_neighbors_local = nb
       /\ h.loc_x = lx
  BY <1>13, <1>18, RankIs DEF NewGrid
<1>20. PostedAre(r, 6, posted'[r])
  <2>1. Gave(r, 6, Sent(r, XOf))
    BY DEF Gave
  <2>2. Made(6) = Made(At(r)) + 1 /\ Calls[6] = "loc_x"
    BY <1>1 DEF Calls
  <2>3. QED
    BY <1>1, <1>2, <1>15, <2>1, <2>2, RankIs, PostIs
<1>21. RankOK(r, 6, posted'[r], h, mpiparams'[r])
  <2>1. SharedAre(r, 6, h, mpiparams[r])
    BY <1>2 DEF SharedAre
  <2>2. GhostsAre(r, h, mpiparams[r])
    BY <1>2, <1>19 DEF GhostsAre
  <2>3. NumberedAre(r, h)
    <3>1. \A c \in Own(r) : h.global_local[c] = Local(c)
      <4>1. TAKE c \in Own(r)
      <4>2. PICK i : i = Local(c)
        OBVIOUS
      <4>3. i \in 0 .. NS(r) - 1 /\ CellOf(r, i) = c
        BY <1>2, <4>2, OwnCellOf
      <4>4. i \in 0 .. NS(r) + NG(r) - 1
        BY <1>4, <4>3
      <4>5. QED
        BY <1>8, <1>19, <4>2, <4>3, <4>4
    <3>2. QED
      BY <1>3, <1>9, <1>19, <3>1 DEF NumberedAre
  <2>4. PlacedAre(r, h)
    BY <1>8, <1>10, <1>11, <1>19 DEF PlacedAre, Holds
  <2>5. QED
    BY <1>16, <1>20, <2>1, <2>2, <2>3, <2>4 DEF RankOK
<1>22. Place["loc_x"] = 6 /\ "loc_x" \in Stages
         /\ stage' = [stage EXCEPT ![r] = "loc_x"] /\ UNCHANGED globalVars
  BY DEF Place, Stages, PlaceGhosts
<1>23. QED
  BY <1>17, <1>18, <1>21, <1>22, StepIs

LEMMA LocateGhostsIs ==
    ASSUME SetupInv, NEW r \in Procs, LocateGhosts(r), UNCHANGED solver
    PROVE  SetupInv'
<1>1. At(r) = 6 /\ Made(At(r)) = 6 /\ Made(7) = 7
  <2>1. stage[r] = "loc_x"
    BY DEF LocateGhosts
  <2>2. QED
    BY <2>1 DEF At, Place, Made
<1>2. /\ GlobalsAre /\ PostedAre(r, At(r), posted[r])
      /\ NumberedAre(r, grid[r]) /\ GhostsAre(r, grid[r], mpiparams[r])
      /\ SharedAre(r, 6, grid[r], mpiparams[r]) /\ PlacedAre(r, grid[r])
  BY <1>1, RankIs DEF RankOK
<1>3. /\ mpiparams[r].slist = SendLists(r) /\ grid[r].num_solved = NS(r)
      /\ \A i \in 0 .. NS(r) - 1 : grid[r].local_global[i] = CellOf(r, i)
      /\ \A i \in 0 .. NS(r) - 1 : grid[r].loc_x[i] = XOf[CellOf(r, i)]
  BY <1>2 DEF SharedAre, NumberedAre, PlacedAre
<1> DEFINE lx == Unpack(r, grid[r].loc_x)
           ly == [i \in 0 .. grid[r].num_solved - 1 |->
                     2 * Row(mesh, grid[r].local_global[i]) + 1]
<1>4. grid' = [grid EXCEPT ![r].loc_x = lx, ![r].loc_y = ly]
  BY DEF LocateGhosts
<1>5. SendGhosts(r, mpiparams[r].slist, ly, "loc_y")
  BY DEF LocateGhosts
<1>6. Holds(r, lx, XOf, NS(r) + NG(r))
  <2>1. Holds(r, grid[r].loc_x, XOf, NS(r))
    BY <1>3 DEF Holds
  <2>2. Comes(r, XOf)
    BY <1>1 DEF Comes, Gave
  <2>3. \A c \in Cells(mesh) : XOf[c] \in Int
    BY <1>2, ValuesAre
  <2>4. Entered(r, Owners(r))
    BY DEF LocateGhosts
  <2>5. QED
    BY <1>1, <2>1, <2>2, <2>3, <2>4, UnpackIs
<1>7. Holds(r, ly, YOf, NS(r))
  <2>1. PICK n : n = NS(r)
    OBVIOUS
  <2>2. \A i \in 0 .. n - 1 : ly[i] = 2 * Row(mesh, grid[r].local_global[i]) + 1
    BY ONLY <1>3, <2>1
  <2>3. \A i \in 0 .. n - 1 : CellOf(r, i) \in Cells(mesh)
    BY <1>2, <2>1, CellOfFacts
  <2>4. \A i \in 0 .. n - 1 : YOf[CellOf(r, i)] = 2 * Row(mesh, CellOf(r, i)) + 1
    BY <1>2, <2>3, ValuesAre
  <2>5. \A i \in 0 .. n - 1 : ly[i] = YOf[CellOf(r, i)]
    BY ONLY <1>3, <2>1, <2>2, <2>4
  <2>6. QED
    BY ONLY <2>1, <2>5 DEF Holds
<1> HIDE DEF lx, ly
<1>8. Post(r, "loc_y", Sent(r, YOf)) /\ UNCHANGED mpiparams
  <2>1. Through(ly, SendLists(r)) = Sent(r, YOf)
    BY <1>2, <1>7, SentIs
  <2>2. QED
    BY <1>3, <1>5, <2>1 DEF SendGhosts, Through, LocateGhosts
<1>9. Others(r)
  <2>1. DOMAIN grid' = Procs /\ \A p \in Procs \ {r} : grid'[p] = grid[p]
    BY <1>4, RankIs
  <2>2. DOMAIN grid'[r] = DOMAIN NewGrid
    BY <1>4, RankIs DEF NewGrid
  <2>3. QED
    BY <1>8, <2>1, <2>2, RankIs, PostLeaves DEF Others
<1>10. PICK g : g = grid'[r]
  OBVIOUS
<1>11. /\ g.num_solved = grid[r].num_solved /\ g.num_involved = grid[r].num_involved
       /\ g.offset = grid[r].offset /\ g.gcnum = grid[r].gcnum
       /\ g.local_global = grid[r].local_global /\ g.global_local = grid[r].global_local
       /\ g.cell_neighbors_local = grid[r].cell_neighbors_local
       /\ g.loc_x = lx /\ g.loc_y = ly
  BY <1>4, <1>10, RankIs DEF NewGrid
<1>12. PostedAre(r, 7, posted'[r])
  <2>1. Gave(r, 7, Sent(r, YOf))
    BY DEF Gave
  <2>2. Made(7) = Made(At(r)) + 1 /\ Calls[7] = "loc_y"
    BY <1>1 DEF Calls
  <2>3. QED
    BY <1>1, <1>2, <1>8, <2>1, <2>2, RankIs, PostIs
<1>13. RankOK(r, 7, posted'[r], g, mpiparams'[r])
  <2>1. SharedAre(r, 7, g, mpiparams[r])
    BY <1>2 DEF SharedAre
  <2>2. GhostsAre(r, g, mpiparams[r])
    BY <1>2, <1>11 DEF GhostsAre
  <2>3. NumberedAre(r, g)
    BY <1>2, <1>11 DEF NumberedAre
  <2>4. NS(r) \in Nat /\ NG(r) \in Nat
    BY <1>2, CellOfFacts
  <2>5. \A i \in 0 .. NS(r) - 1 : g.loc_x[i] = XOf[CellOf(r, i)]
    BY <1>6, <1>11, <2>4 DEF Holds
  <2>6. PlacedAre(r, g)
    BY <1>2, <1>11, <2>5 DEF PlacedAre
  <2>7. LocatedAre(r, g)
    BY <1>6, <1>7, <1>11, <2>4 DEF LocatedAre, Holds
  <2>8. QED
    BY <1>8, <1>12, <2>1, <2>2, <2>3, <2>6, <2>7 DEF RankOK
<1>14. Place["loc_y"] = 7 /\ "loc_y" \in Stages
         /\ stage' = [stage EXCEPT ![r] = "loc_y"] /\ UNCHANGED globalVars
  BY DEF Place, Stages, LocateGhosts
<1>15. QED
  BY <1>9, <1>10, <1>13, <1>14, StepIs

LEMMA LayOutFacesIs ==
    ASSUME SetupInv, NEW r \in Procs, LayOutFaces(r), UNCHANGED solver
    PROVE  SetupInv'
<1>1. At(r) = 7 /\ Made(At(r)) = 7 /\ Made(8) = 7
  <2>1. stage[r] = "loc_y"
    BY DEF LayOutFaces
  <2>2. QED
    BY <2>1 DEF At, Place, Made
<1>2. /\ GlobalsAre /\ PostedAre(r, At(r), posted[r])
      /\ NumberedAre(r, grid[r]) /\ GhostsAre(r, grid[r], mpiparams[r])
      /\ SharedAre(r, 7, grid[r], mpiparams[r]) /\ PlacedAre(r, grid[r])
      /\ LocatedAre(r, grid[r])
  BY <1>1, RankIs DEF RankOK
<1>3. /\ grid[r].num_solved = NS(r) /\ grid[r].num_involved = NS(r) + NG(r)
      /\ \A i \in 0 .. NS(r) - 1 : grid[r].loc_y[i] = YOf[CellOf(r, i)]
      /\ \A i \in 0 .. NS(r) + NG(r) - 1 : grid[r].loc_x[i] = XOf[CellOf(r, i)]
  BY <1>2 DEF GhostsAre, NumberedAre, LocatedAre
<1> DEFINE ly == Unpack(r, grid[r].loc_y)
           xcen == [i \in 0 .. grid[r].num_involved - 1 |-> <<grid[r].loc_x[i], ly[i]>>]
           lists == [b \in 1 .. 4 |-> BoundaryList(r, b, xcen)]
           bo == FlattenSeq(lists)
           se == StartAndEnd(lists)
           fl == [i \in 0 .. grid[r].num_solved - 1 |->
                    [k \in DOMAIN grid[r].cell_neighbors_local[i] |->
                        LET right == grid[r].cell_neighbors_local[i][k]
                        IN  InnerFace(<<xcen[right][1] - xcen[i][1],
                                        xcen[right][2] - xcen[i][2]>>)]]
<1>4. grid' = [grid EXCEPT ![r].xcen_local = xcen, ![r].boundary = bo,
                  ![r].boundary_type_start_and_end_index = se, ![r].face_local = fl]
  BY DEF LayOutFaces
<1>5. UNCHANGED <<posted, mpiparams>>
  BY DEF LayOutFaces
<1>6. Holds(r, ly, YOf, NS(r) + NG(r))
  <2>1. Holds(r, grid[r].loc_y, YOf, NS(r))
    BY <1>3 DEF Holds
  <2>2. Comes(r, YOf)
    BY <1>1 DEF Comes, Gave
  <2>3. \A c \in Cells(mesh) : YOf[c] \in Int
    BY <1>2, ValuesAre
  <2>4. Entered(r, Owners(r))
    BY DEF LayOutFaces
  <2>5. QED
    BY <1>1, <2>1, <2>2, <2>3, <2>4, UnpackIs
<1> HIDE DEF ly, bo, se, fl
<1>7. \A i \in 0 .. NS(r) + NG(r) - 1 : xcen[i] = <<XOf[CellOf(r, i)], YOf[CellOf(r, i)]>>
  <2>1. PICK n : n = NS(r) + NG(r)
    OBVIOUS
  <2>2. NS(r) \in Nat /\ NG(r) \in Nat /\ n \in Nat
    BY <1>2, <2>1, CellOfFacts
  <2>3. \A i \in 0 .. n - 1 : /\ grid[r].loc_x[i] = XOf[CellOf(r, i)]
                              /\ ly[i] = YOf[CellOf(r, i)]
    BY <1>3, <1>6, <2>1, <2>2 DEF Holds
  <2>4. xcen = [i \in 0 .. n - 1 |-> <<grid[r].loc_x[i], ly[i]>>]
    BY ONLY <1>3, <2>1
  <2>5. \A i \in 0 .. n - 1 : xcen[i] = <<XOf[CellOf(r, i)], YOf[CellOf(r, i)]>>
    BY ONLY <2>3, <2>4
  <2> HIDE DEF xcen
  <2>6. QED
    BY ONLY <2>1, <2>2, <2>5
<1> HIDE DEF xcen
<1>8. Others(r)
  <2>1. DOMAIN grid' = Procs /\ \A p \in Procs \ {r} : grid'[p] = grid[p]
    BY <1>4, RankIs
  <2>2. DOMAIN grid'[r] = DOMAIN NewGrid
    BY <1>4, RankIs DEF NewGrid
  <2>3. QED
    BY <1>5, <2>1, <2>2, RankIs DEF Others
<1>9. PICK g : g = grid'[r]
  OBVIOUS
<1>10. /\ g.num_solved = grid[r].num_solved /\ g.num_involved = grid[r].num_involved
       /\ g.offset = grid[r].offset /\ g.gcnum = grid[r].gcnum
       /\ g.local_global = grid[r].local_global /\ g.global_local = grid[r].global_local
       /\ g.cell_neighbors_local = grid[r].cell_neighbors_local
       /\ g.loc_x = grid[r].loc_x /\ g.loc_y = grid[r].loc_y /\ g.xcen_local = xcen
  BY <1>4, <1>9, RankIs DEF NewGrid
<1>11. PostedAre(r, 8, posted[r])
  BY <1>1, <1>2 DEF PostedAre
<1>12. RankOK(r, 8, posted'[r], g, mpiparams'[r])
  <2>1. SharedAre(r, 8, g, mpiparams[r])
    BY <1>2 DEF SharedAre
  <2>2. GhostsAre(r, g, mpiparams[r])
    BY <1>2, <1>10 DEF GhostsAre
  <2>3. NumberedAre(r, g)
    BY <1>2, <1>10 DEF NumberedAre
  <2>4. PlacedAre(r, g)
    BY <1>2, <1>10 DEF PlacedAre
  <2>5. LocatedAre(r, g)
    BY <1>2, <1>10 DEF LocatedAre
  <2>6. CentresAre(r, g)
    BY <1>7, <1>10 DEF CentresAre
  <2>7. QED
    BY <1>5, <1>11, <2>1, <2>2, <2>3, <2>4, <2>5, <2>6 DEF RankOK
<1>13. Place["grid"] = 8 /\ "grid" \in Stages
         /\ stage' = [stage EXCEPT ![r] = "grid"] /\ UNCHANGED globalVars
  BY DEF Place, Stages, LayOutFaces
<1>14. QED
  BY <1>8, <1>9, <1>12, <1>13, StepIs

LEMMA StartSolverIs ==
    ASSUME SetupInv, NEW r \in Procs, StartSolver(r)
    PROVE  SetupInv'
<1>1. At(r) = 8 /\ Made(At(r)) = 7 /\ Made(9) = 8
  <2>1. stage[r] = "grid"
    BY DEF StartSolver
  <2>2. QED
    BY <2>1 DEF At, Place, Made
<1>2. /\ GlobalsAre /\ PostedAre(r, At(r), posted[r])
      /\ NumberedAre(r, grid[r]) /\ GhostsAre(r, grid[r], mpiparams[r])
      /\ SharedAre(r, 8, grid[r], mpiparams[r]) /\ PlacedAre(r, grid[r])
      /\ LocatedAre(r, grid[r]) /\ CentresAre(r, grid[r])
  BY <1>1, RankIs DEF RankOK
<1>3. mpiparams[r].slist = SendLists(r) /\ grid[r].num_solved = NS(r)
  BY <1>2 DEF SharedAre, NumberedAre
<1> DEFINE ia == Ia(r)
           ja == Ja(r)
           cx == CsrIdx(r, ia, ja)
           qb == [k \in Attached(r) |-> SideValue[SideOf(r, k)]]
           one == [i \in Solved(r) |-> 1]
<1>4. solver' = [solver EXCEPT ![r].ia_local = ia, ![r].ja_local = ja,
                    ![r].csr_idx_local = cx, ![r].Q_boundary_local = qb]
  BY DEF StartSolver
<1>5. SendGhosts(r, mpiparams[r].slist, one, "Q_cell_local") /\ UNCHANGED <<grid, mpiparams>>
  BY DEF StartSolver
<1>6. Holds(r, one, Ones, NS(r))
  <2>1. PICK n : n = NS(r)
    OBVIOUS
  <2>2. Solved(r) = 0 .. n - 1
    BY ONLY <1>3, <2>1 DEF Solved
  <2>3. \A i \in 0 .. n - 1 : one[i] = 1
    BY ONLY <2>2
  <2>4. \A i \in 0 .. n - 1 : CellOf(r, i) \in Cells(mesh)
    BY <1>2, <2>1, CellOfFacts
  <2>5. \A i \in 0 .. n - 1 : one[i] = Ones[CellOf(r, i)]
    BY <1>2, <2>3, <2>4, ValuesAre
  <2> HIDE DEF one
  <2>6. QED
    BY ONLY <2>1, <2>5 DEF Holds
<1> HIDE DEF ia, ja, cx, qb, one
<1>7. Post(r, "Q_cell_local", Sent(r, Ones))
  <2>1. Through(one, SendLists(r)) = Sent(r, Ones)
    BY <1>2, <1>6, SentIs
  <2>2. QED
    BY <1>3, <1>5, <2>1 DEF SendGhosts, Through
<1>8. Others(r)
  <2>1. DOMAIN solver' = Procs /\ \A p \in Procs \ {r} : solver'[p] = solver[p]
    BY <1>4, RankIs
  <2>2. DOMAIN solver'[r] = DOMAIN NewSolver
    BY <1>4, RankIs DEF NewSolver
  <2>3. QED
    BY <1>5, <1>7, <2>1, <2>2, RankIs, PostLeaves DEF Others
<1>9. PostedAre(r, 9, posted'[r])
  <2>1. Gave(r, 8, Sent(r, Ones))
    BY DEF Gave
  <2>2. Made(9) = Made(At(r)) + 1 /\ Calls[8] = "Q_cell_local"
    BY <1>1 DEF Calls
  <2>3. QED
    BY <1>1, <1>2, <1>7, <2>1, <2>2, RankIs, PostIs
<1>10. RankOK(r, 9, posted'[r], grid'[r], mpiparams'[r])
  <2>1. SharedAre(r, 9, grid[r], mpiparams[r])
    BY <1>2 DEF SharedAre
  <2>2. QED
    BY <1>2, <1>5, <1>9, <2>1 DEF RankOK
<1>11. Place["Q_cell_local"] = 9 /\ "Q_cell_local" \in Stages
         /\ stage' = [stage EXCEPT ![r] = "Q_cell_local"] /\ UNCHANGED globalVars
  BY DEF Place, Stages, StartSolver
<1>12. QED
  BY <1>8, <1>10, <1>11, StepIs

LEMMA LimitTimeStepIs ==
    ASSUME SetupInv, NEW r \in Procs, LimitTimeStep(r)
    PROVE  SetupInv'
<1>1. At(r) = 9 /\ Made(At(r)) = 8 /\ Made(10) = 9
  <2>1. stage[r] = "Q_cell_local"
    BY DEF LimitTimeStep
  <2>2. QED
    BY <2>1 DEF At, Place, Made
<1>2. /\ GlobalsAre /\ PostedAre(r, At(r), posted[r])
      /\ NumberedAre(r, grid[r]) /\ GhostsAre(r, grid[r], mpiparams[r])
      /\ SharedAre(r, 9, grid[r], mpiparams[r]) /\ PlacedAre(r, grid[r])
      /\ LocatedAre(r, grid[r]) /\ CentresAre(r, grid[r])
  BY <1>1, RankIs DEF RankOK
<1> DEFINE q == Unpack(r, [i \in Solved(r) |-> 1])
           to == ToAll(MinValue(r))
<1>3. solver' = [solver EXCEPT ![r].Q_cell_local = q]
  BY DEF LimitTimeStep
<1>4. Post(r, "min_value", to) /\ UNCHANGED <<grid, mpiparams>>
  BY DEF LimitTimeStep
<1> HIDE DEF q, to
<1>5. Others(r)
  <2>1. DOMAIN solver' = Procs /\ \A p \in Procs \ {r} : solver'[p] = solver[p]
    BY <1>3, RankIs
  <2>2. DOMAIN solver'[r] = DOMAIN NewSolver
    BY <1>3, RankIs DEF NewSolver
  <2>3. QED
    BY <1>4, <2>1, <2>2, RankIs, PostLeaves DEF Others
<1>6. PostedAre(r, 10, posted'[r])
  <2>1. Gave(r, 9, to)
    BY DEF Gave
  <2>2. Made(10) = Made(At(r)) + 1 /\ Calls[9] = "min_value"
    BY <1>1 DEF Calls
  <2>3. QED
    BY <1>1, <1>2, <1>4, <2>1, <2>2, RankIs, PostIs
<1>7. RankOK(r, 10, posted'[r], grid'[r], mpiparams'[r])
  <2>1. SharedAre(r, 10, grid[r], mpiparams[r])
    BY <1>2 DEF SharedAre
  <2>2. QED
    BY <1>2, <1>4, <1>6, <2>1 DEF RankOK
<1>8. Place["min_value"] = 10 /\ "min_value" \in Stages
         /\ stage' = [stage EXCEPT ![r] = "min_value"] /\ UNCHANGED globalVars
  BY DEF Place, Stages, LimitTimeStep
<1>9. QED
  BY <1>5, <1>7, <1>8, StepIs

LEMMA ComputeSystemIs ==
    ASSUME SetupInv, NEW r \in Procs, ComputeSystem(r)
    PROVE  SetupInv'
<1>1. At(r) = 10 /\ Made(At(r)) = 9 /\ Made(11) = 9
  <2>1. stage[r] = "min_value"
    BY DEF ComputeSystem
  <2>2. QED
    BY <2>1 DEF At, Place, Made
<1>2. /\ GlobalsAre /\ PostedAre(r, At(r), posted[r])
      /\ NumberedAre(r, grid[r]) /\ GhostsAre(r, grid[r], mpiparams[r])
      /\ SharedAre(r, 10, grid[r], mpiparams[r]) /\ PlacedAre(r, grid[r])
      /\ LocatedAre(r, grid[r]) /\ CentresAre(r, grid[r])
  BY <1>1, RankIs DEF RankOK
<1> DEFINE dt == Reduced(r, Received(r, Procs))
           rd == InnerRdista(r)
           br == BoundaryRdista(r)
           ad == [n \in 0 .. Len(solver[r].ja_local) - 1 |-> Coefficient(r, n, solver[r], rd, br)]
<1>3. solver' = [solver EXCEPT ![r].delta_t = dt, ![r].rdista_local = rd,
                    ![r].boundary_rdista_local = br, ![r].A_data_local = ad]
  BY DEF ComputeSystem
<1>4. UNCHANGED <<posted, grid, mpiparams>>
  BY DEF ComputeSystem
<1> HIDE DEF dt, rd, br, ad
<1>5. Others(r)
  <2>1. DOMAIN solver' = Procs /\ \A p \in Procs \ {r} : solver'[p] = solver[p]
    BY <1>3, RankIs
  <2>2. DOMAIN solver'[r] = DOMAIN NewSolver
    BY <1>3, RankIs DEF NewSolver
  <2>3. QED
    BY <1>4, <2>1, <2>2, RankIs DEF Others
<1>6. PostedAre(r, 11, posted[r])
  BY <1>1, <1>2 DEF PostedAre
<1>7. RankOK(r, 11, posted'[r], grid'[r], mpiparams'[r])
  <2>1. SharedAre(r, 11, grid[r], mpiparams[r])
    BY <1>2 DEF SharedAre
  <2>2. QED
    BY <1>2, <1>4, <1>6, <2>1 DEF RankOK
<1>8. Place["ready"] = 11 /\ "ready" \in Stages
         /\ stage' = [stage EXCEPT ![r] = "ready"] /\ UNCHANGED globalVars
  BY DEF Place, Stages, ComputeSystem
<1>9. QED
  BY <1>5, <1>7, <1>8, StepIs

LEMMA SetupStarts ==
    ASSUME Init
    PROVE  SetupInv
<1>1. GlobalsAre
  <2>1. mesh \in Meshes
    BY DEF Init, GridInit
  <2>2. IsMesh(mesh)
    BY <2>1, MeshesAssumption DEF IsMesh
  <2>3. QED
    BY <2>2 DEF GlobalsAre, Init, GridInit
<1>2. /\ DOMAIN stage = Procs /\ DOMAIN posted = Procs
      /\ DOMAIN grid = Procs /\ DOMAIN mpiparams = Procs /\ DOMAIN solver = Procs
  BY DEF Init, GridInit
<1>3. ASSUME NEW r \in Procs
      PROVE  ShapeOK(r) /\ RankOK(r, At(r), posted[r], grid[r], mpiparams[r])
  <2>1. /\ stage[r] = "start" /\ posted[r] = <<>> /\ grid[r] = NewGrid
        /\ mpiparams[r] = NewMpiClass /\ solver[r] = NewSolver
    BY DEF Init, GridInit
  <2>2. ShapeOK(r)
    BY <2>1 DEF ShapeOK, Stages
  <2>3. At(r) = 0
    BY <2>1 DEF At, Place
  <2>4. PostedAre(r, 0, posted[r])
    BY <2>1 DEF PostedAre, Made
  <2>5. QED
    BY <2>2, <2>3, <2>4 DEF RankOK, SharedAre
<1>4. QED
  BY <1>1, <1>2, <1>3 DEF SetupInv

LEMMA SetupGoesOn ==
    ASSUME SetupInv, [Next]_vars
    PROVE  SetupInv'
<1>1. CASE UNCHANGED vars
  <2>1. UNCHANGED globalVars
    BY <1>1 DEF vars, gridVars, globalVars
  <2>2. UNCHANGED <<stage, posted, grid, mpiparams, solver>>
    BY <1>1 DEF vars, gridVars
  <2>3. Procs' = Procs /\ GlobalsAre'
    BY <2>1, Steady DEF SetupInv
  <2>4. ASSUME NEW p \in Procs
        PROVE  RankOK(p, At(p), posted[p], grid[p], mpiparams[p])'
    <3>1. PICK a, qo, h, n : a = At(p) /\ qo = posted[p] /\ h = grid[p] /\ n = mpiparams[p]
      OBVIOUS
    <3>2. RankOK(p, At(p), posted[p], grid[p], mpiparams[p])
      BY DEF SetupInv
    <3>3. RankOK(p, a, qo, h, n)
      BY ONLY <3>1, <3>2, Zenon
    <3>4. a = At(p)' /\ qo = posted'[p] /\ h = grid'[p] /\ n = mpiparams'[p]
      BY <2>2, <3>1 DEF At
    <3>5. QED
      BY ONLY <2>1, <3>3, <3>4, RanksGoOn
  <2>5. \A p \in Procs : ShapeOK(p)'
    BY <2>2 DEF SetupInv, ShapeOK
  <2>6. QED
    BY <2>2, <2>3, <2>4, <2>5 DEF SetupInv
<1>2. CASE Next
  <2>1. PICK r \in Procs : Step(r)
    BY <1>2 DEF Next
  <2>2. QED
    BY <2>1, NumberCellsIs, FindGhostsIs, CountGhostsIs, AskOwnersIs, MakeListsIs,
       PlaceGhostsIs, LocateGhostsIs, LayOutFacesIs, StartSolverIs, LimitTimeStepIs,
       ComputeSystemIs DEF Step, GridStep, SolverStep
<1>3. QED
  BY <1>1, <1>2

\* At every moment, as far as a rank has come: its arrays are what the mesh and the
\* stripes say they should be, and it has given its collective calls what the others
\* count on (Grid::generate_grid, Grid::assign_mpi_grid, setup_matrix_struct).
THEOREM SetupInvHolds == Spec => []SetupInv
<1>1. QED
  BY SetupStarts, SetupGoesOn, PTL DEF Spec

-----------------------------------------------------------------------------
(* What follows from it.                                                    *)

LEMMA PastIs ==
    ASSUME SetupInv, NEW r \in Procs, NEW call, Past(r, call)
    PROVE  At(r) > Place[call]
<1>1. /\ DOMAIN CollectiveCalls = 1 .. 12
      /\ \A a \in 1 .. 12 : Place[CollectiveCalls[a]] = a - 1
  BY DEF CollectiveCalls, Place
<1>2. PICK a \in 1 .. 12, b \in 1 .. 12 :
         a < b /\ CollectiveCalls[a] = call /\ CollectiveCalls[b] = stage[r]
  BY <1>1 DEF Past
<1>3. At(r) = b - 1 /\ Place[call] = a - 1
  BY <1>1, <1>2 DEF At
<1>4. QED
  BY <1>2, <1>3

\* how many calls a rank has made tells how far it is
LEMMA MadeIs ==
    ASSUME SetupInv, NEW r \in Procs
    PROVE  /\ DOMAIN posted[r] = 1 .. Made(At(r)) /\ Made(At(r)) <= 9
           /\ At(r) < 8 => Made(At(r)) = At(r)
           /\ \A k \in 1 .. Made(At(r)) : k <= At(r)
           /\ \A k \in DOMAIN posted[r] : /\ k \in 1 .. 9 /\ k <= At(r)
                                          /\ posted[r][k].call = Calls[k]
                                          /\ Gave(r, k, posted[r][k].to)
<1>1. At(r) \in 0 .. 11 /\ PostedAre(r, At(r), posted[r])
  BY RankIs DEF RankOK
<1>2. DOMAIN posted[r] = 1 .. Made(At(r))
  BY <1>1 DEF PostedAre
<1>3. Made(At(r)) <= 9 /\ Made(At(r)) \in Nat /\ (At(r) < 8 => Made(At(r)) = At(r))
         /\ Made(At(r)) <= At(r)
  BY <1>1 DEF Made
<1>4. QED
  BY <1>1, <1>2, <1>3 DEF PostedAre

LEMMA CollectivesFollow ==
    ASSUME SetupInv
    PROVE  CollectivesMatch
<1>1. SUFFICES ASSUME NEW p \in Procs, NEW q \in Procs,
                      NEW k \in DOMAIN posted[p] \intersect DOMAIN posted[q]
               PROVE  /\ posted[p][k].call = posted[q][k].call
                      /\ posted[p][k].call = "rlist" =>
                             Len(posted[p][k].to[q]) = mpiparams[q].scounts[p]
                      /\ posted[p][k].call \in {"ghosts", "loc_x", "loc_y", "Q_cell_local"} =>
                             Len(posted[p][k].to[q]) = mpiparams[q].rcounts[p]
  BY DEF CollectivesMatch
<1>2. /\ k \in 1 .. 9 /\ k <= At(q) /\ posted[p][k].call = Calls[k]
      /\ posted[q][k].call = Calls[k] /\ Gave(p, k, posted[p][k].to)
  BY <1>1, MadeIs
<1>3. GlobalsAre /\ At(q) \in 0 .. 11 /\ RankOK(q, At(q), posted[q], grid[q], mpiparams[q])
  BY RankIs
<1>4. RC(q)[p] = RC(p)[q] /\ RC(q)[p] \in Nat
  BY <1>3, CountsMeet, CountFacts
<1>5. ASSUME posted[p][k].call = "rlist"
      PROVE  Len(posted[p][k].to[q]) = mpiparams[q].scounts[p]
  <2>1. k = 4
    BY <1>2, <1>5 DEF Calls
  <2>2. posted[p][k].to[q] = Segment(RList(p), RC(p), q)
    BY <1>2, <2>1 DEF Gave, Asked
  <2>3. Len(posted[p][k].to[q]) = RC(p)[q]
    BY <1>3, <2>2, SegmentFacts
  <2>4. mpiparams[q].scounts = RC(q)
    BY <1>2, <1>3, <2>1 DEF RankOK, SharedAre
  <2>5. QED
    BY <1>4, <2>3, <2>4
<1>6. ASSUME posted[p][k].call \in {"ghosts", "loc_x", "loc_y", "Q_cell_local"}
      PROVE  Len(posted[p][k].to[q]) = mpiparams[q].rcounts[p]
  <2>1. k \in 5 .. 8
    BY <1>2, <1>6 DEF Calls
  <2>2. PICK val : posted[p][k].to = Sent(p, val)
    BY <1>2, <2>1 DEF Gave
  <2>3. PICK n : n = RC(q)[p]
    OBVIOUS
  <2>4. posted[p][k].to[q] = [j \in 1 .. n |-> val[GhostAt(q, Offset(RC(q), p) + j)]]
    BY <2>2, <2>3 DEF Sent
  <2>5. Len(posted[p][k].to[q]) = n
    BY ONLY <1>4, <2>3, <2>4
  <2>6. mpiparams[q].rcounts = RC(q)
    BY <1>2, <1>3, <2>1 DEF RankOK, GhostsAre
  <2>7. QED
    BY <2>3, <2>5, <2>6
<1>7. QED
  BY <1>2, <1>5, <1>6

LEMMA ListsFit ==
    ASSUME SetupInv
    PROVE  SendListsFit
<1>1. SUFFICES ASSUME NEW r \in Procs, Past(r, "rlist")
               PROVE  /\ mpiparams[r].ssize <= mpiparams[r].involved_node
                      /\ \A p \in Procs : ToSet(mpiparams[r].slist[p]) \subseteq Solved(r)
  BY DEF SendListsFit
<1>2. At(r) \in 5 .. 11
  BY <1>1, PastIs, RankIs DEF Place
<1>3. /\ GlobalsAre /\ NumberedAre(r, grid[r]) /\ GhostsAre(r, grid[r], mpiparams[r])
      /\ SharedAre(r, At(r), grid[r], mpiparams[r])
  BY <1>2, RankIs DEF RankOK
<1>4. mpiparams[r].ssize = NG(r) /\ mpiparams[r].involved_node = NG(r) /\ NG(r) \in Nat
  BY <1>2, <1>3, InvolvedIs DEF SharedAre, GhostsAre
<1>5. mpiparams[r].slist = SendLists(r) /\ Solved(r) = 0 .. NS(r) - 1
  BY <1>2, <1>3 DEF SharedAre, NumberedAre, Solved
<1>6. ASSUME NEW p \in Procs, NEW x \in ToSet(mpiparams[r].slist[p])
      PROVE  x \in Solved(r)
  <2>1. PICK n : n = RC(p)[r]
    OBVIOUS
  <2>2. mpiparams[r].slist[p] = [k \in 1 .. n |-> Local(GhostAt(p, Offset(RC(p), r) + k))]
    BY <1>5, <2>1 DEF SendLists
  <2>3. PICK k \in 1 .. n : x = Local(GhostAt(p, Offset(RC(p), r) + k))
    BY <2>2 DEF ToSet
  <2>4. PICK c : c = GhostAt(p, Offset(RC(p), r) + k)
    OBVIOUS
  <2>5. RankOf(c) = r /\ c \in Involved(p)
    BY <1>3, <2>1, <2>4, GhostFacts, RListFacts
  <2>6. c \in Own(r)
    BY <1>3, <2>5, InvolvedIs DEF Own
  <2>7. QED
    BY <1>3, <1>5, <2>3, <2>4, <2>6, OwnFacts
<1>7. QED
  BY <1>4, <1>6

LEMMA OwnersFollow ==
    ASSUME SetupInv
    PROVE  GhostsAreTheirOwners
<1>1. SUFFICES ASSUME NEW r \in Procs, Past(r, "loc_y"),
                      NEW i \in 0 .. grid[r].num_involved - 1,
                      NEW c, c = grid[r].local_global[i]
               PROVE  grid[r].xcen_local[i]
                         = <<2 * Column(mesh, c) + 1, 2 * Row(mesh, c) + 1>>
  BY DEF GhostsAreTheirOwners
<1>2. At(r) \in 8 .. 11
  BY <1>1, PastIs, RankIs DEF Place
<1>3. /\ GlobalsAre /\ GhostsAre(r, grid[r], mpiparams[r]) /\ PlacedAre(r, grid[r])
      /\ CentresAre(r, grid[r])
  BY <1>2, RankIs DEF RankOK
<1>4. NS(r) \in Nat /\ NG(r) \in Nat
  BY <1>3, CellOfFacts
<1>5. i \in 0 .. NS(r) + NG(r) - 1
  BY <1>3, <1>4 DEF GhostsAre
<1>6. c = CellOf(r, i)
  BY <1>1, <1>3, <1>5 DEF PlacedAre
<1>7. grid[r].xcen_local[i] = <<XOf[c], YOf[c]>>
  BY <1>3, <1>5, <1>6 DEF CentresAre
<1>8. c \in Cells(mesh)
  BY <1>3, <1>4, <1>5, <1>6, CellOfFacts
<1>9. QED
  BY <1>3, <1>7, <1>8, ValuesAre

\* of the ranks one has come the least far
LEMMA OneIsLeastFar ==
    ASSUME SetupInv, Procs # {}
    PROVE  \E r \in Procs : \A p \in Procs : At(r) <= At(p)
<1> DEFINE T == {At(p) : p \in Procs}
<1>1. \A p \in Procs : At(p) \in Nat
  BY RankIs
<1>2. T \subseteq Nat /\ T # {}
  BY <1>1
<1>3. PICK n \in T : \A m \in T : ~(<<m, n>> \in OpToRel(<, Nat))
  <2> HIDE DEF T
  <2>1. QED
    BY <1>2, WFMin, NatLessThanWellFounded
<1>4. PICK r \in Procs : n = At(r)
  BY <1>3
<1>5. ASSUME NEW p \in Procs
      PROVE  At(r) <= At(p)
  <2>1. At(p) \in T /\ At(p) \in Nat /\ n \in Nat
    BY <1>1, <1>4
  <2>2. ~(At(p) < n)
    BY <1>3, <2>1 DEF OpToRel
  <2>3. QED
    BY <1>4, <2>1, <2>2
<1>6. QED
  BY <1>5

\* While the set up goes on, one of the ranks that are not through it is in no call that
\* some rank has still to make.
SomeRankSetsUp ==
    (\E r \in Procs : stage[r] # "ready") =>
        \E r \in Procs : stage[r] # "ready" /\ Entered(r, Procs)

LEMMA LeastFarGoesOn ==
    ASSUME SetupInv
    PROVE  SomeRankSetsUp
<1>1. SUFFICES ASSUME NEW q \in Procs, stage[q] # "ready"
               PROVE  \E r \in Procs : stage[r] # "ready" /\ Entered(r, Procs)
  BY DEF SomeRankSetsUp
<1>2. PICK r \in Procs : \A p \in Procs : At(r) <= At(p)
  BY OneIsLeastFar
<1>3. stage[r] # "ready"
  <2>1. stage[q] \in Stages /\ At(q) \in 0 .. 11
    BY RankIs DEF SetupInv, ShapeOK
  <2>2. At(q) < 11
    BY <1>1, <2>1 DEF At, Stages, Place
  <2>3. At(r) \in 0 .. 11 /\ At(r) <= At(q)
    BY <1>2, RankIs
  <2>4. At(r) # 11
    BY <2>1, <2>2, <2>3
  <2>5. QED
    BY <2>4 DEF At, Place
<1>4. ASSUME NEW p \in Procs
      PROVE  Len(posted[p]) = Made(At(p))
  <2>1. PICK n, s : n = Made(At(p)) /\ s = posted[p]
    OBVIOUS
  <2>2. n \in Nat /\ s = [k \in 1 .. n |-> s[k]]
    BY <2>1, RankIs DEF RankOK, PostedAre
  <2>3. Len(s) = n
    BY ONLY <2>2
  <2>4. QED
    BY <2>1, <2>3
<1>5. ASSUME NEW p \in Procs
      PROVE  Len(posted[p]) >= Len(posted[r])
  <2>1. At(p) \in 0 .. 11 /\ At(r) \in 0 .. 11 /\ At(r) <= At(p)
    BY <1>2, RankIs
  <2>2. Made(At(r)) <= Made(At(p))
    BY <2>1 DEF Made
  <2>3. QED
    BY <1>4, <2>1, <2>2
<1>6. QED
  BY <1>3, <1>5 DEF Entered

\* Two ranks are in the same collective call, and each gives the other as many items as
\* that one has counted on: scounts are the ghosts the others have of this rank's cells,
\* though no rank computes them (Grid::assign_mpi_grid, mpi_nbnb_transfer).
THEOREM CollectivesMatchHolds == Spec => []CollectivesMatch
BY SetupInvHolds, CollectivesFollow, PTL

\* slist has room for what the others ask of a rank, and holds cells of its own
\* (Grid::assign_mpi_grid allocates it by the number of ghosts).
THEOREM SendListsFitHolds == Spec => []SendListsFit
BY SetupInvHolds, ListsFit, PTL

\* What mpi_nbnb_transfer unpacks behind the cells of a rank are the values that the
\* owners have for these very cells.
THEOREM GhostsAreTheirOwnersHolds == Spec => []GhostsAreTheirOwners
BY SetupInvHolds, OwnersFollow, PTL

\* As long as a rank is not through the set up, one that is not waits for no other: all
\* have made the call it is in. The collective calls never wait in a circle, nor for a
\* rank that has gone on to the time loop (MPI_Alltoall, MPI_Allgather, MPI_Alltoallv and
\* MPI_Allreduce of the set up).
THEOREM SomeRankAlwaysSetsUp == Spec => []SomeRankSetsUp
BY SetupInvHolds, LeastFarGoesOn, PTL

-----------------------------------------------------------------------------
(* The faces.                                                               *)

\* the sides of the mesh that a cell is on, in the order of the boundary lists
OnSide(b, c) ==
    \/ b = 1 /\ Row(mesh, c) = 0
    \/ b = 2 /\ Row(mesh, c) = mesh.Ny - 1
    \/ b = 3 /\ Column(mesh, c) = 0
    \/ b = 4 /\ Column(mesh, c) = mesh.Nx - 1
OwnOn(r, b) == {c \in Own(r) : OnSide(b, c)}

LEMMA SidesAre ==
    ASSUME GlobalsAre, NEW b \in 1 .. 4
    PROVE  ToSet(Sides(mesh)[b]) = {c \in Cells(mesh) : OnSide(b, c)}
<1>1. IsMesh(mesh) /\ mesh.Nx \in Nat /\ mesh.Ny \in Nat /\ mesh.Nx >= 2 /\ mesh.Ny >= 2
  BY DEF GlobalsAre, IsMesh
<1>2. PICK X, Y : X = mesh.Nx /\ Y = mesh.Ny
  OBVIOUS
<1>3. X \in Nat /\ Y \in Nat /\ X >= 2 /\ Y >= 2
  BY <1>1, <1>2
<1>4. \A i \in 0 .. X - 1 : \A j \in 0 .. Y - 1 :
         /\ CellAt(mesh, i, j) \in Cells(mesh)
         /\ Column(mesh, CellAt(mesh, i, j)) = i /\ Row(mesh, CellAt(mesh, i, j)) = j
  BY <1>1, <1>2, CellAtFacts
<1>5. \A c \in Cells(mesh) : /\ Column(mesh, c) \in 0 .. X - 1 /\ Row(mesh, c) \in 0 .. Y - 1
                             /\ c = CellAt(mesh, Column(mesh, c), Row(mesh, c))
  BY <1>1, <1>2, CellFacts
<1>6. CASE b = 1
  <2>1. Sides(mesh)[b] = [x \in 1 .. X |-> CellAt(mesh, x - 1, 0)]
    BY <1>2, <1>6 DEF Sides, Bottom
  <2>2. ToSet(Sides(mesh)[b]) = {CellAt(mesh, x - 1, 0) : x \in 1 .. X}
    BY <2>1 DEF ToSet
  <2>3. \A x \in 1 .. X : x - 1 \in 0 .. X - 1 /\ 0 \in 0 .. Y - 1
    BY <1>3
  <2>4. \A i \in 0 .. X - 1 : i + 1 \in 1 .. X /\ (i + 1) - 1 = i
    BY <1>3
  <2>5. \A c : OnSide(b, c) <=> Row(mesh, c) = 0
    BY <1>6 DEF OnSide
  <2>6. \A x \in 1 .. X : CellAt(mesh, x - 1, 0) \in {c \in Cells(mesh) : OnSide(b, c)}
    BY <1>4, <2>3, <2>5
  <2>7. \A c \in Cells(mesh) : OnSide(b, c) => \E x \in 1 .. X : c = CellAt(mesh, x - 1, 0)
    BY <1>5, <2>4, <2>5
  <2>8. QED
    BY <2>2, <2>6, <2>7
<1>7. CASE b = 2
  <2>1. Sides(mesh)[b] = [x \in 1 .. X |-> CellAt(mesh, x - 1, Y - 1)]
    BY <1>2, <1>7 DEF Sides, Top
  <2>2. ToSet(Sides(mesh)[b]) = {CellAt(mesh, x - 1, Y - 1) : x \in 1 .. X}
    BY <2>1 DEF ToSet
  <2>3. \A x \in 1 .. X : x - 1 \in 0 .. X - 1 /\ Y - 1 \in 0 .. Y - 1
    BY <1>3
  <2>4. \A i \in 0 .. X - 1 : i + 1 \in 1 .. X /\ (i + 1) - 1 = i
    BY <1>3
  <2>5. \A c : OnSide(b, c) <=> Row(mesh, c) = Y - 1
    BY <1>2, <1>7 DEF OnSide
  <2>6. \A x \in 1 .. X : CellAt(mesh, x - 1, Y - 1) \in {c \in Cells(mesh) : OnSide(b, c)}
    BY <1>4, <2>3, <2>5
  <2>7. \A c \in Cells(mesh) : OnSide(b, c) => \E x \in 1 .. X : c = CellAt(mesh, x - 1, Y - 1)
    BY <1>5, <2>4, <2>5
  <2>8. QED
    BY <2>2, <2>6, <2>7
<1>8. CASE b = 3
  <2>1. Sides(mesh)[b] = [y \in 1 .. Y |-> CellAt(mesh, 0, y - 1)]
    BY <1>2, <1>8 DEF Sides, Left
  <2>2. ToSet(Sides(mesh)[b]) = {CellAt(mesh, 0, y - 1) : y \in 1 .. Y}
    BY <2>1 DEF ToSet
  <2>3. \A y \in 1 .. Y : y - 1 \in 0 .. Y - 1 /\ 0 \in 0 .. X - 1
    BY <1>3
  <2>4. \A j \in 0 .. Y - 1 : j + 1 \in 1 .. Y /\ (j + 1) - 1 = j
    BY <1>3
  <2>5. \A c : OnSide(b, c) <=> Column(mesh, c) = 0
    BY <1>8 DEF OnSide
  <2>6. \A y \in 1 .. Y : CellAt(mesh, 0, y - 1) \in {c \in Cells(mesh) : OnSide(b, c)}
    BY <1>4, <2>3, <2>5
  <2>7. \A c \in Cells(mesh) : OnSide(b, c) => \E y \in 1 .. Y : c = CellAt(mesh, 0, y - 1)
    BY <1>5, <2>4, <2>5
  <2>8. QED
    BY <2>2, <2>6, <2>7
<1>9. CASE b = 4
  <2>1. Sides(mesh)[b] = [y \in 1 .. Y |-> CellAt(mesh, X - 1, y - 1)]
    BY <1>2, <1>9 DEF Sides, Right
  <2>2. ToSet(Sides(mesh)[b]) = {CellAt(mesh, X - 1, y - 1) : y \in 1 .. Y}
    BY <2>1 DEF ToSet
  <2>3. \A y \in 1 .. Y : y - 1 \in 0 .. Y - 1 /\ X - 1 \in 0 .. X - 1
    BY <1>3
  <2>4. \A j \in 0 .. Y - 1 : j + 1 \in 1 .. Y /\ (j + 1) - 1 = j
    BY <1>3
  <2>5. \A c : OnSide(b, c) <=> Column(mesh, c) = X - 1
    BY <1>2, <1>9 DEF OnSide
  <2>6. \A y \in 1 .. Y : CellAt(mesh, X - 1, y - 1) \in {c \in Cells(mesh) : OnSide(b, c)}
    BY <1>4, <2>3, <2>5
  <2>7. \A c \in Cells(mesh) : OnSide(b, c) => \E y \in 1 .. Y : c = CellAt(mesh, X - 1, y - 1)
    BY <1>5, <2>4, <2>5
  <2>8. QED
    BY <2>2, <2>6, <2>7
<1>10. QED
  BY <1>6, <1>7, <1>8, <1>9

\* a rank lays out each of its cells once for each side it is on
LEMMA OwnFacesAre ==
    ASSUME GlobalsAre, NEW r, NEW b \in 1 .. 4
    PROVE  /\ OwnFaces(r)[b] \in Seq(OwnOn(r, b))
           /\ DOMAIN OwnFaces(r)[b] = 1 .. Len(OwnFaces(r)[b])
           /\ \A k \in 1 .. Len(OwnFaces(r)[b]) : OwnFaces(r)[b][k] \in OwnOn(r, b)
           /\ \A k, l \in 1 .. Len(OwnFaces(r)[b]) :
                 OwnFaces(r)[b][k] = OwnFaces(r)[b][l] => k = l
           /\ \A c \in OwnOn(r, b) : \E k \in 1 .. Len(OwnFaces(r)[b]) : OwnFaces(r)[b][k] = c
<1>1. PICK S : S = OwnOn(r, b)
  OBVIOUS
<1>2. S = {c \in ToSet(Sides(mesh)[b]) : RankOf(c) = r}
  BY <1>1, SidesAre DEF OwnOn, Own
<1>3. PICK s : s = OwnFaces(r)[b]
  OBVIOUS
<1>4. s = Ascending(S)
  BY <1>2, <1>3 DEF OwnFaces
<1>5. IsFiniteSet(Own(r)) /\ Own(r) \subseteq Int
  BY OwnFacts
<1>6. S \subseteq Int /\ IsFiniteSet(S)
  BY <1>1, <1>5, FS_Subset DEF OwnOn
<1>7. PICK n : n = Cardinality(S)
  OBVIOUS
<1>8. /\ n \in Nat /\ Len(s) = n /\ s \in [1 .. n -> S]
      /\ \A k \in 1 .. n : Cardinality(LowerIn(S, s[k])) = k - 1
      /\ \A c \in S : Cardinality(LowerIn(S, c)) + 1 \in 1 .. n
                         /\ s[Cardinality(LowerIn(S, c)) + 1] = c
  BY <1>4, <1>6, <1>7, AscendingFacts, LowerFacts
<1>9. s \in Seq(S)
  BY <1>8
<1>10. \A k, l \in 1 .. n : s[k] = s[l] => k = l
  <2>1. TAKE k, l \in 1 .. n
  <2>2. HAVE s[k] = s[l]
  <2>3. k - 1 = l - 1
    BY <1>8, <2>2
  <2>4. QED
    BY <1>8, <2>3
<1>11. \A c \in S : \E k \in 1 .. n : s[k] = c
  BY ONLY <1>8
<1>12. QED
  BY ONLY <1>1, <1>3, <1>8, <1>9, <1>10, <1>11

\* the faces of rank r by the mesh: those on the sides, and that from a cell to another
AreaOn(b) == IF b \in {1, 2} THEN "dx" ELSE "dy"
Outward(b) == CASE b = 1 -> <<0, -1>> [] b = 2 -> <<0, 1>>
                [] b = 3 -> <<-1, 0>> [] b = 4 -> <<1, 0>>
Centre(b, c) == CASE b = 1 -> <<XOf[c], 0>> [] b = 2 -> <<XOf[c], 2 * mesh.Ny>>
                  [] b = 3 -> <<0, YOf[c]>> [] b = 4 -> <<2 * mesh.Nx, YOf[c]>>
SideFace(b, c) == [cell |-> Local(c), area |-> AreaOn(b), xcen |-> Centre(b, c),
                   normal |-> Outward(b)]
SideLists(r) ==
    [b \in 1 .. 4 |-> [k \in DOMAIN OwnFaces(r)[b] |-> SideFace(b, OwnFaces(r)[b][k])]]
Towards(c, d) == InnerFace(<<XOf[d] - XOf[c], YOf[d] - YOf[c]>>)

LaidOut(r, g) ==
    /\ g.boundary = FlattenSeq(SideLists(r))
    /\ g.boundary_type_start_and_end_index = StartAndEnd(SideLists(r))
    /\ \A i \in 0 .. NS(r) - 1 : \A k \in DOMAIN Neighbors(CellOf(r, i)) :
          g.face_local[i][k] = Towards(CellOf(r, i), Neighbors(CellOf(r, i))[k])
ValuesLaid(r, g, q) == q = [k \in DOMAIN g.boundary |->
                               SideValue[CHOOSE b \in 0 .. 3 :
                                  k - 1 \in g.boundary_type_start_and_end_index[b]
                                     .. g.boundary_type_start_and_end_index[b + 1] - 1]]
FacesOK(r, a, g, q) ==
    /\ a >= 8 => LaidOut(r, g)
    /\ a >= 9 => ValuesLaid(r, g, q)
FacesInv == \A r \in Procs : FacesOK(r, At(r), grid[r], solver[r].Q_boundary_local)

LEMMA SteadyFaces ==
    ASSUME UNCHANGED globalVars, NEW r, NEW a, NEW g, NEW q
    PROVE  FacesOK(r, a, g, q)' <=> FacesOK(r, a, g, q)
<1>1. OwnFaces(r)' = OwnFaces(r)
  <2>1. \A b \in 1 .. 4 : {c \in ToSet(Sides(mesh)[b]) : RankOf(c) = r}'
                             = {c \in ToSet(Sides(mesh)[b]) : RankOf(c) = r}
    BY Steady DEF globalVars
  <2>2. \A b \in 1 .. 4 : Ascending({c \in ToSet(Sides(mesh)[b]) : RankOf(c) = r})'
                             = Ascending({c \in ToSet(Sides(mesh)[b]) : RankOf(c) = r})
    BY ONLY <2>1
  <2>3. QED
    BY ONLY <2>2 DEF OwnFaces
<1>2. \A b, c : SideFace(b, c)' = SideFace(b, c)
  <2>1. \A b, c : Centre(b, c)' = Centre(b, c)
    BY SteadyLists DEF Centre, globalVars
  <2>2. QED
    BY <2>1, SteadyNumbers DEF SideFace
<1>3. SideLists(r)' = SideLists(r)
  BY <1>1, <1>2 DEF SideLists
<1>4. \A c, d : Towards(c, d)' = Towards(c, d)
  BY SteadyLists DEF Towards
<1>5. (FlattenSeq(SideLists(r)))' = FlattenSeq(SideLists(r))
  BY ONLY <1>3
<1>6. (StartAndEnd(SideLists(r)))' = StartAndEnd(SideLists(r))
  BY ONLY <1>3
<1>7. LaidOut(r, g)' <=> LaidOut(r, g)
  BY <1>4, <1>5, <1>6, Steady, SteadyNumbers, SteadyLists DEF LaidOut
<1>8. QED
  BY <1>7 DEF FacesOK, ValuesLaid

\* what LayOutFaces puts in the boundary lists
LEMMA BoundaryListIs ==
    ASSUME SetupInv, NEW r \in Procs, At(r) >= 7, NEW xcen,
           \A i \in 0 .. NS(r) - 1 : xcen[i] = <<XOf[CellOf(r, i)], YOf[CellOf(r, i)]>>
    PROVE  [b \in 1 .. 4 |-> BoundaryList(r, b, xcen)] = SideLists(r)
<1>1. GlobalsAre /\ NumberedAre(r, grid[r])
  BY RankIs DEF RankOK
<1>2. ASSUME NEW b \in 1 .. 4, NEW c \in Own(r)
      PROVE  LET xy == xcen[grid[r].global_local[c]]
             IN  BoundaryFace(r, b, c, xy[1], xy[2]) = SideFace(b, c)
  <2>1. PICK i : i = Local(c)
    OBVIOUS
  <2>2. i \in 0 .. NS(r) - 1 /\ CellOf(r, i) = c /\ grid[r].global_local[c] = i
    BY <1>1, <2>1, OwnCellOf DEF NumberedAre
  <2>3. PICK x, y : x = XOf[c] /\ y = YOf[c]
    OBVIOUS
  <2>4. xcen[i] = <<x, y>>
    BY <2>2, <2>3
  <2>5. BoundaryFace(r, b, c, x, y) = SideFace(b, c)
    BY <2>1, <2>2, <2>3 DEF BoundaryFace, SideFace, AreaOn, Outward, Centre
  <2>6. QED
    BY <2>2, <2>4, <2>5
<1>3. ASSUME NEW b \in 1 .. 4
      PROVE  BoundaryList(r, b, xcen)
                = [k \in DOMAIN OwnFaces(r)[b] |-> SideFace(b, OwnFaces(r)[b][k])]
  <2>1. PICK s : s = OwnFaces(r)[b]
    OBVIOUS
  <2>2. \A k \in DOMAIN s : s[k] \in Own(r)
    <3>1. \A k \in DOMAIN s : s[k] \in OwnOn(r, b)
      BY <1>1, <2>1, OwnFacesAre
    <3>2. QED
      BY ONLY <3>1 DEF OwnOn
  <2>3. BoundaryList(r, b, xcen)
           = [k \in DOMAIN s |-> LET xy == xcen[grid[r].global_local[s[k]]]
                                 IN  BoundaryFace(r, b, s[k], xy[1], xy[2])]
    BY ONLY <2>1 DEF BoundaryList
  <2>4. \A k \in DOMAIN s : LET xy == xcen[grid[r].global_local[s[k]]]
                            IN  BoundaryFace(r, b, s[k], xy[1], xy[2]) = SideFace(b, s[k])
    BY <1>2, <2>2
  <2>5. BoundaryList(r, b, xcen) = [k \in DOMAIN s |-> SideFace(b, s[k])]
    BY ONLY <2>3, <2>4
  <2>6. QED
    BY ONLY <2>1, <2>5
<1>4. QED
  BY <1>3 DEF SideLists

\* a step of rank r that is not yet beyond its faces
Before(r) ==
    \E s \in {"num_solved", "num_involved", "rcounts", "rlist", "ghosts", "loc_x", "loc_y"} :
        stage' = [stage EXCEPT ![r] = s]

LEMMA FacesStep ==
    ASSUME SetupInv, FacesInv, UNCHANGED globalVars, NEW r \in Procs, NEW s \in Stages,
           stage' = [stage EXCEPT ![r] = s],
           \A p \in Procs \ {r} : grid'[p] = grid[p] /\ solver'[p] = solver[p],
           NEW g, g = grid'[r], NEW q, q = solver'[r].Q_boundary_local,
           FacesOK(r, Place[s], g, q)
    PROVE  FacesInv'
<1>1. stage'[r] = s /\ \A p \in Procs \ {r} : stage'[p] = stage[p]
  BY DEF SetupInv
<1>2. Procs' = Procs
  BY Steady
<1>3. SUFFICES ASSUME NEW p \in Procs
               PROVE  FacesOK(p, At(p), grid[p], solver[p].Q_boundary_local)'
  BY <1>2 DEF FacesInv
<1>4. PICK a, h, u : a = At(p)' /\ h = grid'[p] /\ u = solver'[p].Q_boundary_local
  OBVIOUS
<1>5. FacesOK(p, a, h, u)
  <2>1. CASE p = r
    <3>1. a = Place[s] /\ h = g /\ u = q
      BY <1>1, <1>4, <2>1 DEF At
    <3>2. QED
      BY ONLY <2>1, <3>1, FacesOK(r, Place[s], g, q)
  <2>2. CASE p # r
    <3>1. a = At(p) /\ h = grid[p] /\ u = solver[p].Q_boundary_local
      BY <1>1, <1>4, <2>2 DEF At
    <3>2. FacesOK(p, At(p), grid[p], solver[p].Q_boundary_local)
      BY DEF FacesInv
    <3>3. QED
      BY ONLY <3>1, <3>2, Zenon
  <2>3. QED
    BY <2>1, <2>2
<1>6. FacesOK(p, a, h, u)'
  BY ONLY <1>5, UNCHANGED globalVars, SteadyFaces
<1>7. QED
  BY ONLY <1>4, <1>6 DEF FacesOK, LaidOut, ValuesLaid

LEMMA EarlyStep ==
    ASSUME SetupInv, FacesInv, UNCHANGED globalVars, NEW r \in Procs, Before(r),
           \A p \in Procs \ {r} : grid'[p] = grid[p], UNCHANGED solver
    PROVE  FacesInv'
<1>1. PICK s \in {"num_solved", "num_involved", "rcounts", "rlist", "ghosts", "loc_x", "loc_y"} :
         stage' = [stage EXCEPT ![r] = s]
  BY DEF Before
<1>2. s \in Stages /\ Place[s] < 8
  BY DEF Stages, Place
<1>3. PICK g, q : g = grid'[r] /\ q = solver'[r].Q_boundary_local
  OBVIOUS
<1>4. FacesOK(r, Place[s], g, q)
  BY <1>2 DEF FacesOK, Place
<1>5. QED
  BY <1>1, <1>2, <1>3, <1>4, FacesStep

LEMMA EarlySteps ==
    ASSUME SetupInv, NEW r \in Procs,
           \/ NumberCells(r) \/ FindGhosts(r) \/ CountGhosts(r) \/ AskOwners(r)
           \/ MakeLists(r) \/ PlaceGhosts(r) \/ LocateGhosts(r)
    PROVE  Before(r) /\ UNCHANGED globalVars /\ \A p \in Procs \ {r} : grid'[p] = grid[p]
<1>1. DOMAIN grid = Procs
  BY RankIs
<1>2. CASE NumberCells(r)
  BY <1>1, <1>2 DEF NumberCells, Before
<1>3. CASE FindGhosts(r)
  BY <1>1, <1>3 DEF FindGhosts, Before
<1>4. CASE CountGhosts(r)
  BY <1>1, <1>4 DEF CountGhosts, Before
<1>5. CASE AskOwners(r)
  BY <1>1, <1>5 DEF AskOwners, Before
<1>6. CASE MakeLists(r)
  BY <1>1, <1>6 DEF MakeLists, Before
<1>7. CASE PlaceGhosts(r)
  BY <1>1, <1>7 DEF PlaceGhosts, Before
<1>8. CASE LocateGhosts(r)
  BY <1>1, <1>8 DEF LocateGhosts, Before
<1>9. QED
  BY <1>2, <1>3, <1>4, <1>5, <1>6, <1>7, <1>8

\* the neighbours of its cells all have local numbers on a rank
LEMMA HasNumber ==
    ASSUME GlobalsAre, NEW r \in Procs, NEW d \in Own(r) \union Involved(r)
    PROVE  \E l \in 0 .. NS(r) + NG(r) - 1 : CellOf(r, l) = d
<1>1. NS(r) \in Nat /\ NG(r) \in Nat
  BY CellOfFacts
<1>2. CASE d \in Own(r)
  <2>1. Local(d) \in 0 .. NS(r) - 1 /\ CellOf(r, Local(d)) = d
    BY <1>2, OwnCellOf
  <2>2. Local(d) \in 0 .. NS(r) + NG(r) - 1
    BY <1>1, <2>1
  <2>3. QED
    BY <2>1, <2>2
<1>3. CASE d \in Involved(r)
  <2>1. PICK k \in 1 .. NG(r) : GhostAt(r, k) = d
    BY <1>3, RListFacts
  <2>2. PICK l : l = NS(r) + k - 1
    OBVIOUS
  <2>3. l \in NS(r) .. NS(r) + NG(r) - 1 /\ l \in 0 .. NS(r) + NG(r) - 1 /\ l - NS(r) + 1 = k
    BY <1>1, <2>2
  <2>4. CellOf(r, l) = GhostAt(r, k)
    BY <2>3, CellOfFacts
  <2>5. QED
    BY <2>1, <2>3, <2>4
<1>4. QED
  BY <1>2, <1>3

LEMMA NeighborHere ==
    ASSUME GlobalsAre, NEW r \in Procs, NEW c \in Own(r)
    PROVE  /\ Neighbors(c) \in Seq(Int) /\ c \in Cells(mesh) /\ RankOf(c) = r
           /\ DOMAIN Neighbors(c) = 1 .. Len(Neighbors(c))
           /\ \A k \in DOMAIN Neighbors(c) :
                 /\ Neighbors(c)[k] \in Cells(mesh) /\ Adjacent(Neighbors(c)[k], c)
                 /\ Neighbors(c)[k] \in Own(r) \union Involved(r)
<1>1. c \in Cells(mesh) /\ RankOf(c) = r
  BY DEF Own
<1>2. PICK s : s = Neighbors(c)
  OBVIOUS
<1>3. s \in Seq(Int) /\ ToSet(s) \subseteq Cells(mesh)
         /\ \A d \in Cells(mesh) : d \in ToSet(s) <=> Adjacent(d, c)
  BY <1>1, <1>2, Touching
<1>4. DOMAIN s = 1 .. Len(s)
  BY <1>3
<1>5. ASSUME NEW k \in DOMAIN s
      PROVE  s[k] \in Cells(mesh) /\ Adjacent(s[k], c) /\ s[k] \in Own(r) \union Involved(r)
  <2>1. s[k] \in ToSet(s)
    BY DEF ToSet
  <2>2. s[k] \in Cells(mesh) /\ Adjacent(s[k], c)
    BY <1>3, <2>1
  <2>3. CASE RankOf(s[k]) = r
    BY <2>2, <2>3 DEF Own
  <2>4. CASE RankOf(s[k]) # r
    <3>1. ToSet(s) \in {ToSet(Neighbors(d)) : d \in Own(r)}
      BY <1>2
    <3>2. s[k] \in UNION {ToSet(Neighbors(d)) : d \in Own(r)}
      BY ONLY <2>1, <3>1
    <3>3. s[k] \in Involved(r)
      BY ONLY <2>4, <3>2 DEF Involved
    <3>4. QED
      BY ONLY <2>2, <3>3
  <2>5. QED
    BY <2>2, <2>3, <2>4
<1>6. QED
  BY ONLY <1>1, <1>2, <1>3, <1>4, <1>5

\* the local numbers of the neighbours of the cells
LEMMA LocalNeighbors ==
    ASSUME SetupInv, NEW r \in Procs, At(r) >= 6, NEW i \in 0 .. NS(r) - 1
    PROVE  /\ DOMAIN grid[r].cell_neighbors_local[i] = DOMAIN Neighbors(CellOf(r, i))
           /\ Len(grid[r].cell_neighbors_local[i]) = Len(Neighbors(CellOf(r, i)))
           /\ \A k \in DOMAIN Neighbors(CellOf(r, i)) :
                 /\ grid[r].cell_neighbors_local[i][k] \in 0 .. NS(r) + NG(r) - 1
                 /\ CellOf(r, grid[r].cell_neighbors_local[i][k]) = Neighbors(CellOf(r, i))[k]
                 /\ grid[r].local_global[grid[r].cell_neighbors_local[i][k]]
                       = Neighbors(CellOf(r, i))[k]
<1>1. GlobalsAre /\ PlacedAre(r, grid[r])
  BY RankIs DEF RankOK
<1>2. PICK c, gl, lg, s : /\ c = CellOf(r, i) /\ gl = grid[r].global_local
                          /\ lg = grid[r].local_global /\ s = Neighbors(c)
  OBVIOUS
<1>3. grid[r].cell_neighbors_local[i] = [k \in DOMAIN s |-> gl[s[k]]]
  <2>1. grid[r].cell_neighbors_local = ByNumber(NeighborLists(r), gl)
    BY <1>1, <1>2 DEF PlacedAre, NeighborsBy
  <2>2. DOMAIN NeighborLists(r) = 0 .. NS(r) - 1 /\ NeighborLists(r)[i] = s
    BY <1>2 DEF NeighborLists
  <2>3. QED
    BY <2>1, <2>2 DEF ByNumber
<1>4. c \in Own(r)
  BY <1>1, <1>2, CellOfFacts
<1>5. /\ s \in Seq(Int) /\ DOMAIN s = 1 .. Len(s)
      /\ \A k \in DOMAIN s : s[k] \in Own(r) \union Involved(r)
  BY <1>1, <1>2, <1>4, NeighborHere
<1>6. ASSUME NEW k \in DOMAIN s
      PROVE  /\ gl[s[k]] \in 0 .. NS(r) + NG(r) - 1 /\ CellOf(r, gl[s[k]]) = s[k]
             /\ lg[gl[s[k]]] = s[k]
  <2>1. PICK l \in 0 .. NS(r) + NG(r) - 1 : CellOf(r, l) = s[k]
    BY <1>1, <1>5, HasNumber
  <2>2. gl[s[k]] = l /\ lg[l] = s[k]
    BY <1>1, <1>2, <2>1 DEF PlacedAre
  <2>3. QED
    BY <2>1, <2>2
<1>7. PICK t : t = grid[r].cell_neighbors_local[i]
  OBVIOUS
<1>8. t = [k \in DOMAIN s |-> gl[s[k]]]
  BY <1>3, <1>7
<1>9. t \in [1 .. Len(s) -> 0 .. NS(r) + NG(r) - 1] /\ Len(s) \in Nat
  BY <1>5, <1>6, <1>8
<1>10. Len(t) = Len(s) /\ DOMAIN t = DOMAIN s
  <2>1. PICK T, n : T = 0 .. NS(r) + NG(r) - 1 /\ n = Len(s)
    OBVIOUS
  <2>2. t \in [1 .. n -> T] /\ n \in Nat
    BY ONLY <1>9, <2>1
  <2>3. t \in Seq(T) /\ Len(t) = n
    BY ONLY <2>2
  <2>4. QED
    BY ONLY <1>5, <1>8, <2>1, <2>3
<1>11. \A k \in DOMAIN s : t[k] = gl[s[k]]
  BY <1>8
<1>12. QED
  BY ONLY <1>2, <1>6, <1>7, <1>10, <1>11

LEMMA LayOutKeepsFaces ==
    ASSUME SetupInv, FacesInv, NEW r \in Procs, LayOutFaces(r), UNCHANGED solver
    PROVE  FacesInv'
<1>1. At(r) = 7 /\ Made(At(r)) = 7
  <2>1. stage[r] = "loc_y"
    BY DEF LayOutFaces
  <2>2. QED
    BY <2>1 DEF At, Place, Made
<1>2. /\ GlobalsAre /\ NumberedAre(r, grid[r]) /\ GhostsAre(r, grid[r], mpiparams[r])
      /\ PlacedAre(r, grid[r]) /\ LocatedAre(r, grid[r])
  BY <1>1, RankIs DEF RankOK
<1>3. /\ grid[r].num_solved = NS(r) /\ grid[r].num_involved = NS(r) + NG(r)
      /\ \A i \in 0 .. NS(r) - 1 : grid[r].loc_y[i] = YOf[CellOf(r, i)]
      /\ \A i \in 0 .. NS(r) + NG(r) - 1 : grid[r].loc_x[i] = XOf[CellOf(r, i)]
  BY <1>2 DEF GhostsAre, NumberedAre, LocatedAre
<1> DEFINE ly == Unpack(r, grid[r].loc_y)
           xcen == [i \in 0 .. grid[r].num_involved - 1 |-> <<grid[r].loc_x[i], ly[i]>>]
           lists == [b \in 1 .. 4 |-> BoundaryList(r, b, xcen)]
           bo == FlattenSeq(lists)
           se == StartAndEnd(lists)
           fl == [i \in 0 .. grid[r].num_solved - 1 |->
                    [k \in DOMAIN grid[r].cell_neighbors_local[i] |->
                        LET right == grid[r].cell_neighbors_local[i][k]
                        IN  InnerFace(<<xcen[right][1] - xcen[i][1],
                                        xcen[right][2] - xcen[i][2]>>)]]
<1>4. grid' = [grid EXCEPT ![r].xcen_local = xcen, ![r].boundary = bo,
                  ![r].boundary_type_start_and_end_index = se, ![r].face_local = fl]
  BY DEF LayOutFaces
<1>5. Holds(r, ly, YOf, NS(r) + NG(r))
  <2>1. Holds(r, grid[r].loc_y, YOf, NS(r))
    BY <1>3 DEF Holds
  <2>2. Comes(r, YOf)
    BY <1>1 DEF Comes, Gave
  <2>3. \A c \in Cells(mesh) : YOf[c] \in Int
    BY <1>2, ValuesAre
  <2>4. Entered(r, Owners(r))
    BY DEF LayOutFaces
  <2>5. QED
    BY <1>1, <2>1, <2>2, <2>3, <2>4, UnpackIs
<1>6. NS(r) \in Nat /\ NG(r) \in Nat
  BY <1>2, CellOfFacts
<1> HIDE DEF ly
<1>7. \A i \in 0 .. NS(r) + NG(r) - 1 : xcen[i] = <<XOf[CellOf(r, i)], YOf[CellOf(r, i)]>>
  <2>1. PICK n : n = NS(r) + NG(r)
    OBVIOUS
  <2>2. n \in Nat
    BY <1>6, <2>1
  <2>3. \A i \in 0 .. n - 1 : /\ grid[r].loc_x[i] = XOf[CellOf(r, i)]
                              /\ ly[i] = YOf[CellOf(r, i)]
    BY <1>3, <1>5, <1>6, <2>1 DEF Holds
  <2>4. xcen = [i \in 0 .. n - 1 |-> <<grid[r].loc_x[i], ly[i]>>]
    BY ONLY <1>3, <2>1
  <2>5. \A i \in 0 .. n - 1 : xcen[i] = <<XOf[CellOf(r, i)], YOf[CellOf(r, i)]>>
    BY ONLY <2>3, <2>4
  <2> HIDE DEF xcen
  <2>6. QED
    BY ONLY <1>6, <2>1, <2>2, <2>5
<1>8. \A i \in 0 .. grid[r].num_solved - 1 : \A k \in DOMAIN grid[r].cell_neighbors_local[i] :
         fl[i][k] = InnerFace(<<xcen[grid[r].cell_neighbors_local[i][k]][1] - xcen[i][1],
                                xcen[grid[r].cell_neighbors_local[i][k]][2] - xcen[i][2]>>)
  <2> HIDE DEF xcen
  <2>1. QED
    OBVIOUS
<1>9. lists = SideLists(r)
  <2> HIDE DEF xcen
  <2>1. \A i \in 0 .. NS(r) - 1 : xcen[i] = <<XOf[CellOf(r, i)], YOf[CellOf(r, i)]>>
    BY <1>6, <1>7
  <2>2. QED
    BY <1>1, <2>1, BoundaryListIs
<1>10. bo = FlattenSeq(SideLists(r)) /\ se = StartAndEnd(SideLists(r))
  <2> HIDE DEF lists
  <2>1. QED
    BY ONLY <1>9
<1> HIDE DEF xcen, lists, bo, se, fl
<1>11. ASSUME NEW i \in 0 .. NS(r) - 1, NEW k \in DOMAIN Neighbors(CellOf(r, i))
       PROVE  fl[i][k] = Towards(CellOf(r, i), Neighbors(CellOf(r, i))[k])
  <2>1. PICK c, d, l : /\ c = CellOf(r, i) /\ d = Neighbors(CellOf(r, i))[k]
                       /\ l = grid[r].cell_neighbors_local[i][k]
    OBVIOUS
  <2>2. /\ k \in DOMAIN grid[r].cell_neighbors_local[i] /\ l \in 0 .. NS(r) + NG(r) - 1
        /\ CellOf(r, l) = d
    BY <1>1, <2>1, LocalNeighbors
  <2>3. fl[i][k] = InnerFace(<<xcen[l][1] - xcen[i][1], xcen[l][2] - xcen[i][2]>>)
    BY <1>3, <1>8, <2>1, <2>2
  <2>4. i \in 0 .. NS(r) + NG(r) - 1
    BY <1>6
  <2>5. xcen[l] = <<XOf[d], YOf[d]>> /\ xcen[i] = <<XOf[c], YOf[c]>>
    BY <1>7, <2>1, <2>2, <2>4
  <2>6. xcen[l][1] = XOf[d] /\ xcen[l][2] = YOf[d] /\ xcen[i][1] = XOf[c] /\ xcen[i][2] = YOf[c]
    BY ONLY <2>5
  <2>7. fl[i][k] = InnerFace(<<XOf[d] - XOf[c], YOf[d] - YOf[c]>>)
    BY ONLY <2>3, <2>6, Zenon
  <2>8. QED
    BY ONLY <2>1, <2>7 DEF Towards
<1>12. PICK g, q : g = grid'[r] /\ q = solver'[r].Q_boundary_local
  OBVIOUS
<1>13. g.boundary = bo /\ g.boundary_type_start_and_end_index = se /\ g.face_local = fl
  BY <1>4, <1>12, RankIs DEF NewGrid
<1>14. FacesOK(r, 8, g, q)
  BY <1>10, <1>11, <1>13 DEF FacesOK, LaidOut
<1>15. /\ Place["grid"] = 8 /\ "grid" \in Stages
       /\ stage' = [stage EXCEPT ![r] = "grid"] /\ UNCHANGED globalVars
  BY DEF Place, Stages, LayOutFaces
<1>16. \A p \in Procs \ {r} : grid'[p] = grid[p] /\ solver'[p] = solver[p]
  BY <1>4, RankIs
<1>17. QED
  BY <1>12, <1>14, <1>15, <1>16, FacesStep

LEMMA StartSolverKeepsFaces ==
    ASSUME SetupInv, FacesInv, NEW r \in Procs, StartSolver(r)
    PROVE  FacesInv'
<1>1. At(r) = 8
  <2>1. stage[r] = "grid"
    BY DEF StartSolver
  <2>2. QED
    BY <2>1 DEF At, Place
<1> DEFINE ia == Ia(r)
           ja == Ja(r)
           cx == CsrIdx(r, ia, ja)
           qb == [k \in Attached(r) |-> SideValue[SideOf(r, k)]]
<1>2. solver' = [solver EXCEPT ![r].ia_local = ia, ![r].ja_local = ja,
                    ![r].csr_idx_local = cx, ![r].Q_boundary_local = qb]
  BY DEF StartSolver
<1>3. UNCHANGED grid
  BY DEF StartSolver
<1>4. ValuesLaid(r, grid[r], qb)
  BY DEF ValuesLaid, Attached, SideOf
<1> HIDE DEF ia, ja, cx, qb
<1>5. LaidOut(r, grid[r])
  BY <1>1 DEF FacesInv, FacesOK
<1>6. PICK g, q : g = grid'[r] /\ q = solver'[r].Q_boundary_local
  OBVIOUS
<1>7. q = qb /\ g = grid[r]
  BY <1>2, <1>3, <1>6, RankIs DEF NewSolver
<1>8. FacesOK(r, 9, g, q)
  BY <1>4, <1>5, <1>7 DEF FacesOK
<1>9. \A p \in Procs \ {r} : grid'[p] = grid[p] /\ solver'[p] = solver[p]
  BY <1>2, <1>3, RankIs
<1>10. Place["Q_cell_local"] = 9 /\ "Q_cell_local" \in Stages
         /\ stage' = [stage EXCEPT ![r] = "Q_cell_local"] /\ UNCHANGED globalVars
  BY DEF Place, Stages, StartSolver
<1>11. QED
  BY <1>6, <1>8, <1>9, <1>10, FacesStep

LEMMA LimitKeepsFaces ==
    ASSUME SetupInv, FacesInv, NEW r \in Procs, LimitTimeStep(r)
    PROVE  FacesInv'
<1>1. At(r) = 9
  <2>1. stage[r] = "Q_cell_local"
    BY DEF LimitTimeStep
  <2>2. QED
    BY <2>1 DEF At, Place
<1> DEFINE u == Unpack(r, [i \in Solved(r) |-> 1])
<1>2. solver' = [solver EXCEPT ![r].Q_cell_local = u] /\ UNCHANGED grid
  BY DEF LimitTimeStep
<1> HIDE DEF u
<1>3. FacesOK(r, 9, grid[r], solver[r].Q_boundary_local)
  BY <1>1 DEF FacesInv
<1>4. PICK g, q : g = grid'[r] /\ q = solver'[r].Q_boundary_local
  OBVIOUS
<1>5. q = solver[r].Q_boundary_local /\ g = grid[r]
  BY <1>2, <1>4, RankIs DEF NewSolver
<1>6. FacesOK(r, 10, g, q)
  BY <1>3, <1>5 DEF FacesOK
<1>7. \A p \in Procs \ {r} : grid'[p] = grid[p] /\ solver'[p] = solver[p]
  BY <1>2, RankIs
<1>8. Place["min_value"] = 10 /\ "min_value" \in Stages
         /\ stage' = [stage EXCEPT ![r] = "min_value"] /\ UNCHANGED globalVars
  BY DEF Place, Stages, LimitTimeStep
<1>9. QED
  BY <1>4, <1>6, <1>7, <1>8, FacesStep

LEMMA ComputeKeepsFaces ==
    ASSUME SetupInv, FacesInv, NEW r \in Procs, ComputeSystem(r)
    PROVE  FacesInv'
<1>1. At(r) = 10
  <2>1. stage[r] = "min_value"
    BY DEF ComputeSystem
  <2>2. QED
    BY <2>1 DEF At, Place
<1> DEFINE dt == Reduced(r, Received(r, Procs))
           rd == InnerRdista(r)
           br == BoundaryRdista(r)
           ad == [n \in 0 .. Len(solver[r].ja_local) - 1 |-> Coefficient(r, n, solver[r], rd, br)]
<1>2. solver' = [solver EXCEPT ![r].delta_t = dt, ![r].rdista_local = rd,
                    ![r].boundary_rdista_local = br, ![r].A_data_local = ad] /\ UNCHANGED grid
  BY DEF ComputeSystem
<1> HIDE DEF dt, rd, br, ad
<1>3. FacesOK(r, 10, grid[r], solver[r].Q_boundary_local)
  BY <1>1 DEF FacesInv
<1>4. PICK g, q : g = grid'[r] /\ q = solver'[r].Q_boundary_local
  OBVIOUS
<1>5. q = solver[r].Q_boundary_local /\ g = grid[r]
  BY <1>2, <1>4, RankIs DEF NewSolver
<1>6. FacesOK(r, 11, g, q)
  BY <1>3, <1>5 DEF FacesOK
<1>7. \A p \in Procs \ {r} : grid'[p] = grid[p] /\ solver'[p] = solver[p]
  BY <1>2, RankIs
<1>8. Place["ready"] = 11 /\ "ready" \in Stages
         /\ stage' = [stage EXCEPT ![r] = "ready"] /\ UNCHANGED globalVars
  BY DEF Place, Stages, ComputeSystem
<1>9. QED
  BY <1>4, <1>6, <1>7, <1>8, FacesStep

LEMMA FacesStart ==
    ASSUME Init
    PROVE  FacesInv
<1>1. SUFFICES ASSUME NEW r \in Procs
               PROVE  FacesOK(r, At(r), grid[r], solver[r].Q_boundary_local)
  BY DEF FacesInv
<1>2. stage[r] = "start"
  BY DEF Init, GridInit
<1>3. At(r) = 0
  BY <1>2 DEF At, Place
<1>4. QED
  BY <1>3 DEF FacesOK

LEMMA FacesGoOn ==
    ASSUME SetupInv, FacesInv, [Next]_vars
    PROVE  FacesInv'
<1>1. CASE UNCHANGED vars
  <2>1. UNCHANGED globalVars
    BY <1>1 DEF vars, gridVars, globalVars
  <2>2. UNCHANGED <<stage, grid, solver>> /\ Procs' = Procs
    BY <1>1, <2>1, Steady DEF vars, gridVars
  <2>3. SUFFICES ASSUME NEW p \in Procs
                 PROVE  FacesOK(p, At(p), grid[p], solver[p].Q_boundary_local)'
    BY <2>2 DEF FacesInv
  <2>4. PICK a, h, u : a = At(p) /\ h = grid[p] /\ u = solver[p].Q_boundary_local
    OBVIOUS
  <2>5. FacesOK(p, At(p), grid[p], solver[p].Q_boundary_local)
    BY DEF FacesInv
  <2>6. FacesOK(p, a, h, u)
    BY ONLY <2>4, <2>5, Zenon
  <2>7. FacesOK(p, a, h, u)'
    BY ONLY <2>1, <2>6, SteadyFaces
  <2>8. a = At(p)' /\ h = grid'[p] /\ u = solver'[p].Q_boundary_local
    BY <2>2, <2>4 DEF At
  <2>9. QED
    BY ONLY <2>7, <2>8 DEF FacesOK, LaidOut, ValuesLaid
<1>2. CASE Next
  <2>1. PICK r \in Procs : Step(r)
    BY <1>2 DEF Next
  <2>2. CASE /\ UNCHANGED solver
             /\ \/ NumberCells(r) \/ FindGhosts(r) \/ CountGhosts(r) \/ AskOwners(r)
                \/ MakeLists(r) \/ PlaceGhosts(r) \/ LocateGhosts(r)
    BY <2>2, EarlySteps, EarlyStep
  <2>3. CASE LayOutFaces(r) /\ UNCHANGED solver
    BY <2>3, LayOutKeepsFaces
  <2>4. CASE SolverStep(r)
    BY <2>4, StartSolverKeepsFaces, LimitKeepsFaces, ComputeKeepsFaces DEF SolverStep
  <2>5. QED
    BY <2>1, <2>2, <2>3, <2>4 DEF Step, GridStep
<1>3. QED
  BY <1>1, <1>2

\* Beside that, the faces of a rank are those of the mesh: the boundary lists side by side,
\* the neighbours by local numbers and the face towards each (Grid::generate_grid).
THEOREM FacesInvHolds == Spec => [](SetupInv /\ FacesInv)
<1>1. Init => SetupInv /\ FacesInv
  BY SetupStarts, FacesStart
<1>2. (SetupInv /\ FacesInv) /\ [Next]_vars => (SetupInv /\ FacesInv)'
  BY SetupGoesOn, FacesGoOn
<1>3. QED
  BY <1>1, <1>2, PTL DEF Spec

-----------------------------------------------------------------------------
(* The boundary lists, one behind the other.                                *)

SideFaces(r) == {SideFace(b, c) : b \in 1 .. 4, c \in Own(r)}
Ends(n) == [b \in 0 .. 4 |-> IF b = 0 THEN 0 ELSE IF b = 1 THEN n[1]
                             ELSE IF b = 2 THEN n[1] + n[2]
                             ELSE IF b = 3 THEN n[1] + n[2] + n[3]
                             ELSE n[1] + n[2] + n[3] + n[4]]
SideOff(r) == Ends([b \in 1 .. 4 |-> Len(OwnFaces(r)[b])])

\* where the first b of them end
LEMMA PrefixEnds ==
    ASSUME NEW n \in Nat, NEW S, NEW s, s \in Seq(Seq(S)), Len(s) = n,
           NEW off, Places(off, s, n), NEW b \in 0 .. n
    PROVE  Len(FlattenSeq(SubSeq(s, 1, b))) = off[b]
<1>1. CASE b = 0
  <2>1. PICK t : t = SubSeq(s, 1, b)
    OBVIOUS
  <2>2. t = <<>>
    BY <1>1, <2>1
  <2>3. FlattenSeq(t) = <<>>
    BY <2>2 DEF FlattenSeq
  <2>4. Len(FlattenSeq(t)) = 0
    BY ONLY <2>3
  <2>5. off[b] = 0
    BY <1>1 DEF Places
  <2>6. QED
    BY ONLY <2>1, <2>4, <2>5, Zenon
<1>2. CASE b # 0
  <2>1. PICK t : t = SubSeq(s, 1, b)
    OBVIOUS
  <2>2. b \in Nat \ {0} /\ b \in 1 .. n
    BY <1>2
  <2>3. t \in Seq(Seq(S)) /\ Len(t) = b /\ \A k \in 1 .. b : t[k] = s[k]
    BY <2>1, <2>2
  <2>4. \A k \in 1 .. b : t[k] \in Seq(S)
    BY <2>3
  <2>5. PICK o : o = [k \in 0 .. b |-> off[k]]
    OBVIOUS
  <2>6. Places(o, t, b)
    BY <2>2, <2>3, <2>5 DEF Places
  <2>7. PutTogether(FlattenSeq(t), S, t, o, b)
    BY ONLY <2>2, <2>3, <2>4, <2>6, FlattenAt
  <2>8. Len(FlattenSeq(t)) = o[b]
    BY <2>7 DEF PutTogether
  <2>9. QED
    BY <2>1, <2>2, <2>5, <2>8
<1>3. QED
  BY <1>1, <1>2

LEMMA SideListsAre ==
    ASSUME GlobalsAre, NEW r
    PROVE  /\ SideLists(r) \in Seq(Seq(SideFaces(r))) /\ Len(SideLists(r)) = 4
           /\ \A b \in 1 .. 4 : /\ SideLists(r)[b] \in Seq(SideFaces(r))
                                /\ Len(SideLists(r)[b]) = Len(OwnFaces(r)[b])
                                /\ Len(SideLists(r)[b]) \in Nat
                                /\ \A k \in 1 .. Len(OwnFaces(r)[b]) :
                                      SideLists(r)[b][k] = SideFace(b, OwnFaces(r)[b][k])
<1>1. ASSUME NEW b \in 1 .. 4
      PROVE  /\ SideLists(r)[b] \in Seq(SideFaces(r))
             /\ Len(SideLists(r)[b]) = Len(OwnFaces(r)[b])
             /\ Len(SideLists(r)[b]) \in Nat
             /\ \A k \in 1 .. Len(OwnFaces(r)[b]) :
                   SideLists(r)[b][k] = SideFace(b, OwnFaces(r)[b][k])
  <2>1. PICK o, t, n : o = OwnFaces(r)[b] /\ t = SideLists(r)[b] /\ n = Len(OwnFaces(r)[b])
    OBVIOUS
  <2>2. /\ o \in Seq(OwnOn(r, b)) /\ DOMAIN o = 1 .. n
        /\ \A k \in 1 .. n : o[k] \in OwnOn(r, b)
    BY <2>1, OwnFacesAre
  <2>3. n \in Nat
    BY <2>1, <2>2
  <2>4. t = [k \in 1 .. n |-> SideFace(b, o[k])]
    BY <2>1, <2>2 DEF SideLists
  <2>5. \A k \in 1 .. n : SideFace(b, o[k]) \in SideFaces(r)
    BY <2>2 DEF SideFaces, OwnOn
  <2>6. t \in [1 .. n -> SideFaces(r)]
    BY <2>4, <2>5
  <2>7. t \in Seq(SideFaces(r)) /\ Len(t) = n
    BY <2>3, <2>6
  <2>8. QED
    BY <2>1, <2>3, <2>4, <2>7
<1>2. SideLists(r) \in [1 .. 4 -> Seq(SideFaces(r))]
  BY <1>1 DEF SideLists
<1>3. SideLists(r) \in Seq(Seq(SideFaces(r))) /\ Len(SideLists(r)) = 4
  <2>1. PICK l, T : l = SideLists(r) /\ T = Seq(SideFaces(r))
    OBVIOUS
  <2>2. l \in [1 .. 4 -> T]
    BY ONLY <1>2, <2>1
  <2>3. PICK n : n = 4
    OBVIOUS
  <2>4. n \in Nat /\ l \in [1 .. n -> T]
    BY ONLY <2>2, <2>3
  <2>5. l \in Seq(T) /\ Len(l) = n
    BY ONLY <2>4
  <2>6. QED
    BY ONLY <2>1, <2>3, <2>5
<1>4. QED
  BY <1>1, <1>3

LEMMA SidesStart ==
    ASSUME GlobalsAre, NEW r
    PROVE  /\ Places(SideOff(r), SideLists(r), 4)
           /\ PutTogether(FlattenSeq(SideLists(r)), SideFaces(r), SideLists(r), SideOff(r), 4)
           /\ \A b \in 0 .. 4 : StartAndEnd(SideLists(r))[b] = SideOff(r)[b]
<1>1. \A b \in 1 .. 4 : Len(SideLists(r)[b]) = Len(OwnFaces(r)[b])
                           /\ Len(OwnFaces(r)[b]) \in Nat
  BY SideListsAre
<1>2. Places(SideOff(r), SideLists(r), 4)
  <2>1. PICK n, o : n = [b \in 1 .. 4 |-> Len(OwnFaces(r)[b])] /\ o = SideOff(r)
    OBVIOUS
  <2>2. n \in [1 .. 4 -> Nat]
    BY ONLY <1>1, <2>1
  <2>3. o = Ends(n)
    BY ONLY <2>1 DEF SideOff
  <2>4. PICK a, b, c, d : a = n[1] /\ b = n[2] /\ c = n[3] /\ d = n[4]
    OBVIOUS
  <2>5. a \in Nat /\ b \in Nat /\ c \in Nat /\ d \in Nat
    BY ONLY <2>2, <2>4
  <2>6. o = [k \in 0 .. 4 |-> IF k = 0 THEN 0 ELSE IF k = 1 THEN a
                               ELSE IF k = 2 THEN a + b ELSE IF k = 3 THEN a + b + c
                               ELSE a + b + c + d]
    BY ONLY <2>3, <2>4 DEF Ends
  <2>7. o[0] = 0 /\ o[1] = a /\ o[2] = a + b /\ o[3] = a + b + c /\ o[4] = a + b + c + d
    BY ONLY <2>6
  <2>8. o \in [0 .. 4 -> Nat]
    BY ONLY <2>5, <2>6
  <2>9. \A k \in 1 .. 4 : o[k] = o[k - 1] + n[k]
    <3>1. TAKE k \in 1 .. 4
    <3>2. k = 1 \/ k = 2 \/ k = 3 \/ k = 4
      OBVIOUS
    <3>3. QED
      BY ONLY <2>4, <2>5, <2>7, <3>2
  <2>10. \A k \in 1 .. 4 : n[k] = Len(SideLists(r)[k])
    BY ONLY <1>1, <2>1
  <2>11. QED
    BY ONLY <2>1, <2>7, <2>8, <2>9, <2>10 DEF Places
<1>3. PutTogether(FlattenSeq(SideLists(r)), SideFaces(r), SideLists(r), SideOff(r), 4)
  <2>1. PICK l, S, o : l = SideLists(r) /\ S = SideFaces(r) /\ o = SideOff(r)
    OBVIOUS
  <2>2. Len(l) = 4 /\ \A k \in 1 .. 4 : l[k] \in Seq(S)
    BY <2>1, SideListsAre
  <2>3. Places(o, l, 4)
    BY ONLY <1>2, <2>1
  <2>4. PICK n : n = 4
    OBVIOUS
  <2>5. n \in Nat \ {0}
    BY ONLY <2>4
  <2>6. Len(l) = n /\ (\A k \in 1 .. n : l[k] \in Seq(S)) /\ Places(o, l, n)
    BY ONLY <2>2, <2>3, <2>4
  <2>7. PutTogether(FlattenSeq(l), S, l, o, n)
    BY ONLY <2>5, <2>6, FlattenAt
  <2>8. QED
    BY ONLY <2>1, <2>4, <2>7
<1>4. ASSUME NEW b \in 0 .. 4
      PROVE  StartAndEnd(SideLists(r))[b] = SideOff(r)[b]
  <2>1. Len(FlattenSeq(SubSeq(SideLists(r), 1, b))) = SideOff(r)[b]
    <3>1. PICK l, S, o : l = SideLists(r) /\ S = SideFaces(r) /\ o = SideOff(r)
      OBVIOUS
    <3>2. Len(l) = 4 /\ l \in Seq(Seq(S))
      BY <3>1, SideListsAre
    <3>3. Places(o, l, 4)
      BY ONLY <1>2, <3>1
    <3>4. PICK n : n = 4
      OBVIOUS
    <3>5. n \in Nat /\ Len(l) = n /\ l \in Seq(Seq(S)) /\ Places(o, l, n) /\ b \in 0 .. n
      BY ONLY <3>2, <3>3, <3>4, b \in 0 .. 4
    <3>6. Len(FlattenSeq(SubSeq(l, 1, b))) = o[b]
      BY ONLY <3>5, PrefixEnds
    <3>7. QED
      BY ONLY <3>1, <3>6
  <2>2. QED
    BY <2>1 DEF StartAndEnd
<1>5. QED
  BY <1>2, <1>3, <1>4

\* the k-th attached face of rank r is the j-th of its faces on side b
SideOn(r, k, b, j) ==
    /\ b \in 1 .. 4 /\ j \in 1 .. Len(OwnFaces(r)[b])
    /\ k = SideOff(r)[b - 1] + j
    /\ k \in DOMAIN FlattenSeq(SideLists(r))
    /\ FlattenSeq(SideLists(r))[k] = SideFace(b, OwnFaces(r)[b][j])
    /\ OwnFaces(r)[b][j] \in OwnOn(r, b)

LEMMA SidePlaces ==
    ASSUME GlobalsAre, NEW r
    PROVE  \E n, s, off, z : /\ n = 4 /\ n \in Nat /\ s = SideLists(r) /\ off = SideOff(r)
                             /\ z = FlattenSeq(s)
                             /\ Places(off, s, n) /\ PutTogether(z, SideFaces(r), s, off, n)
                             /\ DOMAIN z = 1 .. off[n]
                             /\ \A b \in 1 .. n : /\ Len(s[b]) \in Nat
                                                  /\ Len(s[b]) = Len(OwnFaces(r)[b])
                                                  /\ \A j \in 1 .. Len(s[b]) :
                                                        /\ s[b][j] = SideFace(b, OwnFaces(r)[b][j])
                                                        /\ OwnFaces(r)[b][j] \in OwnOn(r, b)
<1>1. PICK n, s, off, z : n = 4 /\ s = SideLists(r) /\ off = SideOff(r) /\ z = FlattenSeq(s)
  OBVIOUS
<1>2. Places(off, s, n) /\ PutTogether(z, SideFaces(r), s, off, n)
  BY <1>1, SidesStart
<1>3. DOMAIN z = 1 .. off[n]
  BY <1>2 DEF PutTogether
<1>4. \A b \in 1 .. n : /\ Len(s[b]) \in Nat /\ Len(s[b]) = Len(OwnFaces(r)[b])
                        /\ \A j \in 1 .. Len(s[b]) :
                              /\ s[b][j] = SideFace(b, OwnFaces(r)[b][j])
                              /\ OwnFaces(r)[b][j] \in OwnOn(r, b)
  <2>1. TAKE b \in 1 .. n
  <2>2. b \in 1 .. 4
    BY <1>1
  <2>3. Len(s[b]) \in Nat /\ Len(s[b]) = Len(OwnFaces(r)[b])
    BY <1>1, <2>2, SideListsAre
  <2>4. \A j \in 1 .. Len(OwnFaces(r)[b]) : s[b][j] = SideFace(b, OwnFaces(r)[b][j])
    BY <1>1, <2>2, SideListsAre
  <2>5. \A j \in 1 .. Len(OwnFaces(r)[b]) : OwnFaces(r)[b][j] \in OwnOn(r, b)
    BY <2>2, OwnFacesAre
  <2>6. QED
    BY ONLY <2>3, <2>4, <2>5
<1>5. n \in Nat
  BY <1>1
<1>6. QED
  BY ONLY <1>1, <1>2, <1>3, <1>4, <1>5

LEMMA SideThere ==
    ASSUME GlobalsAre, NEW r, NEW b \in 1 .. 4, NEW j \in 1 .. Len(OwnFaces(r)[b])
    PROVE  SideOn(r, SideOff(r)[b - 1] + j, b, j)
<1>1. PICK n, s, off, z : /\ n = 4 /\ n \in Nat /\ s = SideLists(r) /\ off = SideOff(r)
                          /\ z = FlattenSeq(s)
                          /\ Places(off, s, n) /\ PutTogether(z, SideFaces(r), s, off, n)
                          /\ DOMAIN z = 1 .. off[n]
                          /\ \A c \in 1 .. n : /\ Len(s[c]) \in Nat
                                               /\ Len(s[c]) = Len(OwnFaces(r)[c])
                                               /\ \A h \in 1 .. Len(s[c]) :
                                                     /\ s[c][h] = SideFace(c, OwnFaces(r)[c][h])
                                                     /\ OwnFaces(r)[c][h] \in OwnOn(r, c)
  BY SidePlaces
<1>2. b \in 1 .. n /\ j \in 1 .. Len(s[b])
  BY <1>1
<1>3. off[b - 1] + j \in 1 .. off[n] /\ z[off[b - 1] + j] = s[b][j]
  BY <1>1, <1>2 DEF PutTogether
<1>4. s[b][j] = SideFace(b, OwnFaces(r)[b][j]) /\ OwnFaces(r)[b][j] \in OwnOn(r, b)
  BY ONLY <1>1, <1>2
<1>5. PICK k, f, c : k = off[b - 1] + j /\ f = SideFace(b, OwnFaces(r)[b][j])
                        /\ c = OwnFaces(r)[b][j]
  OBVIOUS
<1>6. k \in DOMAIN z /\ z[k] = f /\ c \in OwnOn(r, b) /\ z = FlattenSeq(SideLists(r))
         /\ k = SideOff(r)[b - 1] + j
  BY ONLY <1>1, <1>3, <1>4, <1>5
<1>7. QED
  BY ONLY <1>5, <1>6, b \in 1 .. 4, j \in 1 .. Len(OwnFaces(r)[b]) DEF SideOn

LEMMA SideAt ==
    ASSUME GlobalsAre, NEW r, NEW k \in DOMAIN FlattenSeq(SideLists(r))
    PROVE  \E b \in 1 .. 4 : \E j \in 1 .. Len(OwnFaces(r)[b]) : SideOn(r, k, b, j)
<1>1. PICK n, s, off, z : /\ n = 4 /\ n \in Nat /\ s = SideLists(r) /\ off = SideOff(r)
                          /\ z = FlattenSeq(s)
                          /\ Places(off, s, n) /\ PutTogether(z, SideFaces(r), s, off, n)
                          /\ DOMAIN z = 1 .. off[n]
                          /\ \A c \in 1 .. n : /\ Len(s[c]) \in Nat
                                               /\ Len(s[c]) = Len(OwnFaces(r)[c])
                                               /\ \A h \in 1 .. Len(s[c]) :
                                                     /\ s[c][h] = SideFace(c, OwnFaces(r)[c][h])
                                                     /\ OwnFaces(r)[c][h] \in OwnOn(r, c)
  BY SidePlaces
<1>2. k \in 1 .. off[n]
  BY <1>1
<1>3. \A c \in 1 .. n : Len(s[c]) \in Nat
  BY ONLY <1>1
<1>4. InPlace(off, s, n, k)
  BY ONLY <1>1, <1>2, <1>3, PlaceIn
<1>5. PICK b \in 1 .. n : \E j \in 1 .. Len(s[b]) : k = off[b - 1] + j
  BY <1>4 DEF InPlace
<1>6. PICK j \in 1 .. Len(s[b]) : k = off[b - 1] + j
  BY ONLY <1>5
<1>7. b \in 1 .. 4 /\ j \in 1 .. Len(OwnFaces(r)[b]) /\ k = SideOff(r)[b - 1] + j
  BY ONLY <1>1, <1>5, <1>6
<1>8. SideOn(r, k, b, j)
  BY <1>7, SideThere
<1>9. QED
  BY ONLY <1>7, <1>8

\* and of no other
LEMMA SideOnce ==
    ASSUME GlobalsAre, NEW r, NEW b \in 1 .. 4, NEW j \in 1 .. Len(OwnFaces(r)[b]),
           NEW c \in 1 .. 4, NEW h \in 1 .. Len(OwnFaces(r)[c]),
           SideOff(r)[b - 1] + j = SideOff(r)[c - 1] + h
    PROVE  b = c /\ j = h
<1>1. PICK n, s, off : /\ n = 4 /\ n \in Nat /\ s = SideLists(r) /\ off = SideOff(r)
                       /\ Places(off, s, n)
                       /\ \A d \in 1 .. n : /\ Len(s[d]) \in Nat
                                            /\ Len(s[d]) = Len(OwnFaces(r)[d])
  BY SidePlaces
<1>2. /\ b \in 1 .. n /\ c \in 1 .. n /\ j \in 1 .. Len(s[b]) /\ h \in 1 .. Len(s[c])
      /\ SamePlace(off, b, j, c, h)
  BY <1>1 DEF SamePlace
<1>3. \A d \in 1 .. n : Len(s[d]) \in Nat
  BY ONLY <1>1
<1>4. QED
  BY ONLY <1>1, <1>2, <1>3, OnePlace

\* the entries of boundary_type_start_and_end_index that a face is between
Between(ends, k) == CHOOSE d \in 0 .. 3 : k - 1 \in ends[d] .. ends[d + 1] - 1
LEMMA SideBetween ==
    ASSUME GlobalsAre, NEW r, NEW b \in 1 .. 4, NEW j \in 1 .. Len(OwnFaces(r)[b]),
           NEW k, k = SideOff(r)[b - 1] + j
    PROVE  Between(StartAndEnd(SideLists(r)), k) = b - 1
<1>1. PICK o : o = SideOff(r)
  OBVIOUS
<1>2. \A d \in 0 .. 4 : StartAndEnd(SideLists(r))[d] = o[d]
  BY <1>1, SidesStart
<1>3. /\ \A d \in 0 .. 4 : o[d] \in Nat
      /\ \A d \in 1 .. 4 : o[d] = o[d - 1] + Len(OwnFaces(r)[d]) /\ Len(OwnFaces(r)[d]) \in Nat
  BY <1>1, SidesStart, SideListsAre DEF Places
<1>4. ASSUME NEW d \in 0 .. 3
      PROVE  k - 1 \in o[d] .. o[d + 1] - 1 <=> d = b - 1
  <2>1. PICK c : c = d + 1
    OBVIOUS
  <2>2. c \in 1 .. 4 /\ d = c - 1 /\ d \in 0 .. 4 /\ c \in 0 .. 4 /\ b - 1 \in 0 .. 4
    BY <2>1
  <2>3. o[c] = o[d] + Len(OwnFaces(r)[c]) /\ o[d] \in Nat /\ Len(OwnFaces(r)[c]) \in Nat
           /\ o[b - 1] \in Nat
    BY <1>3, <2>2
  <2>4. k = o[b - 1] + j /\ k \in Nat
    BY <1>1, <2>3
  <2>5. ASSUME k - 1 \in o[d] .. o[c] - 1
        PROVE  d = b - 1
    <3>1. PICK h : h = k - o[d]
      OBVIOUS
    <3>2. h \in 1 .. Len(OwnFaces(r)[c]) /\ o[d] + h = k
      <4>1. PICK x, y, l : x = o[d] /\ y = o[c] /\ l = Len(OwnFaces(r)[c])
        OBVIOUS
      <4>2. y = x + l /\ x \in Nat /\ l \in Nat /\ k - 1 \in x .. y - 1 /\ h = k - x
               /\ k \in Nat
        BY ONLY <2>3, <2>4, <2>5, <3>1, <4>1
      <4>3. h \in 1 .. l /\ x + h = k
        BY ONLY <4>2
      <4>4. QED
        BY ONLY <4>1, <4>3
    <3>3. SideOff(r)[b - 1] + j = SideOff(r)[c - 1] + h
      BY <1>1, <2>2, <3>2
    <3>4. b = c
      BY <2>2, <3>2, <3>3, SideOnce
    <3>5. QED
      BY <2>2, <3>4
  <2>6. ASSUME d = b - 1
        PROVE  k - 1 \in o[d] .. o[c] - 1
    <3>1. c = b
      BY <2>2, <2>6
    <3>2. PICK x, y, l : x = o[d] /\ y = o[c] /\ l = Len(OwnFaces(r)[c])
      OBVIOUS
    <3>3. j \in 1 .. l /\ l \in Nat
      BY ONLY j \in 1 .. Len(OwnFaces(r)[b]), <2>3, <3>1, <3>2
    <3>4. x \in Nat /\ y = x + l /\ k = x + j
      BY ONLY <2>3, <2>4, <2>6, <3>2
    <3>5. k - 1 \in x .. y - 1
      BY ONLY <3>3, <3>4
    <3>6. QED
      BY ONLY <3>2, <3>5
  <2>7. QED
    BY <2>1, <2>5, <2>6
<1>5. \A d \in 0 .. 3 : k - 1 \in StartAndEnd(SideLists(r))[d]
                           .. StartAndEnd(SideLists(r))[d + 1] - 1 <=> d = b - 1
  <2>1. \A d \in 0 .. 3 : d \in 0 .. 4 /\ d + 1 \in 0 .. 4
    OBVIOUS
  <2>2. QED
    BY <1>2, <1>4, <2>1
<1>6. b - 1 \in 0 .. 3
  OBVIOUS
<1>7. PICK P : P = StartAndEnd(SideLists(r))
  OBVIOUS
<1>8. \A d \in 0 .. 3 : k - 1 \in P[d] .. P[d + 1] - 1 <=> d = b - 1
  BY ONLY <1>5, <1>7
<1>9. (CHOOSE d \in 0 .. 3 : k - 1 \in P[d] .. P[d + 1] - 1) = b - 1
  BY ONLY <1>6, <1>8
<1>10. QED
  BY ONLY <1>7, <1>9 DEF Between

\* the sides, told by the centres of their faces
LEMMA CentreIs ==
    ASSUME GlobalsAre, NEW b \in 1 .. 4, NEW c \in Cells(mesh)
    PROVE  Centre(b, c)[2] = 0 <=> b = 1
<1>1. YOf[c] # 0
  <2>1. Row(mesh, c) \in Int
    BY CellFacts DEF GlobalsAre, IsMesh
  <2>2. YOf[c] = 2 * Row(mesh, c) + 1
    BY DEF YOf
  <2>3. QED
    BY <2>1, <2>2
<1>2. 2 * mesh.Ny # 0
  BY DEF GlobalsAre, IsMesh
<1>3. CASE b = 1
  BY <1>3 DEF Centre
<1>4. CASE b = 2
  BY <1>2, <1>4 DEF Centre
<1>5. CASE b = 3
  BY <1>1, <1>5 DEF Centre
<1>6. CASE b = 4
  BY <1>1, <1>6 DEF Centre
<1>7. QED
  BY <1>3, <1>4, <1>5, <1>6

LEMMA ValuesFollow ==
    ASSUME SetupInv, FacesInv
    PROVE  SidesHaveTheirValues
<1>1. SUFFICES ASSUME NEW r \in Procs, Past(r, "grid"), NEW k \in Attached(r)
               PROVE  solver[r].Q_boundary_local[k]
                         = IF grid[r].boundary[k].xcen[2] = 0 THEN 100 ELSE 0
  BY DEF SidesHaveTheirValues
<1>2. At(r) \in 9 .. 11
  BY <1>1, PastIs, RankIs DEF Place
<1>3. GlobalsAre /\ LaidOut(r, grid[r]) /\ ValuesLaid(r, grid[r], solver[r].Q_boundary_local)
  BY <1>2, RankIs DEF FacesInv, FacesOK
<1>4. k \in DOMAIN FlattenSeq(SideLists(r)) /\ k \in DOMAIN grid[r].boundary
  BY <1>1, <1>3 DEF LaidOut, Attached
<1>5. PICK b \in 1 .. 4 : \E j \in 1 .. Len(OwnFaces(r)[b]) : SideOn(r, k, b, j)
  BY <1>3, <1>4, SideAt
<1>6. PICK j \in 1 .. Len(OwnFaces(r)[b]) : SideOn(r, k, b, j)
  BY ONLY <1>5
<1>7. PICK c : c = OwnFaces(r)[b][j]
  OBVIOUS
<1>8. c \in Cells(mesh)
  BY <1>6, <1>7 DEF SideOn, OwnOn, Own
<1>9. grid[r].boundary[k] = SideFace(b, c)
  BY <1>3, <1>6, <1>7 DEF LaidOut, SideOn
<1>10. grid[r].boundary[k].xcen = Centre(b, c)
  BY <1>9 DEF SideFace
<1>11. grid[r].boundary[k].xcen[2] = 0 <=> b = 1
  BY <1>3, <1>8, <1>10, CentreIs
<1>12. solver[r].Q_boundary_local[k] = SideValue[b - 1]
  <2>1. PICK o, bo, P : /\ o = grid[r].boundary_type_start_and_end_index
                        /\ bo = grid[r].boundary /\ P = StartAndEnd(SideLists(r))
    OBVIOUS
  <2>2. o = P
    BY <1>3, <2>1 DEF LaidOut
  <2>3. (CHOOSE d \in 0 .. 3 : k - 1 \in P[d] .. P[d + 1] - 1) = b - 1
    <3>1. k = SideOff(r)[b - 1] + j
      BY <1>6 DEF SideOn
    <3>2. Between(StartAndEnd(SideLists(r)), k) = b - 1
      BY ONLY <1>3, b \in 1 .. 4, j \in 1 .. Len(OwnFaces(r)[b]), <3>1, SideBetween
    <3>3. QED
      BY ONLY <2>1, <3>2 DEF Between
  <2>4. solver[r].Q_boundary_local =
           [l \in DOMAIN bo |-> SideValue[CHOOSE d \in 0 .. 3 : l - 1 \in o[d] .. o[d + 1] - 1]]
    BY <1>3, <2>1 DEF ValuesLaid
  <2>5. k \in DOMAIN bo
    BY <1>4, <2>1
  <2>6. solver[r].Q_boundary_local[k]
           = SideValue[CHOOSE d \in 0 .. 3 : k - 1 \in o[d] .. o[d + 1] - 1]
    BY ONLY <2>4, <2>5
  <2>7. QED
    BY ONLY <2>2, <2>3, <2>6
<1>13. SideValue[b - 1] = IF b = 1 THEN 100 ELSE 0
  BY DEF SideValue
<1>14. QED
  BY <1>11, <1>12, <1>13

\* The boundary faces with the value 1e2 are those at the bottom: the index under which
\* set_boundary_conditions finds a face is that of its side in generate_grid.
THEOREM SidesHaveTheirValuesHolds == Spec => []SidesHaveTheirValues
<1>1. SetupInv /\ FacesInv => SidesHaveTheirValues
  BY ValuesFollow
<1>2. QED
  BY <1>1, FacesInvHolds, PTL

-----------------------------------------------------------------------------
(* The faces around a cell.                                                 *)

\* the neighbour that Stencil has across side b, and the face towards it
Turn(b) == CASE b = 1 -> 3 [] b = 2 -> 4 [] b = 3 -> 1 [] b = 4 -> 2
FaceOn(b) == [area |-> AreaOn(b), normal |-> Outward(b)]
PlaceOn(c, b) == Position(mesh, Column(mesh, c), Row(mesh, c), Turn(b))
NeighborOn(c, b, k) ==
    /\ b \in 1 .. 4 /\ ~OnSide(b, c)
    /\ k \in DOMAIN Neighbors(c) /\ k = PlaceOn(c, b)
    /\ Column(mesh, Neighbors(c)[k]) = Column(mesh, c) + Outward(b)[1]
    /\ Row(mesh, Neighbors(c)[k]) = Row(mesh, c) + Outward(b)[2]
    /\ Towards(c, Neighbors(c)[k]) = FaceOn(b)

LEMMA OutwardIs ==
    /\ Outward(1)[1] = 0 /\ Outward(1)[2] = -1 /\ Outward(2)[1] = 0 /\ Outward(2)[2] = 1
    /\ Outward(3)[1] = -1 /\ Outward(3)[2] = 0 /\ Outward(4)[1] = 1 /\ Outward(4)[2] = 0
    /\ Outward(1) = <<0, -1>> /\ Outward(2) = <<0, 1>>
    /\ Outward(3) = <<-1, 0>> /\ Outward(4) = <<1, 0>>
BY DEF Outward

LEMMA TwoStep ==
    ASSUME NEW b \in 1 .. 4, NEW x, x = 2 * Outward(b)[1], NEW y, y = 2 * Outward(b)[2]
    PROVE  InnerFace(<<x, y>>) = FaceOn(b)
<1>1. PICK d : d = <<x, y>>
  OBVIOUS
<1>2. d[1] = x /\ d[2] = y
  BY <1>1
<1>3. InnerFace(d) = [area   |-> IF x # 0 /\ y = 0 THEN "dy" ELSE "dx",
                      normal |-> <<Sign(x), Sign(y)>>]
  BY <1>2 DEF InnerFace
<1>4. b = 1 \/ b = 2 \/ b = 3 \/ b = 4
  OBVIOUS
<1>5. CASE b = 1
  <2>1. x = 0 /\ y = -2
    BY <1>5, OutwardIs
  <2>2. Sign(x) = 0 /\ Sign(y) = -1
    BY <2>1 DEF Sign
  <2>3. AreaOn(b) = "dx" /\ Outward(b) = <<0, -1>>
    BY <1>5, OutwardIs DEF AreaOn
  <2>4. QED
    BY ONLY <1>1, <1>3, <2>1, <2>2, <2>3 DEF FaceOn
<1>6. CASE b = 2
  <2>1. x = 0 /\ y = 2
    BY <1>6, OutwardIs
  <2>2. Sign(x) = 0 /\ Sign(y) = 1
    BY <2>1 DEF Sign
  <2>3. AreaOn(b) = "dx" /\ Outward(b) = <<0, 1>>
    BY <1>6, OutwardIs DEF AreaOn
  <2>4. QED
    BY ONLY <1>1, <1>3, <2>1, <2>2, <2>3 DEF FaceOn
<1>7. CASE b = 3
  <2>1. x = -2 /\ y = 0
    BY <1>7, OutwardIs
  <2>2. Sign(x) = -1 /\ Sign(y) = 0
    BY <2>1 DEF Sign
  <2>3. AreaOn(b) = "dy" /\ Outward(b) = <<-1, 0>>
    BY <1>7, OutwardIs DEF AreaOn
  <2>4. QED
    BY ONLY <1>1, <1>3, <2>1, <2>2, <2>3 DEF FaceOn
<1>8. CASE b = 4
  <2>1. x = 2 /\ y = 0
    BY <1>8, OutwardIs
  <2>2. Sign(x) = 1 /\ Sign(y) = 0
    BY <2>1 DEF Sign
  <2>3. AreaOn(b) = "dy" /\ Outward(b) = <<1, 0>>
    BY <1>8, OutwardIs DEF AreaOn
  <2>4. QED
    BY ONLY <1>1, <1>3, <2>1, <2>2, <2>3 DEF FaceOn
<1>9. QED
  BY <1>4, <1>5, <1>6, <1>7, <1>8

\* the cell there
LEMMA CellStands ==
    ASSUME GlobalsAre, NEW c \in Cells(mesh)
    PROVE  \E m, i, j, s : /\ m = mesh /\ i = Column(mesh, c) /\ j = Row(mesh, c)
                           /\ s = Neighbors(c)
                           /\ IsMesh(m) /\ i \in 0 .. m.Nx - 1 /\ j \in 0 .. m.Ny - 1
                           /\ i \in Nat /\ j \in Nat /\ m.Nx \in Nat /\ m.Ny \in Nat
                           /\ s = Stencil(m, i, j) /\ s \in Seq(Int)
                           /\ DOMAIN s = 1 .. Len(s) /\ Len(s) = Position(m, i, j, 4)
<1>1. PICK i, j, m, s : i = Column(m, c) /\ j = Row(m, c) /\ m = mesh /\ s = Neighbors(c)
  OBVIOUS
<1>2. /\ c \in Cells(m) /\ IsMesh(m)
      /\ i \in 0 .. m.Nx - 1 /\ j \in 0 .. m.Ny - 1 /\ s = Stencil(m, i, j)
      /\ m.Nx \in Nat /\ m.Ny \in Nat
  BY <1>1, RankFacts, CellFacts DEF CellStencil, GlobalsAre, IsMesh
<1>3. s \in Seq(Int) /\ Len(s) = Position(m, i, j, 4)
  BY <1>2, StencilFacts
<1>4. DOMAIN s = 1 .. Len(s) /\ i \in Nat /\ j \in Nat
  BY <1>2, <1>3
<1>5. QED
  BY <1>1, <1>2, <1>3, <1>4

LEMMA NeighborPlace ==
    ASSUME GlobalsAre, NEW c \in Cells(mesh), NEW b \in 1 .. 4, ~OnSide(b, c)
    PROVE  NeighborOn(c, b, PlaceOn(c, b))
<1>1. PICK m, i, j, s : /\ m = mesh /\ i = Column(mesh, c) /\ j = Row(mesh, c)
                        /\ s = Neighbors(c)
                        /\ IsMesh(m) /\ i \in 0 .. m.Nx - 1 /\ j \in 0 .. m.Ny - 1
                        /\ i \in Nat /\ j \in Nat /\ m.Nx \in Nat /\ m.Ny \in Nat
                        /\ s = Stencil(m, i, j) /\ s \in Seq(Int)
                        /\ DOMAIN s = 1 .. Len(s) /\ Len(s) = Position(m, i, j, 4)
  BY CellStands
<1>2. PICK q, k, d : q = Turn(b) /\ k = PlaceOn(c, b) /\ d = Beside(m, i, j, q)
  OBVIOUS
<1>3. b = 1 \/ b = 2 \/ b = 3 \/ b = 4
  OBVIOUS
<1>4. q \in 1 .. 4 /\ Has(m, i, j, q)
  <2>0. m = mesh /\ i \in 0 .. m.Nx - 1 /\ j \in 0 .. m.Ny - 1 /\ m.Nx \in Nat /\ m.Ny \in Nat
    BY ONLY <1>1
  <2>1. CASE b = 1
    <3>1. q = 3
      BY <1>2, <2>1 DEF Turn
    <3>2. j # 0
      BY <1>1, <2>1 DEF OnSide
    <3>3. QED
      BY ONLY <2>0, <3>1, <3>2 DEF Has
  <2>2. CASE b = 2
    <3>1. q = 4
      BY <1>2, <2>2 DEF Turn
    <3>2. j # m.Ny - 1
      BY <1>1, <2>2 DEF OnSide
    <3>3. QED
      BY ONLY <2>0, <3>1, <3>2 DEF Has
  <2>3. CASE b = 3
    <3>1. q = 1
      BY <1>2, <2>3 DEF Turn
    <3>2. i # 0
      BY <1>1, <2>3 DEF OnSide
    <3>3. QED
      BY ONLY <2>0, <3>1, <3>2 DEF Has
  <2>4. CASE b = 4
    <3>1. q = 2
      BY <1>2, <2>4 DEF Turn
    <3>2. i # m.Nx - 1
      BY <1>1, <2>4 DEF OnSide
    <3>3. QED
      BY ONLY <2>0, <3>1, <3>2 DEF Has
  <2>5. QED
    BY ONLY <1>3, <2>1, <2>2, <2>3, <2>4
<1>5. k = Position(m, i, j, q) /\ k \in DOMAIN s /\ s[k] = d /\ d \in Cells(mesh)
  <2>1. k = Position(m, i, j, q)
    BY <1>1, <1>2 DEF PlaceOn
  <2>2. k \in 1 .. Len(s) /\ d \in Cells(m)
    BY <1>1, <1>2, <1>4, <2>1, BesideFacts
  <2>3. s[k] = d
    BY <1>1, <1>2, <1>4, <2>1, StencilFacts
  <2>4. QED
    BY <1>1, <2>1, <2>2, <2>3
<1>6. Column(mesh, d) = i + Outward(b)[1] /\ Row(mesh, d) = j + Outward(b)[2]
  <2>1. /\ Column(m, d) = (CASE q = 1 -> i - 1 [] q = 2 -> i + 1 [] q = 3 -> i [] q = 4 -> i)
        /\ Row(m, d) = (CASE q = 1 -> j [] q = 2 -> j [] q = 3 -> j - 1 [] q = 4 -> j + 1)
    BY <1>1, <1>2, <1>4, BesideFacts
  <2>2. CASE b = 1
    <3>1. q = 3
      BY <1>2, <2>2 DEF Turn
    <3>2. QED
      BY <1>1, <2>1, <2>2, <3>1, OutwardIs
  <2>3. CASE b = 2
    <3>1. q = 4
      BY <1>2, <2>3 DEF Turn
    <3>2. QED
      BY <1>1, <2>1, <2>3, <3>1, OutwardIs
  <2>4. CASE b = 3
    <3>1. q = 1
      BY <1>2, <2>4 DEF Turn
    <3>2. QED
      BY <1>1, <2>1, <2>4, <3>1, OutwardIs
  <2>5. CASE b = 4
    <3>1. q = 2
      BY <1>2, <2>5 DEF Turn
    <3>2. QED
      BY <1>1, <2>1, <2>5, <3>1, OutwardIs
  <2>6. QED
    BY <1>3, <2>2, <2>3, <2>4, <2>5
<1>7. Towards(c, d) = FaceOn(b)
  <2>1. /\ XOf[c] = 2 * i + 1 /\ YOf[c] = 2 * j + 1
        /\ XOf[d] = 2 * (i + Outward(b)[1]) + 1 /\ YOf[d] = 2 * (j + Outward(b)[2]) + 1
    BY <1>1, <1>5, <1>6 DEF XOf, YOf
  <2>2. PICK u, v, x, y : /\ u = Outward(b)[1] /\ v = Outward(b)[2]
                          /\ x = XOf[d] - XOf[c] /\ y = YOf[d] - YOf[c]
    OBVIOUS
  <2>3. u \in Int /\ v \in Int
    BY <1>3, <2>2, OutwardIs
  <2>4. x = 2 * u /\ y = 2 * v
    <3>1. x = (2 * (i + u) + 1) - (2 * i + 1) /\ y = (2 * (j + v) + 1) - (2 * j + 1)
      BY ONLY <2>1, <2>2
    <3>2. i \in Nat /\ j \in Nat
      BY ONLY <1>1
    <3>3. QED
      BY ONLY <2>3, <3>1, <3>2
  <2>5. InnerFace(<<x, y>>) = FaceOn(b)
    BY <2>2, <2>4, TwoStep
  <2>6. QED
    BY <2>2, <2>5 DEF Towards
<1>8. QED
  BY <1>1, <1>2, <1>5, <1>6, <1>7 DEF NeighborOn

LEMMA EachNeighbor ==
    ASSUME GlobalsAre, NEW c \in Cells(mesh), NEW k \in DOMAIN Neighbors(c)
    PROVE  \E b \in 1 .. 4 : NeighborOn(c, b, k)
<1>1. PICK m, i, j, s : /\ m = mesh /\ i = Column(mesh, c) /\ j = Row(mesh, c)
                        /\ s = Neighbors(c)
                        /\ IsMesh(m) /\ i \in 0 .. m.Nx - 1 /\ j \in 0 .. m.Ny - 1
                        /\ i \in Nat /\ j \in Nat /\ m.Nx \in Nat /\ m.Ny \in Nat
                        /\ s = Stencil(m, i, j) /\ s \in Seq(Int)
                        /\ DOMAIN s = 1 .. Len(s) /\ Len(s) = Position(m, i, j, 4)
  BY CellStands
<1>2. k \in 1 .. Len(Stencil(m, i, j))
  BY <1>1
<1>3. PICK q \in 1 .. 4 : Has(m, i, j, q) /\ k = Position(m, i, j, q)
  BY <1>1, <1>2, EachPlace
<1>4. PICK b : b = Turn(q)
  OBVIOUS
<1>5. q = 1 \/ q = 2 \/ q = 3 \/ q = 4
  OBVIOUS
<1>6. b \in 1 .. 4 /\ q = Turn(b)
  BY <1>4, <1>5 DEF Turn
<1>7. ~OnSide(b, c)
  <2>0. m = mesh /\ i \in 0 .. m.Nx - 1 /\ j \in 0 .. m.Ny - 1 /\ m.Nx \in Nat /\ m.Ny \in Nat
    BY ONLY <1>1
  <2>1. CASE q = 3
    <3>1. b = 1
      BY <1>4, <2>1 DEF Turn
    <3>2. j # 0
      BY <2>0, <1>3, <2>1 DEF Has
    <3>3. QED
      BY <1>1, <3>1, <3>2 DEF OnSide
  <2>2. CASE q = 4
    <3>1. b = 2
      BY <1>4, <2>2 DEF Turn
    <3>2. j # m.Ny - 1
      BY <2>0, <1>3, <2>2 DEF Has
    <3>3. QED
      BY <1>1, <3>1, <3>2 DEF OnSide
  <2>3. CASE q = 1
    <3>1. b = 3
      BY <1>4, <2>3 DEF Turn
    <3>2. i # 0
      BY <2>0, <1>3, <2>3 DEF Has
    <3>3. QED
      BY <1>1, <3>1, <3>2 DEF OnSide
  <2>4. CASE q = 2
    <3>1. b = 4
      BY <1>4, <2>4 DEF Turn
    <3>2. i # m.Nx - 1
      BY <2>0, <1>3, <2>4 DEF Has
    <3>3. QED
      BY <1>1, <3>1, <3>2 DEF OnSide
  <2>5. QED
    BY ONLY <1>5, <2>1, <2>2, <2>3, <2>4
<1>8. k = PlaceOn(c, b)
  BY <1>1, <1>3, <1>6 DEF PlaceOn
<1>9. QED
  BY <1>6, <1>7, <1>8, NeighborPlace

\* no neighbour is listed twice
LEMMA NeighborOnce ==
    ASSUME GlobalsAre, NEW c \in Cells(mesh), NEW k \in DOMAIN Neighbors(c),
           NEW l \in DOMAIN Neighbors(c), Neighbors(c)[k] = Neighbors(c)[l]
    PROVE  k = l
<1>1. PICK b \in 1 .. 4 : NeighborOn(c, b, k)
  BY EachNeighbor
<1>2. PICK d \in 1 .. 4 : NeighborOn(c, d, l)
  BY EachNeighbor
<1>3. PICK i, j, x, y, u, v : /\ i = Column(mesh, c) /\ j = Row(mesh, c)
                              /\ x = Outward(b)[1] /\ y = Outward(b)[2]
                              /\ u = Outward(d)[1] /\ v = Outward(d)[2]
  OBVIOUS
<1>4. i + x = i + u /\ j + y = j + v
  BY <1>1, <1>2, <1>3 DEF NeighborOn
<1>5. i \in Nat /\ j \in Nat
  BY <1>3, CellStands
<1>6. (b = 1 \/ b = 2 \/ b = 3 \/ b = 4) /\ (d = 1 \/ d = 2 \/ d = 3 \/ d = 4)
  OBVIOUS
<1>7. x \in Int /\ y \in Int /\ u \in Int /\ v \in Int
  BY <1>3, <1>6, OutwardIs
<1>8. x = u /\ y = v
  BY <1>4, <1>5, <1>7
<1>9. b = d
  <2>1. \A e, f \in 1 .. 4 : Outward(e)[1] = Outward(f)[1] /\ Outward(e)[2] = Outward(f)[2]
                               => e = f
    <3>1. TAKE e, f \in 1 .. 4
    <3>2. HAVE Outward(e)[1] = Outward(f)[1] /\ Outward(e)[2] = Outward(f)[2]
    <3>3. (e = 1 \/ e = 2 \/ e = 3 \/ e = 4) /\ (f = 1 \/ f = 2 \/ f = 3 \/ f = 4)
      OBVIOUS
    <3>4. CASE e = 1
      BY ONLY <3>2, <3>3, <3>4, OutwardIs
    <3>5. CASE e = 2
      BY ONLY <3>2, <3>3, <3>5, OutwardIs
    <3>6. CASE e = 3
      BY ONLY <3>2, <3>3, <3>6, OutwardIs
    <3>7. CASE e = 4
      BY ONLY <3>2, <3>3, <3>7, OutwardIs
    <3>8. QED
      BY ONLY <3>3, <3>4, <3>5, <3>6, <3>7
  <2>2. QED
    BY ONLY <1>3, <1>8, <2>1
<1>10. QED
  BY <1>1, <1>2, <1>9 DEF NeighborOn

LEMMA AddIf ==
    ASSUME NEW T, IsFiniteSet(T), NEW x, x \notin T, NEW P \in BOOLEAN,
           NEW U, U = IF P THEN T \union {x} ELSE T
    PROVE  IsFiniteSet(U) /\ Cardinality(U) = Cardinality(T) + One(P) /\ Cardinality(U) \in Nat
<1>1. Cardinality(T) \in Nat
  BY FS_CardinalityType
<1>2. CASE P
  <2>1. U = T \union {x} /\ One(P) = 1
    BY <1>2 DEF One
  <2>2. QED
    <3>1. /\ IsFiniteSet(T \union {x})
          /\ Cardinality(T \union {x}) = IF x \in T THEN Cardinality(T) ELSE Cardinality(T) + 1
      BY FS_AddElement
    <3>2. QED
      BY <1>1, <2>1, <3>1
<1>3. CASE ~P
  <2>1. U = T /\ One(P) = 0
    BY <1>3 DEF One
  <2>2. QED
    BY <1>1, <2>1
<1>4. QED
  BY <1>2, <1>3

LEMMA CountOf ==
    ASSUME NEW S \in SUBSET (1 .. 4)
    PROVE  /\ IsFiniteSet(S)
           /\ Cardinality(S) = One(1 \in S) + One(2 \in S) + One(3 \in S) + One(4 \in S)
<1>1. IsFiniteSet({}) /\ Cardinality({}) = 0
  BY FS_EmptySet
<1>2. PICK p, q, u, v : p = (1 \in S) /\ q = (2 \in S) /\ u = (3 \in S) /\ v = (4 \in S)
  OBVIOUS
<1>3. p \in BOOLEAN /\ q \in BOOLEAN /\ u \in BOOLEAN /\ v \in BOOLEAN
  BY ONLY <1>2
<1>4. PICK A : A = IF p THEN {} \union {1} ELSE {}
  OBVIOUS
<1>5. PICK B : B = IF q THEN A \union {2} ELSE A
  OBVIOUS
<1>6. PICK C : C = IF u THEN B \union {3} ELSE B
  OBVIOUS
<1>7. PICK D : D = IF v THEN C \union {4} ELSE C
  OBVIOUS
<1>8. A \subseteq {1} /\ B \subseteq {1, 2} /\ C \subseteq {1, 2, 3}
  BY ONLY <1>4, <1>5, <1>6
<1>9. 1 \notin {} /\ 2 \notin A /\ 3 \notin B /\ 4 \notin C
  BY ONLY <1>8
<1>10. S = D
  <2>1. 1 .. 4 = {1, 2, 3, 4}
    OBVIOUS
  <2>2. S \subseteq {1, 2, 3, 4}
    BY <2>1
  <2>3. A = S \intersect {1}
    BY ONLY <1>2, <1>4
  <2>4. B = S \intersect {1, 2}
    BY ONLY <1>2, <1>5, <2>3
  <2>5. C = S \intersect {1, 2, 3}
    BY ONLY <1>2, <1>6, <2>4
  <2>6. D = S \intersect {1, 2, 3, 4}
    BY ONLY <1>2, <1>7, <2>5
  <2>7. QED
    BY ONLY <2>2, <2>6
<1>11. IsFiniteSet(A) /\ Cardinality(A) = Cardinality({}) + One(p)
  BY ONLY <1>1, <1>3, <1>4, <1>9, AddIf
<1>12. IsFiniteSet(B) /\ Cardinality(B) = Cardinality(A) + One(q)
  BY ONLY <1>11, <1>3, <1>5, <1>9, AddIf
<1>13. IsFiniteSet(C) /\ Cardinality(C) = Cardinality(B) + One(u)
  BY ONLY <1>12, <1>3, <1>6, <1>9, AddIf
<1>14. IsFiniteSet(D) /\ Cardinality(D) = Cardinality(C) + One(v)
  BY ONLY <1>13, <1>3, <1>7, <1>9, AddIf
<1>15. PICK x, y, z, w : x = One(p) /\ y = One(q) /\ z = One(u) /\ w = One(v)
  OBVIOUS
<1>16. x \in Nat /\ y \in Nat /\ z \in Nat /\ w \in Nat
  BY ONLY <1>15 DEF One
<1>17. Cardinality(D) = x + y + z + w
  BY ONLY <1>1, <1>11, <1>12, <1>13, <1>14, <1>15, <1>16
<1>18. QED
  BY ONLY <1>2, <1>10, <1>14, <1>15, <1>17

\* a cell has a neighbour on each side that is not a side of the mesh
SidesOf(c) == {b \in 1 .. 4 : OnSide(b, c)}
LEMMA FourSides ==
    ASSUME GlobalsAre, NEW c \in Cells(mesh)
    PROVE  Len(Neighbors(c)) + Cardinality(SidesOf(c)) = 4 /\ IsFiniteSet(SidesOf(c))
<1>1. PICK m, i, j, s : /\ m = mesh /\ i = Column(mesh, c) /\ j = Row(mesh, c)
                        /\ s = Neighbors(c)
                        /\ IsMesh(m) /\ i \in 0 .. m.Nx - 1 /\ j \in 0 .. m.Ny - 1
                        /\ i \in Nat /\ j \in Nat /\ m.Nx \in Nat /\ m.Ny \in Nat
                        /\ s = Stencil(m, i, j) /\ s \in Seq(Int)
                        /\ DOMAIN s = 1 .. Len(s) /\ Len(s) = Position(m, i, j, 4)
  BY CellStands
<1>2. PICK S : S = SidesOf(c)
  OBVIOUS
<1>3. S \in SUBSET (1 .. 4)
  BY <1>2 DEF SidesOf
<1>4. /\ 1 \in S <=> j = 0
      /\ 2 \in S <=> j = m.Ny - 1
      /\ 3 \in S <=> i = 0
      /\ 4 \in S <=> i = m.Nx - 1
  BY <1>1, <1>2 DEF SidesOf, OnSide
<1>5. PICK a, b, d, e : /\ a = One(1 \in S) /\ b = One(2 \in S)
                        /\ d = One(3 \in S) /\ e = One(4 \in S)
  OBVIOUS
<1>6. PICK x, y, z, w : /\ x = One(i > 0) /\ y = One(i < m.Nx - 1)
                        /\ z = One(j > 0) /\ w = One(j < m.Ny - 1)
  OBVIOUS
<1>7. i \in 0 .. m.Nx - 1 /\ j \in 0 .. m.Ny - 1 /\ m.Nx \in Nat /\ m.Ny \in Nat
  BY ONLY <1>1
<1>8. /\ x \in Nat /\ y \in Nat /\ z \in Nat /\ w \in Nat
      /\ a \in Nat /\ b \in Nat /\ d \in Nat /\ e \in Nat
  BY ONLY <1>5, <1>6 DEF One
<1>9. x + d = 1
  BY ONLY <1>4, <1>5, <1>6, <1>7 DEF One
<1>10. y + e = 1
  BY ONLY <1>4, <1>5, <1>6, <1>7 DEF One
<1>11. z + a = 1
  BY ONLY <1>4, <1>5, <1>6, <1>7 DEF One
<1>12. w + b = 1
  BY ONLY <1>4, <1>5, <1>6, <1>7 DEF One
<1>13. Cardinality(S) = a + b + d + e /\ IsFiniteSet(S)
  BY ONLY <1>3, <1>5, CountOf
<1>14. Len(s) = x + y + z + w
  BY ONLY <1>1, <1>6 DEF Position
<1>15. Len(s) + Cardinality(S) = 4
  BY ONLY <1>8, <1>9, <1>10, <1>11, <1>12, <1>13, <1>14
<1>16. QED
  BY ONLY <1>1, <1>2, <1>13, <1>15

-----------------------------------------------------------------------------
\* the boundary faces of a cell: one for each side it is on
AttachedTo(r, c) ==
    {k \in DOMAIN FlattenSeq(SideLists(r)) : FlattenSeq(SideLists(r))[k].cell = Local(c)}
FaceAt(r, k, b, c) ==
    /\ k \in AttachedTo(r, c) /\ FlattenSeq(SideLists(r))[k] = SideFace(b, c)
    /\ \E j \in 1 .. Len(OwnFaces(r)[b]) : SideOn(r, k, b, j) /\ OwnFaces(r)[b][j] = c

LEMMA FaceThere ==
    ASSUME GlobalsAre, NEW r, NEW c \in Own(r), NEW b \in SidesOf(c)
    PROVE  \E k : FaceAt(r, k, b, c)
<1>1. b \in 1 .. 4 /\ c \in OwnOn(r, b)
  BY DEF SidesOf, OwnOn
<1>2. PICK j \in 1 .. Len(OwnFaces(r)[b]) : OwnFaces(r)[b][j] = c
  <2>1. \A e \in OwnOn(r, b) : \E k \in 1 .. Len(OwnFaces(r)[b]) : OwnFaces(r)[b][k] = e
    BY <1>1, OwnFacesAre
  <2>2. QED
    BY ONLY <1>1, <2>1
<1>3. PICK k : k = SideOff(r)[b - 1] + j
  OBVIOUS
<1>4. SideOn(r, k, b, j)
  BY <1>1, <1>3, SideThere
<1>5. k \in DOMAIN FlattenSeq(SideLists(r)) /\ FlattenSeq(SideLists(r))[k] = SideFace(b, c)
  BY <1>2, <1>4 DEF SideOn
<1>6. SideFace(b, c).cell = Local(c)
  BY DEF SideFace
<1>7. k \in AttachedTo(r, c)
  BY <1>5, <1>6 DEF AttachedTo
<1>8. QED
  BY <1>2, <1>4, <1>5, <1>7 DEF FaceAt

LEMMA FaceOf ==
    ASSUME GlobalsAre, NEW r, NEW c \in Own(r), NEW k \in AttachedTo(r, c)
    PROVE  \E b \in SidesOf(c) : FaceAt(r, k, b, c)
<1>1. k \in DOMAIN FlattenSeq(SideLists(r)) /\ FlattenSeq(SideLists(r))[k].cell = Local(c)
  BY DEF AttachedTo
<1>2. PICK b \in 1 .. 4 : \E j \in 1 .. Len(OwnFaces(r)[b]) : SideOn(r, k, b, j)
  BY <1>1, SideAt
<1>3. PICK j \in 1 .. Len(OwnFaces(r)[b]) : SideOn(r, k, b, j)
  BY ONLY <1>2
<1>4. PICK d : d = OwnFaces(r)[b][j]
  OBVIOUS
<1>5. d \in Own(r) /\ OnSide(b, d) /\ FlattenSeq(SideLists(r))[k] = SideFace(b, d)
  BY <1>3, <1>4 DEF SideOn, OwnOn
<1>6. SideFace(b, d).cell = Local(d)
  BY DEF SideFace
<1>7. Local(c) = Local(d)
  BY ONLY <1>1, <1>5, <1>6
<1>8. CellOf(r, Local(c)) = c /\ CellOf(r, Local(d)) = d
  BY <1>5, OwnCellOf
<1>9. c = d
  BY ONLY <1>7, <1>8
<1>10. b \in SidesOf(c)
  BY <1>5, <1>9 DEF SidesOf
<1>11. QED
  BY <1>3, <1>4, <1>5, <1>9, <1>10 DEF FaceAt

LEMMA FaceOnce ==
    ASSUME GlobalsAre, NEW r, NEW c \in Own(r), NEW b \in SidesOf(c), NEW d \in SidesOf(c),
           NEW k, NEW l, FaceAt(r, k, b, c), FaceAt(r, l, d, c)
    PROVE  k = l <=> b = d
<1>1. b \in 1 .. 4 /\ d \in 1 .. 4
  BY DEF SidesOf
<1>2. PICK j \in 1 .. Len(OwnFaces(r)[b]) : SideOn(r, k, b, j) /\ OwnFaces(r)[b][j] = c
  BY DEF FaceAt
<1>3. PICK h \in 1 .. Len(OwnFaces(r)[d]) : SideOn(r, l, d, h) /\ OwnFaces(r)[d][h] = c
  BY DEF FaceAt
<1>4. k = SideOff(r)[b - 1] + j /\ l = SideOff(r)[d - 1] + h
  BY <1>2, <1>3 DEF SideOn
<1>5. ASSUME k = l
      PROVE  b = d
  BY <1>1, <1>4, <1>5, SideOnce
<1>6. ASSUME b = d
      PROVE  k = l
  <2>1. j = h
    BY <1>1, <1>2, <1>3, <1>6, OwnFacesAre
  <2>2. QED
    BY ONLY <1>4, <1>6, <2>1
<1>7. QED
  BY <1>5, <1>6

LEMMA AttachedAre ==
    ASSUME GlobalsAre, NEW r, NEW c \in Own(r)
    PROVE  Cardinality(AttachedTo(r, c)) = Cardinality(SidesOf(c))
<1>1. PICK S, A : S = SidesOf(c) /\ A = AttachedTo(r, c)
  OBVIOUS
<1>2. c \in Cells(mesh)
  BY DEF Own
<1>3. IsFiniteSet(S)
  BY <1>1, <1>2, FourSides
<1> DEFINE f == [b \in S |-> CHOOSE k : FaceAt(r, k, b, c)]
<1>4. ASSUME NEW b \in S
      PROVE  FaceAt(r, f[b], b, c)
  <2>1. \E k : FaceAt(r, k, b, c)
    BY <1>1, FaceThere
  <2>2. QED
    BY <2>1
<1>5. DOMAIN f = S /\ f = [b \in S |-> f[b]]
  OBVIOUS
<1> HIDE DEF f
<1>6. \A b \in S : f[b] \in A
  BY <1>1, <1>4 DEF FaceAt
<1>7. \A b, d \in S : f[b] = f[d] => b = d
  BY <1>1, <1>4, FaceOnce
<1>8. \A k \in A : \E b \in S : f[b] = k
  <2>1. TAKE k \in A
  <2>2. PICK b \in S : FaceAt(r, k, b, c)
    BY <1>1, FaceOf
  <2>3. f[b] = k
    BY <1>1, <1>4, <2>2, FaceOnce
  <2>4. QED
    BY <2>3
<1>9. f \in [S -> A]
  BY ONLY <1>5, <1>6
<1>10. f \in Bijection(S, A)
  BY ONLY <1>5, <1>7, <1>8, <1>9 DEF Bijection, Injection, Surjection, IsInjective
<1>11. ExistsBijection(S, A)
  BY ONLY <1>10 DEF ExistsBijection
<1>12. Cardinality(A) = Cardinality(S)
  BY ONLY <1>3, <1>11, FS_Bijection
<1>13. QED
  BY ONLY <1>1, <1>12

Pair(b) == <<Outward(b), AreaOn(b)>>
LEMMA PairsAre ==
    {Pair(b) : b \in 1 .. 4} = {<<<<0, -1>>, "dx">>, <<<<0, 1>>, "dx">>,
                                <<<<-1, 0>>, "dy">>, <<<<1, 0>>, "dy">>}
<1>1. 1 .. 4 = {1, 2, 3, 4}
  OBVIOUS
<1>2. /\ Pair(1) = <<<<0, -1>>, "dx">> /\ Pair(2) = <<<<0, 1>>, "dx">>
      /\ Pair(3) = <<<<-1, 0>>, "dy">> /\ Pair(4) = <<<<1, 0>>, "dy">>
  <2>1. AreaOn(1) = "dx" /\ AreaOn(2) = "dx" /\ AreaOn(3) = "dy" /\ AreaOn(4) = "dy"
    BY DEF AreaOn
  <2>2. QED
    BY <2>1, OutwardIs DEF Pair
<1>3. {Pair(b) : b \in 1 .. 4} = {Pair(1), Pair(2), Pair(3), Pair(4)}
  BY <1>1
<1>4. QED
  BY ONLY <1>2, <1>3, Zenon

\* what a rank knows of a cell of its own that it has laid out
LEMMA CellLaid ==
    ASSUME SetupInv, FacesInv, NEW r \in Procs, At(r) >= 8, NEW i \in 0 .. NS(r) - 1
    PROVE  \E c, s : /\ c = CellOf(r, i) /\ s = Neighbors(c) /\ GlobalsAre
                     /\ c \in Own(r) /\ c \in Cells(mesh) /\ RankOf(c) = r /\ Local(c) = i
                     /\ grid[r].local_global[i] = c /\ grid[r].global_local[c] = i
                     /\ DOMAIN Nbrs(r, i) = DOMAIN s /\ Len(Nbrs(r, i)) = Len(s)
                     /\ \A k \in DOMAIN s :
                           /\ s[k] \in Cells(mesh) /\ Adjacent(s[k], c)
                           /\ grid[r].local_global[Nbrs(r, i)[k]] = s[k]
                           /\ grid[r].face_local[i][k] = Towards(c, s[k])
                     /\ grid[r].boundary = FlattenSeq(SideLists(r))
<1>1. PICK c, s, l : c = CellOf(r, i) /\ s = Neighbors(c) /\ l = Nbrs(r, i)
  OBVIOUS
<1>2. /\ GlobalsAre /\ NumberedAre(r, grid[r]) /\ LaidOut(r, grid[r])
      /\ At(r) \in 0 .. 11
  BY RankIs DEF RankOK, FacesInv, FacesOK
<1>3. c \in Own(r) /\ c \in Cells(mesh) /\ Local(c) = i
  BY <1>1, <1>2, CellOfFacts
<1>4. RankOf(c) = r
  BY <1>3 DEF Own
<1>5. grid[r].local_global[i] = c /\ grid[r].global_local[c] = i
  BY <1>1, <1>2, <1>3 DEF NumberedAre
<1>6. /\ DOMAIN l = DOMAIN s /\ Len(l) = Len(s)
      /\ \A k \in DOMAIN s : grid[r].local_global[l[k]] = s[k]
  BY <1>1, <1>2, LocalNeighbors DEF Nbrs
<1>7. \A k \in DOMAIN s : s[k] \in Cells(mesh) /\ Adjacent(s[k], c)
  BY <1>1, <1>2, <1>3, NeighborHere
<1>8. \A k \in DOMAIN s : grid[r].face_local[i][k] = Towards(c, s[k])
  BY <1>1, <1>2 DEF LaidOut
<1>9. grid[r].boundary = FlattenSeq(SideLists(r))
  BY <1>2 DEF LaidOut
<1>10. QED
  BY ONLY <1>1, <1>2, <1>3, <1>4, <1>5, <1>6, <1>7, <1>8, <1>9

LEMMA ClosedIs ==
    ASSUME SetupInv, FacesInv, NEW r \in Procs, At(r) >= 8, NEW i \in 0 .. NS(r) - 1
    PROVE  Closed(r, i)
<1>1. PICK c, s : /\ c = CellOf(r, i) /\ s = Neighbors(c) /\ GlobalsAre
                  /\ c \in Own(r) /\ c \in Cells(mesh) /\ RankOf(c) = r /\ Local(c) = i
                  /\ grid[r].local_global[i] = c /\ grid[r].global_local[c] = i
                  /\ DOMAIN Nbrs(r, i) = DOMAIN s /\ Len(Nbrs(r, i)) = Len(s)
                  /\ \A k \in DOMAIN s :
                        /\ s[k] \in Cells(mesh) /\ Adjacent(s[k], c)
                        /\ grid[r].local_global[Nbrs(r, i)[k]] = s[k]
                        /\ grid[r].face_local[i][k] = Towards(c, s[k])
                  /\ grid[r].boundary = FlattenSeq(SideLists(r))
  BY CellLaid
<1>2. PICK fl, bo, S, A : /\ fl = grid[r].face_local[i] /\ bo = grid[r].boundary
                          /\ S = SidesOf(c) /\ A = AttachedTo(r, c)
  OBVIOUS
<1>3. {k \in Attached(r) : grid[r].boundary[k].cell = i} = A
  BY <1>1, <1>2 DEF Attached, AttachedTo
<1>4. Len(s) + Cardinality(A) = 4
  BY <1>1, <1>2, FourSides, AttachedAre
<1>5. {<<fl[k].normal, fl[k].area>> : k \in DOMAIN s} = {Pair(b) : b \in (1 .. 4) \ S}
  <2>1. ASSUME NEW b \in 1 .. 4, NEW k, NeighborOn(c, b, k)
        PROVE  b \in (1 .. 4) \ S /\ k \in DOMAIN s /\ <<fl[k].normal, fl[k].area>> = Pair(b)
    <3>1. ~OnSide(b, c) /\ k \in DOMAIN s /\ Towards(c, s[k]) = FaceOn(b)
      BY <1>1, <2>1 DEF NeighborOn
    <3>2. fl[k] = FaceOn(b)
      BY <1>1, <1>2, <3>1
    <3>3. fl[k].normal = Outward(b) /\ fl[k].area = AreaOn(b)
      BY <3>2 DEF FaceOn
    <3>4. b \in (1 .. 4) \ S
      BY <1>2, <3>1 DEF SidesOf
    <3>5. QED
      BY ONLY <3>1, <3>3, <3>4 DEF Pair
  <2>2. \A k \in DOMAIN s : \E b \in (1 .. 4) \ S : <<fl[k].normal, fl[k].area>> = Pair(b)
    <3>1. TAKE k \in DOMAIN s
    <3>2. PICK b \in 1 .. 4 : NeighborOn(c, b, k)
      BY <1>1, EachNeighbor
    <3>3. QED
      BY <2>1, <3>2
  <2>3. \A b \in (1 .. 4) \ S : \E k \in DOMAIN s : <<fl[k].normal, fl[k].area>> = Pair(b)
    <3>1. TAKE b \in (1 .. 4) \ S
    <3>2. b \in 1 .. 4 /\ ~OnSide(b, c)
      BY <1>2, <3>1 DEF SidesOf
    <3>3. NeighborOn(c, b, PlaceOn(c, b))
      BY <1>1, <3>2, NeighborPlace
    <3>4. QED
      BY <2>1, <3>2, <3>3
  <2>4. QED
    BY ONLY <2>2, <2>3
<1>6. {<<bo[k].normal, bo[k].area>> : k \in A} = {Pair(b) : b \in S}
  <2>1. ASSUME NEW b \in S, NEW k, FaceAt(r, k, b, c)
        PROVE  k \in A /\ <<bo[k].normal, bo[k].area>> = Pair(b)
    <3>1. k \in A /\ bo[k] = SideFace(b, c)
      BY <1>1, <1>2, <2>1 DEF FaceAt
    <3>2. bo[k].normal = Outward(b) /\ bo[k].area = AreaOn(b)
      BY <3>1 DEF SideFace
    <3>3. QED
      BY ONLY <3>1, <3>2 DEF Pair
  <2>2. \A k \in A : \E b \in S : <<bo[k].normal, bo[k].area>> = Pair(b)
    <3>1. TAKE k \in A
    <3>2. PICK b \in S : FaceAt(r, k, b, c)
      BY <1>1, <1>2, FaceOf
    <3>3. QED
      BY <2>1, <3>2
  <2>3. \A b \in S : \E k \in A : <<bo[k].normal, bo[k].area>> = Pair(b)
    <3>1. TAKE b \in S
    <3>2. PICK k : FaceAt(r, k, b, c)
      BY <1>1, <1>2, FaceThere
    <3>3. QED
      BY <2>1, <3>2
  <2>4. QED
    BY ONLY <2>2, <2>3
<1>7. S \subseteq 1 .. 4
  BY <1>2 DEF SidesOf
<1>8. {Pair(b) : b \in (1 .. 4) \ S} \union {Pair(b) : b \in S} = {Pair(b) : b \in 1 .. 4}
  BY ONLY <1>7
<1>9. {<<fl[k].normal, fl[k].area>> : k \in DOMAIN s}
         \union {<<bo[k].normal, bo[k].area>> : k \in A}
         = {<<<<0, -1>>, "dx">>, <<<<0, 1>>, "dx">>, <<<<-1, 0>>, "dy">>, <<<<1, 0>>, "dy">>}
  BY ONLY <1>5, <1>6, <1>8, PairsAre
<1>10. {<<grid[r].face_local[i][k].normal, grid[r].face_local[i][k].area>> :
           k \in DOMAIN Nbrs(r, i)} = {<<fl[k].normal, fl[k].area>> : k \in DOMAIN s}
  BY ONLY <1>1, <1>2
<1>11. {<<grid[r].boundary[k].normal, grid[r].boundary[k].area>> : k \in A}
          = {<<bo[k].normal, bo[k].area>> : k \in A}
  BY ONLY <1>2
<1>12. Len(Nbrs(r, i)) + Cardinality(A) = 4
  BY ONLY <1>1, <1>4
<1>13. QED
  BY ONLY <1>3, <1>9, <1>10, <1>11, <1>12 DEF Closed

LEMMA BothWays ==
    ASSUME GlobalsAre, NEW c \in Cells(mesh), NEW d \in Cells(mesh)
    PROVE  /\ Adjacent(c, d) <=> Adjacent(d, c)
           /\ Towards(d, c).area = Towards(c, d).area
           /\ \A x \in 1 .. 2 : Towards(d, c).normal[x] = -(Towards(c, d).normal[x])
<1>1. \A e \in Cells(mesh) : Column(mesh, e) \in Int /\ Row(mesh, e) \in Int
  BY CellFacts DEF GlobalsAre, IsMesh
<1>2. \A e \in Cells(mesh) : XOf[e] \in Int /\ YOf[e] \in Int
  BY <1>1 DEF XOf, YOf
<1>3. Adjacent(c, d) <=> Adjacent(d, c)
  <2>1. PICK i, j, u, v : /\ i = Column(mesh, c) /\ j = Row(mesh, c)
                          /\ u = Column(mesh, d) /\ v = Row(mesh, d)
    OBVIOUS
  <2>2. i \in Int /\ j \in Int /\ u \in Int /\ v \in Int
    BY <1>1, <2>1
  <2>3. AbsValue(i - u) = AbsValue(u - i) /\ AbsValue(j - v) = AbsValue(v - j)
    BY ONLY <2>2 DEF AbsValue
  <2>4. QED
    BY ONLY <2>1, <2>3 DEF Adjacent
<1>4. PICK p, q, x, y : /\ p = <<XOf[d] - XOf[c], YOf[d] - YOf[c]>>
                        /\ q = <<XOf[c] - XOf[d], YOf[c] - YOf[d]>>
                        /\ x = XOf[d] - XOf[c] /\ y = YOf[d] - YOf[c]
  OBVIOUS
<1>5. x \in Int /\ y \in Int
  BY <1>2, <1>4
<1>6. p[1] = x /\ p[2] = y /\ q[1] = -x /\ q[2] = -y
  <2>1. XOf[c] - XOf[d] = -x /\ YOf[c] - YOf[d] = -y
    BY <1>2, <1>4
  <2>2. QED
    BY <1>4, <2>1
<1>7. /\ Towards(c, d) = [area |-> IF x # 0 /\ y = 0 THEN "dy" ELSE "dx",
                          normal |-> <<Sign(x), Sign(y)>>]
      /\ Towards(d, c) = [area |-> IF -x # 0 /\ -y = 0 THEN "dy" ELSE "dx",
                          normal |-> <<Sign(-x), Sign(-y)>>]
  <2>1. Towards(c, d) = InnerFace(p) /\ Towards(d, c) = InnerFace(q)
    BY ONLY <1>4 DEF Towards
  <2>2. QED
    BY ONLY <1>6, <2>1 DEF InnerFace
<1>8. /\ Sign(-x) = -Sign(x) /\ Sign(-y) = -Sign(y)
      /\ (-x # 0 <=> x # 0) /\ (-y = 0 <=> y = 0)
  BY ONLY <1>5 DEF Sign
<1>9. Towards(d, c).area = Towards(c, d).area
  BY ONLY <1>7, <1>8
<1>10. /\ Towards(c, d).normal = <<Sign(x), Sign(y)>>
       /\ Towards(d, c).normal = <<-Sign(x), -Sign(y)>>
  BY ONLY <1>7, <1>8
<1>11. \A k \in 1 .. 2 : Towards(d, c).normal[k] = -(Towards(c, d).normal[k])
  <2>1. TAKE k \in 1 .. 2
  <2>2. k = 1 \/ k = 2
    OBVIOUS
  <2>3. QED
    BY ONLY <1>10, <2>2
<1>12. QED
  BY ONLY <1>3, <1>9, <1>11

\* the face between two cells, laid out from both
Meets(r, i, k, p) ==
    LET a == grid[r].local_global[i]
        b == grid[r].local_global[Nbrs(r, i)[k]]
        face == grid[r].face_local[i][k]
    IN  RankOf(b) = p =>
            LET j == grid[p].global_local[b]
                back == {l \in DOMAIN Nbrs(p, j) : grid[p].local_global[Nbrs(p, j)[l]] = a}
            IN  /\ Cardinality(back) = 1
                /\ \A l \in back : LET other == grid[p].face_local[j][l]
                                   IN  /\ other.area = face.area
                                       /\ \A x \in 1 .. 2 : other.normal[x] = -face.normal[x]
LEMMA MeetsIs ==
    ASSUME SetupInv, FacesInv, NEW r \in Procs, At(r) >= 8, NEW p \in Procs, At(p) >= 8,
           NEW i \in 0 .. NS(r) - 1, NEW k \in DOMAIN Nbrs(r, i)
    PROVE  Meets(r, i, k, p)
<1>1. PICK c, s : /\ c = CellOf(r, i) /\ s = Neighbors(c) /\ GlobalsAre
                  /\ c \in Own(r) /\ c \in Cells(mesh) /\ RankOf(c) = r /\ Local(c) = i
                  /\ grid[r].local_global[i] = c /\ grid[r].global_local[c] = i
                  /\ DOMAIN Nbrs(r, i) = DOMAIN s /\ Len(Nbrs(r, i)) = Len(s)
                  /\ \A h \in DOMAIN s :
                        /\ s[h] \in Cells(mesh) /\ Adjacent(s[h], c)
                        /\ grid[r].local_global[Nbrs(r, i)[h]] = s[h]
                        /\ grid[r].face_local[i][h] = Towards(c, s[h])
                  /\ grid[r].boundary = FlattenSeq(SideLists(r))
  BY CellLaid
<1>2. PICK d : d = s[k]
  OBVIOUS
<1>3. /\ d \in Cells(mesh) /\ Adjacent(d, c) /\ grid[r].local_global[Nbrs(r, i)[k]] = d
      /\ grid[r].face_local[i][k] = Towards(c, d)
  BY <1>1, <1>2
<1>4. CASE RankOf(d) # p
  BY <1>3, <1>4 DEF Meets
<1>5. CASE RankOf(d) = p
  <2>1. d \in Own(p)
    BY <1>3, <1>5 DEF Own
  <2>2. PICK j : j = Local(d)
    OBVIOUS
  <2>3. j \in 0 .. NS(p) - 1 /\ CellOf(p, j) = d
    BY <1>1, <2>1, <2>2, OwnCellOf
  <2>4. PICK e, t : /\ e = CellOf(p, j) /\ t = Neighbors(e) /\ GlobalsAre
                    /\ e \in Own(p) /\ e \in Cells(mesh) /\ RankOf(e) = p /\ Local(e) = j
                    /\ grid[p].local_global[j] = e /\ grid[p].global_local[e] = j
                    /\ DOMAIN Nbrs(p, j) = DOMAIN t /\ Len(Nbrs(p, j)) = Len(t)
                    /\ \A h \in DOMAIN t :
                          /\ t[h] \in Cells(mesh) /\ Adjacent(t[h], e)
                          /\ grid[p].local_global[Nbrs(p, j)[h]] = t[h]
                          /\ grid[p].face_local[j][h] = Towards(e, t[h])
                    /\ grid[p].boundary = FlattenSeq(SideLists(p))
    BY <2>3, CellLaid
  <2>5. e = d /\ grid[p].global_local[d] = j /\ t = Neighbors(d)
    BY ONLY <2>3, <2>4
  <2>6. PICK back : back = {l \in DOMAIN Nbrs(p, j) :
                               grid[p].local_global[Nbrs(p, j)[l]] = c}
    OBVIOUS
  <2>7. \A l : l \in back <=> l \in DOMAIN t /\ t[l] = c
    BY ONLY <2>4, <2>6
  <2>8. \E l \in DOMAIN t : t[l] = c
    <3>1. Adjacent(c, d)
      BY <1>1, <1>3, BothWays
    <3>2. c \in ToSet(t)
      BY <1>1, <1>3, <2>5, <3>1, Touching
    <3>3. QED
      BY <3>2 DEF ToSet
  <2>9. \A l, h \in back : l = h
    BY <1>1, <1>3, <2>5, <2>7, NeighborOnce
  <2>10. Cardinality(back) = 1
    <3>1. PICK l : l \in back
      BY ONLY <2>7, <2>8
    <3>2. back = {l}
      BY ONLY <2>9, <3>1
    <3>3. QED
      BY <3>2, FS_Singleton
  <2>11. \A l \in back : grid[p].face_local[j][l] = Towards(d, c)
    BY ONLY <2>4, <2>5, <2>7
  <2>12. /\ Towards(d, c).area = Towards(c, d).area
         /\ \A x \in 1 .. 2 : Towards(d, c).normal[x] = -(Towards(c, d).normal[x])
    BY <1>1, <1>3, BothWays
  <2>13. QED
    BY ONLY <1>1, <1>3, <2>5, <2>6, <2>10, <2>11, <2>12 DEF Meets
<1>6. QED
  BY <1>4, <1>5

LEMMA FacesFollow ==
    ASSUME SetupInv, FacesInv
    PROVE  FacesMeet
<1>1. ASSUME NEW r \in Procs, NEW p \in Procs, Past(r, "loc_y"), Past(p, "loc_y"),
             NEW i \in Solved(r)
      PROVE  Closed(r, i) /\ \A k \in DOMAIN Nbrs(r, i) : Meets(r, i, k, p)
  <2>1. At(r) \in 8 .. 11 /\ At(p) \in 8 .. 11
    BY <1>1, PastIs, RankIs DEF Place
  <2>2. GlobalsAre /\ NumberedAre(r, grid[r])
    BY <2>1, RankIs DEF RankOK
  <2>3. i \in 0 .. NS(r) - 1
    BY <2>2 DEF Solved, NumberedAre
  <2>4. QED
    BY <2>1, <2>3, ClosedIs, MeetsIs
<1>2. QED
  BY ONLY <1>1 DEF FacesMeet, Meets

\* Every cell is closed by its faces, and a face between two ranks is laid out once by
\* each of them, with the same area and opposite normals (Grid::generate_grid).
THEOREM FacesMeetHolds == Spec => []FacesMeet
<1>1. SetupInv /\ FacesInv => FacesMeet
  BY FacesFollow
<1>2. QED
  BY <1>1, FacesInvHolds, PTL

-----------------------------------------------------------------------------
(* The matrix.                                                              *)

\* setup_matrix_struct, compute_rdist and compute_system as functions of the members g of
\* Grid
CellsBy(g) == 0 .. g.num_solved - 1
NbrsBy(g, i) == g.cell_neighbors_local[i]
IaBy(g) ==
    [i \in 0 .. g.num_solved |->
        SumFunctionOnSet([d \in CellsBy(g) |-> Len(NbrsBy(g, d)) + 1], 0 .. i - 1)]
JaBy(g) == FlattenSeq([k \in 1 .. g.num_solved |-> <<k - 1>> \o NbrsBy(g, k - 1)])
CsrBy(g, ia, ja) ==
    [i \in CellsBy(g) |->
        [k \in DOMAIN NbrsBy(g, i) |->
            CHOOSE n \in SlotsOf(ia, ja, i, NbrsBy(g, i)[k]) :
                \A o \in SlotsOf(ia, ja, i, NbrsBy(g, i)[k]) : o <= n]]
InnerBy(g) ==
    [i \in CellsBy(g) |->
        [k \in DOMAIN NbrsBy(g, i) |->
            Rdista(g.face_local[i][k],
                   g.xcen_local[i], g.xcen_local[NbrsBy(g, i)[k]])]]
OuterBy(g) ==
    [k \in DOMAIN g.boundary |->
        Rdista(g.boundary[k], g.xcen_local[g.boundary[k].cell], g.boundary[k].xcen)]
CoefficientBy(g, n, ia, csr, inner, outer) ==
    LET i == CHOOSE i \in CellsBy(g) : n \in ia[i] .. ia[i + 1] - 1
        faces == DOMAIN NbrsBy(g, i)
        off == {k \in faces : csr[i][k] = n}
        attached == {k \in DOMAIN g.boundary : g.boundary[k].cell = i}
        diagonal == Plus(<<1, 0, 0>>, Plus(Total(inner[i], faces), Total(outer, attached)))
    IN  Plus(IF n = ia[i] THEN diagonal ELSE Zero, Minus(Total(inner[i], off)))
ABy(g, ia, ja, csr) ==
    [n \in 0 .. Len(ja) - 1 |-> CoefficientBy(g, n, ia, csr, InnerBy(g), OuterBy(g))]

MatrixOK(a, g, s) ==
    /\ a >= 9 => /\ s.ia_local = IaBy(g) /\ s.ja_local = JaBy(g)
                 /\ s.csr_idx_local = CsrBy(g, s.ia_local, s.ja_local)
    /\ a >= 11 => s.A_data_local = ABy(g, s.ia_local, s.ja_local, s.csr_idx_local)
MatrixInv == \A r \in Procs : MatrixOK(At(r), grid[r], solver[r])

LEMMA MatrixStep ==
    ASSUME SetupInv, MatrixInv, UNCHANGED globalVars, NEW r \in Procs, NEW s \in Stages,
           stage' = [stage EXCEPT ![r] = s],
           \A p \in Procs \ {r} : grid'[p] = grid[p] /\ solver'[p] = solver[p],
           MatrixOK(Place[s], grid'[r], solver'[r])
    PROVE  MatrixInv'
<1>1. stage'[r] = s /\ \A p \in Procs \ {r} : stage'[p] = stage[p]
  BY DEF SetupInv
<1>2. Procs' = Procs
  BY Steady
<1>3. SUFFICES ASSUME NEW p \in Procs
               PROVE  MatrixOK(At(p)', grid'[p], solver'[p])
  BY <1>2 DEF MatrixInv
<1>4. CASE p = r
  BY <1>1, <1>4 DEF At
<1>5. CASE p # r
  <2>1. At(p)' = At(p) /\ grid'[p] = grid[p] /\ solver'[p] = solver[p]
    BY <1>1, <1>5 DEF At
  <2>2. QED
    BY <2>1 DEF MatrixInv
<1>6. QED
  BY <1>4, <1>5

\* what the two actions of the solver write
LEMMA StartIs ==
    ASSUME SetupInv, NEW r \in Procs, StartSolver(r)
    PROVE  /\ UNCHANGED <<grid, globalVars>> /\ stage' = [stage EXCEPT ![r] = "Q_cell_local"]
           /\ \A p \in Procs \ {r} : solver'[p] = solver[p]
           /\ MatrixOK(9, grid[r], solver'[r])
<1> DEFINE ia == Ia(r)
           ja == Ja(r)
           cx == CsrIdx(r, ia, ja)
           qb == [k \in Attached(r) |-> SideValue[SideOf(r, k)]]
<1>1. solver' = [solver EXCEPT ![r].ia_local = ia, ![r].ja_local = ja,
                    ![r].csr_idx_local = cx, ![r].Q_boundary_local = qb]
  BY DEF StartSolver
<1>2. UNCHANGED <<grid, globalVars>> /\ stage' = [stage EXCEPT ![r] = "Q_cell_local"]
  BY DEF StartSolver
<1>3. ia = IaBy(grid[r])
  BY DEF Ia, IaBy, Solved, Nbrs, CellsBy, NbrsBy
<1>4. ja = JaBy(grid[r])
  BY DEF Ja, JaBy, Nbrs, NbrsBy
<1> HIDE DEF ia, ja
<1>5. cx = CsrBy(grid[r], ia, ja)
  BY DEF CsrIdx, CsrBy, Solved, Nbrs, CellsBy, NbrsBy
<1> HIDE DEF cx, qb
<1>6. /\ solver'[r].ia_local = ia /\ solver'[r].ja_local = ja
      /\ solver'[r].csr_idx_local = cx
  BY <1>1, RankIs DEF NewSolver
<1>7. MatrixOK(9, grid[r], solver'[r])
  BY <1>3, <1>4, <1>5, <1>6 DEF MatrixOK
<1>8. \A p \in Procs \ {r} : solver'[p] = solver[p]
  BY <1>1, RankIs
<1>9. QED
  BY <1>2, <1>7, <1>8

LEMMA LimitIs ==
    ASSUME SetupInv, MatrixInv, NEW r \in Procs, LimitTimeStep(r)
    PROVE  /\ UNCHANGED <<grid, globalVars>> /\ stage' = [stage EXCEPT ![r] = "min_value"]
           /\ \A p \in Procs \ {r} : solver'[p] = solver[p]
           /\ MatrixOK(10, grid[r], solver'[r])
<1>1. At(r) = 9
  <2>1. stage[r] = "Q_cell_local"
    BY DEF LimitTimeStep
  <2>2. QED
    BY <2>1 DEF At, Place
<1> DEFINE u == Unpack(r, [i \in Solved(r) |-> 1])
<1>2. solver' = [solver EXCEPT ![r].Q_cell_local = u] /\ UNCHANGED <<grid, globalVars>>
         /\ stage' = [stage EXCEPT ![r] = "min_value"]
  BY DEF LimitTimeStep
<1> HIDE DEF u
<1>3. MatrixOK(9, grid[r], solver[r])
  BY <1>1 DEF MatrixInv
<1>4. /\ solver'[r].ia_local = solver[r].ia_local /\ solver'[r].ja_local = solver[r].ja_local
      /\ solver'[r].csr_idx_local = solver[r].csr_idx_local
  BY <1>2, RankIs DEF NewSolver
<1>5. MatrixOK(10, grid[r], solver'[r])
  BY <1>3, <1>4 DEF MatrixOK
<1>6. \A p \in Procs \ {r} : solver'[p] = solver[p]
  BY <1>2, RankIs
<1>7. QED
  BY <1>2, <1>5, <1>6

LEMMA ComputeIs ==
    ASSUME SetupInv, MatrixInv, NEW r \in Procs, ComputeSystem(r)
    PROVE  /\ UNCHANGED <<grid, globalVars>> /\ stage' = [stage EXCEPT ![r] = "ready"]
           /\ \A p \in Procs \ {r} : solver'[p] = solver[p]
           /\ MatrixOK(11, grid[r], solver'[r])
<1>1. At(r) = 10
  <2>1. stage[r] = "min_value"
    BY DEF ComputeSystem
  <2>2. QED
    BY <2>1 DEF At, Place
<1> DEFINE dt == Reduced(r, Received(r, Procs))
           rd == InnerRdista(r)
           br == BoundaryRdista(r)
           ad == [n \in 0 .. Len(solver[r].ja_local) - 1 |-> Coefficient(r, n, solver[r], rd, br)]
<1>2. solver' = [solver EXCEPT ![r].delta_t = dt, ![r].rdista_local = rd,
                    ![r].boundary_rdista_local = br, ![r].A_data_local = ad]
         /\ UNCHANGED <<grid, globalVars>> /\ stage' = [stage EXCEPT ![r] = "ready"]
  BY DEF ComputeSystem
<1>3. PICK ia, ja, cx : /\ ia = solver[r].ia_local /\ ja = solver[r].ja_local
                        /\ cx = solver[r].csr_idx_local
  OBVIOUS
<1>4. rd = InnerBy(grid[r])
  BY DEF InnerRdista, InnerBy, Solved, Nbrs, CellsBy, NbrsBy
<1>5. br = OuterBy(grid[r])
  BY DEF BoundaryRdista, OuterBy, Attached
<1> HIDE DEF rd, br
<1>6. \A n : Coefficient(r, n, solver[r], rd, br) = CoefficientBy(grid[r], n, ia, cx, rd, br)
  BY <1>3 DEF Coefficient, CoefficientBy, Attached, Solved, Nbrs, CellsBy, NbrsBy
<1>7. ad = ABy(grid[r], ia, ja, cx)
  BY ONLY <1>3, <1>4, <1>5, <1>6 DEF ABy
<1> HIDE DEF dt, ad
<1>8. MatrixOK(10, grid[r], solver[r])
  BY <1>1 DEF MatrixInv
<1>9. /\ solver'[r].ia_local = ia /\ solver'[r].ja_local = ja
      /\ solver'[r].csr_idx_local = cx /\ solver'[r].A_data_local = ad
  BY <1>2, <1>3, RankIs DEF NewSolver
<1>10. MatrixOK(11, grid[r], solver'[r])
  BY <1>3, <1>7, <1>8, <1>9 DEF MatrixOK
<1>11. \A p \in Procs \ {r} : solver'[p] = solver[p]
  BY <1>2, RankIs
<1>12. QED
  BY <1>2, <1>10, <1>11

LEMMA MatrixGoesOn ==
    ASSUME SetupInv, MatrixInv, [Next]_vars
    PROVE  MatrixInv'
<1>1. CASE UNCHANGED vars
  <2>1. UNCHANGED <<stage, grid, solver>> /\ Procs' = Procs
    BY <1>1, Steady DEF vars, gridVars, globalVars
  <2>2. QED
    BY <2>1 DEF MatrixInv, At
<1>2. CASE Next
  <2>1. PICK r \in Procs : Step(r)
    BY <1>2 DEF Next
  <2>2. CASE /\ UNCHANGED solver
             /\ \/ NumberCells(r) \/ FindGhosts(r) \/ CountGhosts(r) \/ AskOwners(r)
                \/ MakeLists(r) \/ PlaceGhosts(r) \/ LocateGhosts(r)
    <3>1. Before(r) /\ UNCHANGED globalVars /\ \A p \in Procs \ {r} : grid'[p] = grid[p]
      BY <2>2, EarlySteps
    <3>2. PICK s \in {"num_solved", "num_involved", "rcounts", "rlist", "ghosts",
                      "loc_x", "loc_y"} : stage' = [stage EXCEPT ![r] = s]
      BY <3>1 DEF Before
    <3>3. s \in Stages /\ Place[s] < 8
      BY DEF Stages, Place
    <3>4. MatrixOK(Place[s], grid'[r], solver'[r])
      BY <3>3 DEF MatrixOK, Place
    <3>5. QED
      BY <2>2, <3>1, <3>2, <3>3, <3>4, MatrixStep
  <2>3. CASE LayOutFaces(r) /\ UNCHANGED solver
    <3>1. /\ UNCHANGED globalVars /\ stage' = [stage EXCEPT ![r] = "grid"]
          /\ \A p \in Procs \ {r} : grid'[p] = grid[p]
      BY <2>3, RankIs DEF LayOutFaces
    <3>2. "grid" \in Stages /\ Place["grid"] = 8
      BY DEF Stages, Place
    <3>3. MatrixOK(Place["grid"], grid'[r], solver'[r])
      BY <3>2 DEF MatrixOK
    <3>4. QED
      BY <2>3, <3>1, <3>2, <3>3, MatrixStep
  <2>4. CASE SolverStep(r)
    <3>1. /\ "Q_cell_local" \in Stages /\ Place["Q_cell_local"] = 9
          /\ "min_value" \in Stages /\ Place["min_value"] = 10
          /\ "ready" \in Stages /\ Place["ready"] = 11
      BY DEF Stages, Place
    <3>2. CASE StartSolver(r)
      BY <3>1, <3>2, StartIs, MatrixStep
    <3>3. CASE LimitTimeStep(r)
      BY <3>1, <3>3, LimitIs, MatrixStep
    <3>4. CASE ComputeSystem(r)
      BY <3>1, <3>4, ComputeIs, MatrixStep
    <3>5. QED
      BY <2>4, <3>2, <3>3, <3>4 DEF SolverStep
  <2>5. QED
    BY <2>1, <2>2, <2>3, <2>4 DEF Step, GridStep
<1>3. QED
  BY <1>1, <1>2

\* Beside that, the compressed rows of a rank and its coefficients are what
\* setup_matrix_struct, compute_rdist and compute_system make of its grid, which does not
\* change any more.
THEOREM MatrixInvHolds == Spec => [](SetupInv /\ FacesInv /\ MatrixInv)
<1>1. Init => MatrixInv
  <2>1. SUFFICES ASSUME Init, NEW r \in Procs PROVE MatrixOK(At(r), grid[r], solver[r])
    BY DEF MatrixInv
  <2>2. stage[r] = "start"
    BY <2>1 DEF Init, GridInit
  <2>3. At(r) = 0
    BY <2>2 DEF At, Place
  <2>4. QED
    BY <2>3 DEF MatrixOK
<1>2. SetupInv /\ MatrixInv /\ [Next]_vars => MatrixInv'
  BY MatrixGoesOn
<1>3. QED
  BY <1>1, <1>2, FacesInvHolds, PTL DEF Spec

\* Sums of coefficients.  The recursion of Total, and that of one of its components.
Vectors == [1 .. 3 -> Int]
Recursion3(g, f, S) ==
    g = [s \in SUBSET S |-> IF s = {} THEN Zero ELSE Plus(f[Chosen(s)], g[s \ {Chosen(s)}])]
Part(f, x, S) == [a \in S |-> f[a][x]]

LEMMA ZeroIs ==
    /\ Zero = [k \in 1 .. 3 |-> 0] /\ Zero \in Vectors /\ DOMAIN Zero = 1 .. 3
    /\ Zero[1] = 0 /\ Zero[2] = 0 /\ Zero[3] = 0
    /\ \A k \in 1 .. 3 : Zero[k] = 0
<1>1. DOMAIN Zero = 1 .. 3 /\ Zero[1] = 0 /\ Zero[2] = 0 /\ Zero[3] = 0
  BY DEF Zero
<1>2. \A k \in 1 .. 3 : Zero[k] = 0
  BY <1>1
<1>3. Zero \in Vectors
  BY DEF Zero, Vectors
<1>4. Zero = [k \in 1 .. 3 |-> 0]
  BY <1>2, <1>3 DEF Vectors
<1>5. QED
  BY <1>1, <1>2, <1>3, <1>4

\* vectors are equal if their components are
LEMMA SameVector ==
    ASSUME NEW a \in Vectors, NEW b \in Vectors, a[1] = b[1], a[2] = b[2], a[3] = b[3]
    PROVE  a = b
<1>1. \A k \in 1 .. 3 : a[k] = b[k]
  <2>1. TAKE k \in 1 .. 3
  <2>2. k = 1 \/ k = 2 \/ k = 3
    OBVIOUS
  <2>3. QED
    BY <2>2
<1>2. QED
  BY <1>1 DEF Vectors

LEMMA PlusIs ==
    ASSUME NEW a \in Vectors, NEW b \in Vectors
    PROVE  /\ Plus(a, b) \in Vectors /\ Minus(a) \in Vectors
           /\ \A k \in 1 .. 3 : Plus(a, b)[k] = a[k] + b[k] /\ Minus(a)[k] = -a[k]
           /\ Plus(a, b)[1] = a[1] + b[1] /\ Plus(a, b)[2] = a[2] + b[2]
           /\ Plus(a, b)[3] = a[3] + b[3]
           /\ Minus(a)[1] = -a[1] /\ Minus(a)[2] = -a[2] /\ Minus(a)[3] = -a[3]
BY DEF Plus, Minus, Vectors

\* the recursion by components
LEMMA PartsMakeIt ==
    ASSUME NEW S, NEW f, NEW g, \A x \in 1 .. 3 : Recursion(g[x], Part(f, x, S), S)
    PROVE  Recursion3([s \in SUBSET S |-> [x \in 1 .. 3 |-> g[x][s]]], f, S)
<1> DEFINE h == [s \in SUBSET S |-> [x \in 1 .. 3 |-> g[x][s]]]
<1>1. ASSUME NEW s \in SUBSET S
      PROVE  h[s] = IF s = {} THEN Zero ELSE Plus(f[Chosen(s)], h[s \ {Chosen(s)}])
  <2>1. h[s] = [x \in 1 .. 3 |-> g[x][s]]
    OBVIOUS
  <2>2. CASE s = {}
    <3>1. \A x \in 1 .. 3 : g[x][s] = 0
      BY <2>2 DEF Recursion
    <3>2. h[s] = [x \in 1 .. 3 |-> 0]
      BY <2>1, <3>1
    <3>3. QED
      BY <2>2, <3>2, ZeroIs
  <2>3. CASE s # {}
    <3>1. PICK c, u : c = Chosen(s) /\ u = s \ {Chosen(s)}
      OBVIOUS
    <3>2. c \in S /\ u \in SUBSET S
      BY <2>3, <3>1, ChosenIn
    <3>3. ASSUME NEW x \in 1 .. 3
          PROVE  g[x][s] = f[c][x] + g[x][u]
      <4>1. g[x][s] = Part(f, x, S)[c] + g[x][u]
        BY <2>3, <3>1 DEF Recursion
      <4>2. Part(f, x, S)[c] = f[c][x]
        BY <3>2 DEF Part
      <4>3. QED
        BY <4>1, <4>2
    <3>4. h[u] = [x \in 1 .. 3 |-> g[x][u]]
      BY <3>2
    <3>5. Plus(f[c], h[u]) = [x \in 1 .. 3 |-> f[c][x] + g[x][u]]
      BY <3>4 DEF Plus
    <3>6. h[s] = Plus(f[c], h[u])
      BY <2>1, <3>3, <3>5
    <3>7. QED
      BY <2>3, <3>1, <3>6
  <2>4. QED
    BY <2>2, <2>3
<1>2. DOMAIN h = SUBSET S /\ h = [s \in SUBSET S |-> h[s]]
  OBVIOUS
<1> HIDE DEF h
<1>3. h = [s \in SUBSET S |-> IF s = {} THEN Zero ELSE Plus(f[Chosen(s)], h[s \ {Chosen(s)}])]
  BY ONLY <1>1, <1>2
<1>4. Recursion3(h, f, S)
  BY ONLY <1>3 DEF Recursion3
<1>5. QED
  BY <1>4 DEF h

LEMMA Unique3 ==
    ASSUME NEW S, IsFiniteSet(S), NEW f, NEW g, NEW h, Recursion3(g, f, S), Recursion3(h, f, S)
    PROVE  g[S] = h[S]
<1>1. \A s \in SUBSET S : /\ s = {} => g[s] = Zero /\ h[s] = Zero
                          /\ s # {} => /\ g[s] = Plus(f[Chosen(s)], g[s \ {Chosen(s)}])
                                       /\ h[s] = Plus(f[Chosen(s)], h[s \ {Chosen(s)}])
  BY DEF Recursion3
<1> DEFINE T == {s \in SUBSET S : g[s] = h[s]}
<1>2. ASSUME NEW s \in SUBSET S, s # {}, \A a \in s : s \ {a} \in T
      PROVE  s \in T
  <2>1. Chosen(s) \in s
    BY <1>2, ChosenIn
  <2>2. g[s \ {Chosen(s)}] = h[s \ {Chosen(s)}]
    BY <1>2, <2>1
  <2>3. QED
    BY <1>1, <1>2, <2>2
<1>3. {} \in T
  BY <1>1
<1>4. SUBSET S \subseteq T
  <2> HIDE DEF T
  <2>1. QED
    BY <1>2, <1>3, SetInduction
<1>5. QED
  BY <1>4

LEMMA TotalIs ==
    ASSUME NEW S, IsFiniteSet(S), NEW f
    PROVE  Total(f, S) = [x \in 1 .. 3 |-> SumFunctionOnSet(Part(f, x, S), S)]
<1> DEFINE g == [x \in 1 .. 3 |-> CHOOSE h : Recursion(h, Part(f, x, S), S)]
<1>1. ASSUME NEW x \in 1 .. 3
      PROVE  Recursion(g[x], Part(f, x, S), S)
  <2>1. \E h : Recursion(h, Part(f, x, S), S)
    BY RecursionExists
  <2>2. QED
    BY <2>1
<1> HIDE DEF g
<1> DEFINE u == [s \in SUBSET S |-> [x \in 1 .. 3 |-> g[x][s]]]
<1>2. Recursion3(u, f, S)
  BY <1>1, PartsMakeIt
<1>3. u[S] = [x \in 1 .. 3 |-> g[x][S]]
  OBVIOUS
<1> HIDE DEF u
<1>4. Total(f, S) = (CHOOSE h : Recursion3(h, f, S))[S]
  BY DEF Total, FoldFunctionOnSet, MapThenFoldSet, Recursion3, Chosen
<1>5. PICK h : h = (CHOOSE k : Recursion3(k, f, S))
  OBVIOUS
<1>6. Recursion3(h, f, S)
  BY <1>2, <1>5
<1>7. h[S] = u[S]
  BY <1>2, <1>6, Unique3
<1>8. \A x \in 1 .. 3 : SumFunctionOnSet(Part(f, x, S), S) = g[x][S]
  BY <1>1, SumIs
<1>9. QED
  BY <1>3, <1>4, <1>5, <1>7, <1>8

\* what a total is
LEMMA TotalEmpty ==
    ASSUME NEW f
    PROVE  Total(f, {}) = Zero
<1>1. IsFiniteSet({})
  BY FS_EmptySet
<1>2. \A x \in 1 .. 3 : SumFunctionOnSet(Part(f, x, {}), {}) = 0
  BY SumEmpty
<1>3. QED
  BY <1>1, <1>2, TotalIs, ZeroIs

LEMMA TotalVector ==
    ASSUME NEW S, IsFiniteSet(S), NEW f, \A a \in S : f[a] \in Vectors
    PROVE  Total(f, S) \in Vectors
<1>1. ASSUME NEW x \in 1 .. 3
      PROVE  SumFunctionOnSet(Part(f, x, S), S) \in Int
  <2>1. PICK e : e = Part(f, x, S)
    OBVIOUS
  <2>2. \A a \in S : e[a] \in Int
    BY <2>1 DEF Part, Vectors
  <2>3. QED
    BY <2>1, <2>2, SumInt
<1>2. QED
  BY <1>1, TotalIs DEF Vectors

LEMMA TotalSame ==
    ASSUME NEW S, IsFiniteSet(S), NEW f, NEW e, \A a \in S : f[a] = e[a]
    PROVE  Total(f, S) = Total(e, S)
<1>1. \A x \in 1 .. 3 : Part(f, x, S) = Part(e, x, S)
  BY DEF Part
<1>2. QED
  BY <1>1, TotalIs

LEMMA TotalAdds ==
    ASSUME NEW S, IsFiniteSet(S), NEW a, a \notin S, NEW f,
           \A b \in S \union {a} : f[b] \in Vectors
    PROVE  Total(f, S \union {a}) = Plus(f[a], Total(f, S))
<1>1. PICK U : U = S \union {a}
  OBVIOUS
<1>2. IsFiniteSet(U) /\ a \in U
  BY <1>1, FS_AddElement
<1>3. ASSUME NEW x \in 1 .. 3
      PROVE  SumFunctionOnSet(Part(f, x, U), U) = f[a][x] + SumFunctionOnSet(Part(f, x, S), S)
  <2>1. PICK e, h : e = Part(f, x, U) /\ h = Part(f, x, S)
    OBVIOUS
  <2>2. \A b \in S \union {a} : e[b] = f[b][x] /\ e[b] \in Int
    BY <1>1, <2>1 DEF Part, Vectors
  <2>3. \A b \in S : e[b] = h[b]
    BY <1>1, <2>1 DEF Part
  <2>4. SumFunctionOnSet(e, S \union {a}) = e[a] + SumFunctionOnSet(e, S)
    BY <2>2, SumAdds
  <2>5. SumFunctionOnSet(e, S) = SumFunctionOnSet(h, S)
    BY <2>3, SumSame
  <2>6. e[a] = f[a][x]
    BY <2>2
  <2>7. QED
    BY ONLY <1>1, <2>1, <2>4, <2>5, <2>6
<1>4. Total(f, U) = [x \in 1 .. 3 |-> SumFunctionOnSet(Part(f, x, U), U)]
  BY <1>2, TotalIs
<1>5. Total(f, S) = [x \in 1 .. 3 |-> SumFunctionOnSet(Part(f, x, S), S)]
  BY TotalIs
<1>6. QED
  BY ONLY <1>1, <1>3, <1>4, <1>5 DEF Plus

LEMMA TotalOne ==
    ASSUME NEW a, NEW f, f[a] \in Vectors
    PROVE  Total(f, {a}) = f[a]
<1>1. PICK S : S = {}
  OBVIOUS
<1>2. IsFiniteSet(S) /\ a \notin S /\ S \union {a} = {a} /\ Total(f, S) = Zero
  BY <1>1, FS_EmptySet, TotalEmpty
<1>3. Total(f, {a}) = Plus(f[a], Zero)
  <2>1. \A b \in S \union {a} : f[b] \in Vectors
    BY <1>2
  <2>2. Total(f, S \union {a}) = Plus(f[a], Total(f, S))
    BY ONLY <1>2, <2>1, TotalAdds
  <2>3. QED
    BY ONLY <1>2, <2>2
<1>4. PICK v : v = f[a]
  OBVIOUS
<1>5. v \in Vectors
  BY <1>4
<1>6. Plus(v, Zero) = v
  <2>1. v[1] \in Int /\ v[2] \in Int /\ v[3] \in Int
    BY <1>5 DEF Vectors
  <2>2. QED
    BY <1>5, <2>1, ZeroIs, PlusIs, SameVector
<1>7. QED
  BY <1>3, <1>4, <1>6

\* totals of counts are counts
Counts3 == [1 .. 3 -> Nat]
LEMMA TotalCounts ==
    ASSUME NEW S, IsFiniteSet(S), NEW f, \A a \in S : f[a] \in Counts3
    PROVE  Total(f, S) \in Counts3
<1>1. \A a \in S : f[a] \in Vectors
  BY DEF Counts3, Vectors
<1> DEFINE T == {s \in SUBSET S : Total(f, s) \in Counts3}
<1>2. {} \in T
  BY TotalEmpty, ZeroIs DEF Counts3
<1>3. ASSUME NEW s \in SUBSET S, s # {}, \A a \in s : s \ {a} \in T
      PROVE  s \in T
  <2>1. PICK a \in s : TRUE
    BY <1>3
  <2>2. PICK u : u = s \ {a}
    OBVIOUS
  <2>3. IsFiniteSet(u) /\ a \notin u /\ s = u \union {a}
    BY <2>2, FS_Subset
  <2>4. \A b \in u \union {a} : f[b] \in Vectors
    BY <1>1, <2>3
  <2>5. Total(f, s) = Plus(f[a], Total(f, u))
    BY ONLY <2>3, <2>4, TotalAdds
  <2>6. Total(f, u) \in Counts3 /\ f[a] \in Counts3
    BY <1>3, <2>2
  <2>7. QED
    BY <2>5, <2>6 DEF Plus, Counts3
<1>4. SUBSET S \subseteq T
  <2> HIDE DEF T
  <2>1. QED
    BY <1>2, <1>3, SetInduction
<1>5. QED
  BY <1>4

\* adding up the images of the elements
LEMMA TotalImage ==
    ASSUME NEW S, IsFiniteSet(S), NEW h, NEW f, NEW e,
           \A a, b \in S : h[a] = h[b] => a = b,
           \A a \in S : f[h[a]] = e[a] /\ e[a] \in Vectors
    PROVE  Total(f, {h[a] : a \in S}) = Total(e, S)
<1> DEFINE T == {s \in SUBSET S : /\ Total(f, {h[a] : a \in s}) = Total(e, s)
                                  /\ IsFiniteSet({h[a] : a \in s})}
<1>1. {} \in T
  <2>1. {h[a] : a \in {}} = {}
    OBVIOUS
  <2>2. QED
    BY <2>1, TotalEmpty, FS_EmptySet
<1>2. ASSUME NEW s \in SUBSET S, s # {}, \A a \in s : s \ {a} \in T
      PROVE  s \in T
  <2>1. PICK a \in s : TRUE
    BY <1>2
  <2>2. PICK u, v, w : u = s \ {a} /\ v = {h[b] : b \in s} /\ w = {h[b] : b \in u}
    OBVIOUS
  <2>3. IsFiniteSet(u) /\ a \notin u /\ s = u \union {a}
    BY <2>2, FS_Subset
  <2>4. Total(f, w) = Total(e, u) /\ IsFiniteSet(w)
    BY <1>2, <2>2
  <2>5. h[a] \notin w /\ v = w \union {h[a]}
    BY <2>2, <2>3
  <2>6. \A b \in u \union {a} : e[b] \in Vectors
    BY <2>3
  <2>7. \A b \in w \union {h[a]} : f[b] \in Vectors
    BY <2>2, <2>3
  <2>8. Total(f, v) = Plus(f[h[a]], Total(f, w))
    BY ONLY <2>4, <2>5, <2>7, TotalAdds
  <2>9. Total(e, s) = Plus(e[a], Total(e, u))
    BY ONLY <2>3, <2>6, TotalAdds
  <2>10. f[h[a]] = e[a]
    OBVIOUS
  <2>11. IsFiniteSet(v)
    BY <2>4, <2>5, FS_AddElement
  <2>12. Total(f, v) = Total(e, s)
    BY ONLY <2>4, <2>8, <2>9, <2>10
  <2>13. QED
    BY <2>2, <2>11, <2>12
<1>3. SUBSET S \subseteq T
  <2> HIDE DEF T
  <2>1. QED
    BY <1>1, <1>2, SetInduction
<1>4. S \in T
  BY <1>3
<1>5. QED
  BY <1>4

\* The rows of a rank: a cell's own number, then those of its neighbours.
RowsOf(r) == [k \in 1 .. NS(r) |-> <<k - 1>> \o Nbrs(r, k - 1)]

LEMMA NbrsAre ==
    ASSUME SetupInv, NEW r \in Procs, At(r) >= 6, NEW i \in 0 .. NS(r) - 1
    PROVE  /\ Nbrs(r, i) \in Seq(Int) /\ Len(Nbrs(r, i)) \in Nat
           /\ DOMAIN Nbrs(r, i) = 1 .. Len(Nbrs(r, i))
<1>1. GlobalsAre /\ PlacedAre(r, grid[r])
  BY RankIs DEF RankOK
<1>2. PICK c, gl, s, t : /\ c = CellOf(r, i) /\ gl = grid[r].global_local
                         /\ s = Neighbors(c) /\ t = Nbrs(r, i)
  OBVIOUS
<1>3. t = [k \in DOMAIN s |-> gl[s[k]]]
  <2>1. grid[r].cell_neighbors_local = ByNumber(NeighborLists(r), gl)
    BY <1>1, <1>2 DEF PlacedAre, NeighborsBy
  <2>2. DOMAIN NeighborLists(r) = 0 .. NS(r) - 1 /\ NeighborLists(r)[i] = s
    BY <1>2 DEF NeighborLists
  <2>3. QED
    BY <1>2, <2>1, <2>2 DEF ByNumber, Nbrs
<1>4. c \in Own(r)
  BY <1>1, <1>2, CellOfFacts
<1>5. s \in Seq(Int) /\ DOMAIN s = 1 .. Len(s)
  BY <1>1, <1>2, <1>4, NeighborHere
<1>6. \A k \in DOMAIN s : t[k] \in 0 .. NS(r) + NG(r) - 1
  BY <1>2, LocalNeighbors DEF Nbrs
<1>7. NS(r) \in Nat /\ NG(r) \in Nat
  BY <1>1, CellOfFacts
<1>8. \A k \in DOMAIN s : t[k] \in Int
  BY ONLY <1>6, <1>7
<1>9. PICK n : n = Len(s)
  OBVIOUS
<1>10. n \in Nat /\ DOMAIN s = 1 .. n
  BY <1>5, <1>9
<1>11. t \in [1 .. n -> Int]
  BY ONLY <1>3, <1>8, <1>10
<1>12. t \in Seq(Int) /\ Len(t) = n /\ DOMAIN t = 1 .. n
  BY ONLY <1>10, <1>11
<1>13. QED
  BY ONLY <1>2, <1>10, <1>12

LEMMA RowsAre ==
    ASSUME SetupInv, MatrixInv, NEW r \in Procs, At(r) >= 9, NEW ia, ia = solver[r].ia_local,
           NS(r) # 0
    PROVE  /\ NS(r) \in Nat \ {0} /\ grid[r].num_solved = NS(r)
           /\ Places(ia, RowsOf(r), NS(r))
           /\ PutTogether(solver[r].ja_local, Int, RowsOf(r), ia, NS(r))
           /\ \A k \in 1 .. NS(r) : /\ RowsOf(r)[k] = <<k - 1>> \o Nbrs(r, k - 1)
                                    /\ Len(RowsOf(r)[k]) = Len(Nbrs(r, k - 1)) + 1
                                    /\ Len(RowsOf(r)[k]) \in Nat
<1>1. /\ GlobalsAre /\ NumberedAre(r, grid[r]) /\ At(r) \in 0 .. 11
      /\ MatrixOK(At(r), grid[r], solver[r])
  BY RankIs DEF RankOK, MatrixInv
<1>2. PICK n, g, s : n = NS(r) /\ g = grid[r] /\ s = RowsOf(r)
  OBVIOUS
<1>3. n \in Nat \ {0} /\ g.num_solved = n
  BY <1>1, <1>2, CellOfFacts DEF NumberedAre
<1>4. \A d \in 0 .. n - 1 : Nbrs(r, d) \in Seq(Int) /\ Len(Nbrs(r, d)) \in Nat
  BY <1>1, <1>2, NbrsAre
<1>5. \A d \in 0 .. n - 1 : NbrsBy(g, d) = Nbrs(r, d)
  BY <1>2 DEF Nbrs, NbrsBy
<1>6. s = [k \in 1 .. n |-> <<k - 1>> \o Nbrs(r, k - 1)]
  BY <1>2 DEF RowsOf
<1>7. ASSUME NEW k \in 1 .. n
      PROVE  /\ s[k] = <<k - 1>> \o Nbrs(r, k - 1) /\ s[k] \in Seq(Int)
             /\ Len(s[k]) = Len(Nbrs(r, k - 1)) + 1 /\ Len(s[k]) \in Nat
  <2>1. k - 1 \in 0 .. n - 1 /\ k - 1 \in Int
    BY <1>3
  <2>2. PICK u : u = Nbrs(r, k - 1)
    OBVIOUS
  <2>3. u \in Seq(Int) /\ Len(u) \in Nat
    BY <1>4, <2>1, <2>2
  <2>4. s[k] = <<k - 1>> \o u
    BY <1>6, <2>2
  <2>5. PICK w : w = <<k - 1>>
    OBVIOUS
  <2>6. w \in Seq(Int) /\ Len(w) = 1
    BY <2>1, <2>5
  <2>7. w \o u \in Seq(Int) /\ Len(w \o u) = Len(w) + Len(u)
    BY ONLY <2>3, <2>6, ConcatProperties
  <2>8. QED
    BY ONLY <2>2, <2>3, <2>4, <2>5, <2>6, <2>7
<1>8. PICK counts : counts = [d \in CellsBy(g) |-> Len(NbrsBy(g, d)) + 1]
  OBVIOUS
<1>9. \A d \in 0 .. n - 1 : counts[d] = Len(Nbrs(r, d)) + 1 /\ counts[d] \in Nat
  BY <1>3, <1>4, <1>5, <1>8 DEF CellsBy
<1>10. ia = [k \in 0 .. n |-> Offset(counts, k)]
  BY <1>1, <1>2, <1>3, <1>8 DEF MatrixOK, IaBy, Offset
<1>11. \A k \in 1 .. n : Len(s[k]) = counts[k - 1]
  <2>1. TAKE k \in 1 .. n
  <2>2. k - 1 \in 0 .. n - 1
    BY ONLY <1>3, <2>1
  <2>3. QED
    BY ONLY <1>7, <1>9, <2>1, <2>2
<1>12. Places(ia, s, n)
  BY ONLY <1>3, <1>9, <1>10, <1>11, OffsetPlaces
<1>13. solver[r].ja_local = FlattenSeq(s)
  BY <1>1, <1>2, <1>3, <1>6 DEF MatrixOK, JaBy, Nbrs, NbrsBy
<1>14. Len(s) = n
  <2>1. DOMAIN s = 1 .. n
    BY <1>6
  <2>2. s \in [1 .. n -> Seq(Int)]
    BY ONLY <1>6, <1>7
  <2>3. QED
    BY ONLY <1>3, <2>2
<1>15. PutTogether(FlattenSeq(s), Int, s, ia, n)
  BY ONLY <1>3, <1>7, <1>12, <1>14, FlattenAt
<1>16. QED
  BY ONLY <1>2, <1>3, <1>7, <1>12, <1>13, <1>15

\* the row of cell i, from slot p on
RowAt(r, i, p, n) ==
    /\ p \in Nat /\ n \in Nat /\ n = Len(Nbrs(r, i)) /\ DOMAIN Nbrs(r, i) = 1 .. n
    /\ solver[r].ia_local[i] = p /\ solver[r].ia_local[i + 1] = p + n + 1
    /\ p + n \in 0 .. Len(solver[r].ja_local) - 1 /\ Len(solver[r].ja_local) \in Nat
    /\ solver[r].ja_local[p + 1] = i
    /\ \A k \in 1 .. n : solver[r].ja_local[p + k + 1] = Nbrs(r, i)[k]

LEMMA RowIs ==
    ASSUME SetupInv, MatrixInv, NEW r \in Procs, At(r) >= 9, NEW i \in 0 .. NS(r) - 1
    PROVE  RowAt(r, i, solver[r].ia_local[i], Len(Nbrs(r, i)))
<1>1. GlobalsAre /\ NS(r) \in Nat /\ At(r) \in 0 .. 11
  BY RankIs, CellOfFacts
<1>2. PICK N, ia, ja, s, u, k : /\ N = NS(r) /\ ia = solver[r].ia_local
                                /\ ja = solver[r].ja_local /\ s = RowsOf(r) /\ u = Nbrs(r, i)
                                /\ k = i + 1
  OBVIOUS
<1>3. N # 0 /\ k \in 1 .. N /\ k - 1 = i /\ i \in Nat /\ i \in 0 .. N /\ k \in 0 .. N
  BY <1>1, <1>2
<1>4. /\ N \in Nat /\ Places(ia, s, N) /\ PutTogether(ja, Int, s, ia, N)
      /\ s[k] = <<i>> \o u /\ Len(s[k]) = Len(u) + 1
  BY <1>2, <1>3, RowsAre
<1>5. u \in Seq(Int) /\ Len(u) \in Nat /\ DOMAIN u = 1 .. Len(u)
  BY <1>1, <1>2, NbrsAre
<1>6. PICK p, n : p = ia[i] /\ n = Len(u)
  OBVIOUS
<1>7. p \in Nat /\ ia[k] = p + n + 1
  <2>1. ia \in [0 .. N -> Nat] /\ ia[k] = ia[k - 1] + Len(s[k])
    BY <1>3, <1>4 DEF Places
  <2>2. p \in Nat
    BY <1>3, <1>6, <2>1
  <2>3. QED
    BY <1>3, <1>4, <1>5, <1>6, <2>1, <2>2
<1>8. \A j \in 1 .. n + 1 : p + j \in 1 .. Len(ja) /\ ja[p + j] = s[k][j]
  <2>1. \A j \in 1 .. Len(s[k]) : ia[k - 1] + j \in 1 .. ia[N] /\ ja[ia[k - 1] + j] = s[k][j]
    BY <1>3, <1>4 DEF PutTogether
  <2>2. Len(ja) = ia[N]
    BY <1>4 DEF PutTogether
  <2>3. QED
    BY ONLY <1>3, <1>4, <1>6, <2>1, <2>2
<1>9. s[k][1] = i /\ \A h \in 1 .. n : s[k][h + 1] = u[h]
  <2>1. PICK w : w = <<i>>
    OBVIOUS
  <2>2. w \in Seq(Int) /\ Len(w) = 1 /\ w[1] = i
    BY <1>3, <2>1
  <2>3. PICK z : z = w \o u
    OBVIOUS
  <2>4. /\ \A h \in 1 .. Len(w) : z[h] = w[h]
        /\ \A h \in 1 .. Len(u) : z[Len(w) + h] = u[h]
    <3>1. w \in Seq(Int) /\ u \in Seq(Int)
      BY ONLY <1>5, <2>2
    <3>2. /\ z \in Seq(Int) /\ Len(z) = Len(w) + Len(u)
          /\ \A h \in 1 .. Len(w) : z[h] = w[h]
          /\ \A h \in 1 .. Len(u) : z[Len(w) + h] = u[h]
      BY ONLY <2>3, <3>1, ConcatAt
    <3>3. QED
      BY ONLY <3>2
  <2>5. \A h \in 1 .. n : (w \o u)[h + 1] = u[h]
    <3>1. TAKE h \in 1 .. n
    <3>2. h \in 1 .. Len(u) /\ h \in 1 .. Len(u) /\ h + 1 = Len(w) + h
      BY ONLY <1>6, <2>2, <3>1, <1>5
    <3>3. QED
      BY ONLY <2>3, <2>4, <3>2
  <2>6. (w \o u)[1] = i
    <3>1. 1 \in 1 .. Len(w)
      BY ONLY <2>2
    <3>2. QED
      BY ONLY <2>2, <2>3, <2>4, <3>1
  <2>7. QED
    BY ONLY <1>4, <2>1, <2>5, <2>6
<1>10. ja[p + 1] = i
  <2>1. 1 \in 1 .. n + 1
    BY <1>5, <1>6
  <2>2. QED
    BY ONLY <1>8, <1>9, <2>1
<1>11. \A h \in 1 .. n : ja[p + h + 1] = u[h]
  <2>1. TAKE h \in 1 .. n
  <2>2. PICK j : j = h + 1
    OBVIOUS
  <2>3. j \in 1 .. n + 1 /\ p + j = p + h + 1
    <3>1. n \in Nat
      BY ONLY <1>5, <1>6
    <3>2. QED
      BY ONLY <1>7, <2>1, <2>2, <3>1
  <2>4. ja[p + j] = s[k][h + 1]
    BY ONLY <1>8, <2>2, <2>3
  <2>5. QED
    BY ONLY <1>9, <2>1, <2>3, <2>4
<1>12. p + n \in 0 .. Len(ja) - 1 /\ Len(ja) \in Nat
  <2>1. n + 1 \in 1 .. n + 1
    BY <1>5, <1>6
  <2>2. p + (n + 1) \in 1 .. Len(ja)
    BY ONLY <1>8, <2>1
  <2>3. ja \in Seq(Int)
    BY <1>4 DEF PutTogether
  <2>4. Len(ja) \in Nat
    BY <2>3
  <2>5. QED
    BY <1>5, <1>6, <1>7, <2>2, <2>4
<1>13. RowAt(r, i, p, n)
  <2>1. n \in Nat /\ n = Len(Nbrs(r, i)) /\ DOMAIN Nbrs(r, i) = 1 .. n
    BY ONLY <1>2, <1>5, <1>6
  <2>2. solver[r].ia_local[i] = p /\ solver[r].ia_local[i + 1] = p + n + 1
    BY ONLY <1>2, <1>6, <1>7
  <2>3. p + n \in 0 .. Len(solver[r].ja_local) - 1 /\ Len(solver[r].ja_local) \in Nat
    BY ONLY <1>2, <1>12
  <2>4. QED
    BY ONLY <1>2, <1>7, <1>10, <1>11, <2>1, <2>2, <2>3 DEF RowAt
<1>14. QED
  BY ONLY <1>2, <1>6, <1>13

\* a slot is in one row only
RowWith(ia, N, n) == CHOOSE h \in 0 .. N - 1 : n \in ia[h] .. ia[h + 1] - 1
LEMMA OneRow ==
    ASSUME SetupInv, MatrixInv, NEW r \in Procs, At(r) >= 9, NEW i \in 0 .. NS(r) - 1,
           NEW p, NEW n, RowAt(r, i, p, n), NEW j \in 0 .. n
    PROVE  RowWith(solver[r].ia_local, NS(r), p + j) = i
<1>1. GlobalsAre /\ NS(r) \in Nat /\ At(r) \in 0 .. 11
  BY RankIs, CellOfFacts
<1>2. PICK N, ia, s, m : N = NS(r) /\ ia = solver[r].ia_local /\ s = RowsOf(r) /\ m = p + j
  OBVIOUS
<1>3. N \in Nat /\ N # 0 /\ i \in 0 .. N - 1 /\ i \in Nat
  BY <1>1, <1>2
<1>4. Places(ia, s, N) /\ \A k \in 1 .. N : Len(s[k]) \in Nat
  BY <1>2, <1>3, RowsAre
<1>5. /\ p \in Nat /\ n \in Nat /\ ia[i] = p /\ ia[i + 1] = p + n + 1
  BY ONLY <1>2, RowAt(r, i, p, n) DEF RowAt
<1>6. m \in ia[i] .. ia[i + 1] - 1 /\ m \in Int
  BY ONLY <1>2, <1>5, j \in 0 .. n
<1>7. ASSUME NEW h \in 0 .. N - 1, m \in ia[h] .. ia[h + 1] - 1
      PROVE  h = i
  <2>1. PICK k, l, x, y : k = h + 1 /\ l = i + 1 /\ x = m - ia[h] + 1 /\ y = m - ia[i] + 1
    OBVIOUS
  <2>2. k \in 1 .. N /\ l \in 1 .. N /\ k - 1 = h /\ l - 1 = i /\ h \in 0 .. N /\ i \in 0 .. N
    BY ONLY <1>3, <1>7, <2>1
  <2>3. /\ ia[k] = ia[h] + Len(s[k]) /\ ia[l] = ia[i] + Len(s[l])
        /\ ia[h] \in Nat /\ ia[i] \in Nat
    BY ONLY <1>4, <2>2 DEF Places
  <2>4. x \in 1 .. Len(s[k])
    <3>1. PICK a, b, c : a = ia[h] /\ b = ia[k] /\ c = Len(s[k])
      OBVIOUS
    <3>2. a \in Nat /\ c \in Nat /\ b = a + c /\ m \in a .. b - 1 /\ x = m - a + 1
      BY ONLY <1>4, <1>7, <2>1, <2>2, <2>3, <3>1
    <3>3. x \in 1 .. c
      BY ONLY <3>2
    <3>4. QED
      BY ONLY <3>1, <3>3
  <2>5. y \in 1 .. Len(s[l])
    <3>1. PICK a, b, c : a = ia[i] /\ b = ia[l] /\ c = Len(s[l])
      OBVIOUS
    <3>2. a \in Nat /\ c \in Nat /\ b = a + c /\ m \in a .. b - 1 /\ y = m - a + 1
      BY ONLY <1>4, <1>6, <2>1, <2>2, <2>3, <3>1
    <3>3. y \in 1 .. c
      BY ONLY <3>2
    <3>4. QED
      BY ONLY <3>1, <3>3
  <2>6. SamePlace(ia, k, x, l, y)
    <3>0. PICK a, b : a = ia[h] /\ b = ia[i]
      OBVIOUS
    <3>1. ia[h] + x = m + 1 /\ ia[i] + y = m + 1
      <4>1. a \in Nat /\ b \in Nat /\ x = m - a + 1 /\ y = m - b + 1 /\ m \in Int
        BY ONLY <1>6, <2>1, <2>3, <3>0
      <4>2. a + x = m + 1 /\ b + y = m + 1
        BY ONLY <4>1
      <4>3. QED
        BY ONLY <3>0, <4>2
    <3>2. QED
      BY ONLY <2>2, <3>1 DEF SamePlace
  <2>7. k = l
    BY ONLY <1>3, <1>4, <2>2, <2>4, <2>5, <2>6, OnePlace
  <2>8. QED
    BY ONLY <2>2, <2>7
<1>8. RowWith(ia, N, m) = i
  BY ONLY <1>3, <1>6, <1>7 DEF RowWith
<1>9. QED
  BY ONLY <1>2, <1>8

\* csr_idx_local points at the slot of the neighbour
LEMMA CsrIs ==
    ASSUME SetupInv, FacesInv, MatrixInv, NEW r \in Procs, At(r) >= 9,
           NEW i \in 0 .. NS(r) - 1, NEW p, NEW n, RowAt(r, i, p, n), NEW k \in 1 .. n
    PROVE  solver[r].csr_idx_local[i][k] = p + k
<1>1. At(r) \in 0 .. 11 /\ GlobalsAre /\ NumberedAre(r, grid[r])
         /\ MatrixOK(At(r), grid[r], solver[r])
  BY RankIs DEF RankOK, MatrixInv
<1>2. PICK c, s : /\ c = CellOf(r, i) /\ s = Neighbors(c) /\ GlobalsAre
                  /\ c \in Own(r) /\ c \in Cells(mesh) /\ RankOf(c) = r /\ Local(c) = i
                  /\ grid[r].local_global[i] = c /\ grid[r].global_local[c] = i
                  /\ DOMAIN Nbrs(r, i) = DOMAIN s /\ Len(Nbrs(r, i)) = Len(s)
                  /\ \A h \in DOMAIN s :
                        /\ s[h] \in Cells(mesh) /\ Adjacent(s[h], c)
                        /\ grid[r].local_global[Nbrs(r, i)[h]] = s[h]
                        /\ grid[r].face_local[i][h] = Towards(c, s[h])
                  /\ grid[r].boundary = FlattenSeq(SideLists(r))
  BY <1>1, CellLaid
<1>3. PICK ia, ja, u : ia = solver[r].ia_local /\ ja = solver[r].ja_local /\ u = Nbrs(r, i)
  OBVIOUS
<1>4. /\ p \in Nat /\ n \in Nat /\ DOMAIN u = 1 .. n /\ ia[i] = p /\ ia[i + 1] = p + n + 1
      /\ \A h \in 1 .. n : ja[p + h + 1] = u[h]
  BY ONLY <1>3, RowAt(r, i, p, n) DEF RowAt
<1>5. PICK S : S = SlotsOf(ia, ja, i, u[k])
  OBVIOUS
<1>6. solver[r].csr_idx_local[i][k] = CHOOSE w \in S : \A o \in S : o <= w
  <2>1. solver[r].csr_idx_local = CsrBy(grid[r], ia, ja)
    BY <1>1, <1>3 DEF MatrixOK
  <2>2. i \in CellsBy(grid[r])
    BY <1>1 DEF CellsBy, NumberedAre
  <2>3. NbrsBy(grid[r], i) = u
    BY <1>3 DEF Nbrs, NbrsBy
  <2>4. k \in DOMAIN NbrsBy(grid[r], i)
    BY <1>4, <2>3
  <2>5. QED
    BY ONLY <1>5, <2>1, <2>2, <2>3, <2>4 DEF CsrBy
<1>7. S = {p + k}
  <2>1. S = {m \in p + 1 .. p + n : ja[m + 1] = u[k]}
    <3>1. ia[i] + 1 = p + 1 /\ ia[i + 1] - 1 = p + n
      BY ONLY <1>4
    <3>2. QED
      BY ONLY <1>5, <3>1 DEF SlotsOf
  <2>2. p + k \in S
    <3>1. p + k \in p + 1 .. p + n
      BY ONLY <1>4, k \in 1 .. n
    <3>2. QED
      BY ONLY <1>4, <2>1, <3>1, k \in 1 .. n
  <2>3. ASSUME NEW m \in S
        PROVE  m = p + k
    <3>1. m \in p + 1 .. p + n /\ ja[m + 1] = u[k]
      BY ONLY <2>1, <2>3
    <3>2. PICK h : h = m - p
      OBVIOUS
    <3>3. h \in 1 .. n /\ m = p + h /\ m + 1 = p + h + 1
      BY ONLY <1>4, <3>1, <3>2
    <3>4. u[h] = u[k]
      BY ONLY <1>4, <3>1, <3>3
    <3>5. h \in DOMAIN s /\ k \in DOMAIN s
      BY ONLY <1>2, <1>3, <1>4, <3>3, k \in 1 .. n
    <3>6. s[h] = s[k]
      BY ONLY <1>2, <1>3, <3>4, <3>5
    <3>7. h = k
      BY ONLY <1>2, <3>5, <3>6, NeighborOnce
    <3>8. QED
      BY ONLY <3>3, <3>7
  <2>4. QED
    BY ONLY <2>2, <2>3
<1>8. PICK q : q = p + k
  OBVIOUS
<1>9. q \in Int
  BY ONLY <1>4, <1>8, k \in 1 .. n
<1>10. \E w \in S : \A o \in S : o <= w
  BY ONLY <1>7, <1>8, <1>9
<1>11. PICK m : m = CHOOSE w \in S : \A o \in S : o <= w
  OBVIOUS
<1>12. m \in S
  BY ONLY <1>10, <1>11
<1>13. S = {q}
  BY ONLY <1>7, <1>8
<1>14. m = q
  BY ONLY <1>12, <1>13
<1>15. QED
  BY ONLY <1>6, <1>8, <1>11, <1>14

\* area over distance: between the centres of two cells, and from one to a side
WeightOf(area) == IF area = "dy" THEN <<0, 1, 0>> ELSE <<0, 0, 1>>
EdgeOn(b) == IF b \in {1, 2} THEN <<0, 0, 2>> ELSE <<0, 2, 0>>

LEMMA WeightsAre ==
    /\ \A area : WeightOf(area) \in Counts3 /\ WeightOf(area) \in Vectors
                 /\ Minus(WeightOf(area)) # Zero
    /\ \A b : EdgeOn(b) \in Counts3 /\ EdgeOn(b) \in Vectors
<1>1. <<0, 1, 0>> \in Counts3 /\ <<0, 0, 1>> \in Counts3
  BY DEF Counts3
<1>2. <<0, 2, 0>> \in Counts3 /\ <<0, 0, 2>> \in Counts3
  BY DEF Counts3
<1>3. \A v \in Counts3 : v \in Vectors
  BY DEF Counts3, Vectors
<1>4. Minus(<<0, 1, 0>>) # Zero /\ Minus(<<0, 0, 1>>) # Zero
  <2>1. PICK v, w : v = <<0, 1, 0>> /\ w = <<0, 0, 1>>
    OBVIOUS
  <2>2. v \in Vectors /\ w \in Vectors /\ v[2] = 1 /\ w[3] = 1
    BY <1>1, <1>3, <2>1
  <2>3. Minus(v)[2] = -1 /\ Minus(w)[3] = -1
    BY ONLY <2>2, PlusIs
  <2>4. QED
    BY ONLY <2>1, <2>3, ZeroIs
<1>5. QED
  BY ONLY <1>1, <1>2, <1>3, <1>4 DEF WeightOf, EdgeOn

LEMMA RdistaIs ==
    ASSUME NEW b \in 1 .. 4, NEW face, NEW from, NEW to, NEW d \in {1, 2},
           face.normal = Outward(b), face.area = AreaOn(b),
           from[1] \in Int, from[2] \in Int, to[1] \in Int, to[2] \in Int,
           b \in {3, 4} => AbsValue(to[1] - from[1]) = d,
           b \in {1, 2} => AbsValue(to[2] - from[2]) = d
    PROVE  Rdista(face, from, to)
              = IF b \in {1, 2} THEN <<0, 0, 2 \div d>> ELSE <<0, 2 \div d, 0>>
<1>1. b = 1 \/ b = 2 \/ b = 3 \/ b = 4
  OBVIOUS
<1>2. CASE b \in {1, 2}
  <2>1. Outward(b)[1] = 0
    BY <1>2, OutwardIs
  <2>2. ~(AbsValue(face.normal[1]) > 0) /\ face.area = "dx"
    BY ONLY <1>2, <2>1, face.normal = Outward(b), face.area = AreaOn(b) DEF AbsValue, AreaOn
  <2>3. Rdista(face, from, to) = <<0, 0, 2 \div AbsValue(to[2] - from[2])>>
    BY ONLY <2>2 DEF Rdista
  <2>4. QED
    BY ONLY <1>2, <2>3, b \in {1, 2} => AbsValue(to[2] - from[2]) = d
<1>3. CASE b \in {3, 4}
  <2>1. Outward(b)[1] = -1 \/ Outward(b)[1] = 1
    BY <1>3, OutwardIs
  <2>2. b \notin {1, 2}
    BY <1>3
  <2>3. AbsValue(face.normal[1]) > 0 /\ face.area = "dy"
    BY ONLY <2>1, <2>2, face.normal = Outward(b), face.area = AreaOn(b) DEF AbsValue, AreaOn
  <2>4. Rdista(face, from, to) = <<0, 2 \div AbsValue(to[1] - from[1]), 0>>
    BY ONLY <2>3 DEF Rdista
  <2>5. QED
    BY ONLY <1>3, <2>2, <2>4, b \in {3, 4} => AbsValue(to[1] - from[1]) = d
<1>4. QED
  BY ONLY <1>1, <1>2, <1>3

LEMMA InnerIs ==
    ASSUME SetupInv, FacesInv, NEW r \in Procs, At(r) >= 8, NEW i \in 0 .. NS(r) - 1,
           NEW c, c = CellOf(r, i), NEW k \in DOMAIN Neighbors(c)
    PROVE  InnerBy(grid[r])[i][k] = WeightOf(Towards(c, Neighbors(c)[k]).area)
<1>1. /\ At(r) \in 0 .. 11 /\ GlobalsAre /\ NumberedAre(r, grid[r]) /\ CentresAre(r, grid[r])
      /\ NS(r) \in Nat /\ NG(r) \in Nat
  BY RankIs, CellOfFacts DEF RankOK
<1>2. PICK s, d, l, u : s = Neighbors(c) /\ d = s[k] /\ u = Nbrs(r, i) /\ l = u[k]
  OBVIOUS
<1>3. /\ c \in Own(r) /\ c \in Cells(mesh) /\ DOMAIN u = DOMAIN s
      /\ d \in Cells(mesh) /\ grid[r].face_local[i][k] = Towards(c, d)
  BY <1>2, CellLaid
<1>4. l \in 0 .. NS(r) + NG(r) - 1 /\ CellOf(r, l) = d
  BY <1>1, <1>2, LocalNeighbors DEF Nbrs
<1>5. i \in 0 .. NS(r) + NG(r) - 1
  BY ONLY <1>1, i \in 0 .. NS(r) - 1
<1>6. PICK from, to : from = grid[r].xcen_local[i] /\ to = grid[r].xcen_local[l]
  OBVIOUS
<1>7. from = <<XOf[c], YOf[c]>> /\ to = <<XOf[d], YOf[d]>>
  BY <1>1, <1>4, <1>5, <1>6 DEF CentresAre
<1>8. PICK b \in 1 .. 4 : NeighborOn(c, b, k)
  BY <1>1, <1>3, EachNeighbor
<1>9. /\ Column(mesh, d) = Column(mesh, c) + Outward(b)[1]
      /\ Row(mesh, d) = Row(mesh, c) + Outward(b)[2]
      /\ Towards(c, d) = FaceOn(b)
  BY <1>2, <1>8 DEF NeighborOn
<1>10. PICK x, y, v, w : /\ x = Column(mesh, c) /\ y = Row(mesh, c)
                         /\ v = Outward(b)[1] /\ w = Outward(b)[2]
  OBVIOUS
<1>11. x \in Int /\ y \in Int
  BY <1>1, <1>3, <1>10, CellFacts DEF GlobalsAre, IsMesh
<1>12. b = 1 \/ b = 2 \/ b = 3 \/ b = 4
  OBVIOUS
<1>13. /\ v \in Int /\ w \in Int /\ (b \in {3, 4} => v = 1 \/ v = -1)
       /\ (b \in {1, 2} => w = 1 \/ w = -1)
  BY ONLY <1>10, <1>12, OutwardIs
<1>14. /\ from[1] = 2 * x + 1 /\ from[2] = 2 * y + 1
       /\ to[1] = 2 * (x + v) + 1 /\ to[2] = 2 * (y + w) + 1
  BY <1>3, <1>7, <1>9, <1>10 DEF XOf, YOf
<1>15. /\ from[1] \in Int /\ from[2] \in Int /\ to[1] \in Int /\ to[2] \in Int
       /\ to[1] - from[1] = 2 * v /\ to[2] - from[2] = 2 * w
  BY ONLY <1>11, <1>13, <1>14
<1>16. PICK e : e = 2
  OBVIOUS
<1>17. e \in {1, 2} /\ 2 \div e = 1
  BY ONLY <1>16
<1>18. /\ b \in {3, 4} => AbsValue(to[1] - from[1]) = e
       /\ b \in {1, 2} => AbsValue(to[2] - from[2]) = e
  BY ONLY <1>13, <1>15, <1>16 DEF AbsValue
<1>19. Towards(c, d).normal = Outward(b) /\ Towards(c, d).area = AreaOn(b)
  BY ONLY <1>9 DEF FaceOn
<1>20. Rdista(Towards(c, d), from, to)
          = IF b \in {1, 2} THEN <<0, 0, 2 \div e>> ELSE <<0, 2 \div e, 0>>
  BY ONLY <1>15, <1>17, <1>18, <1>19, b \in 1 .. 4, RdistaIs
<1>21. InnerBy(grid[r])[i][k] = Rdista(grid[r].face_local[i][k], from, to)
  <2>1. i \in CellsBy(grid[r])
    BY <1>1 DEF CellsBy, NumberedAre
  <2>2. NbrsBy(grid[r], i) = u
    BY <1>2 DEF Nbrs, NbrsBy
  <2>3. k \in DOMAIN NbrsBy(grid[r], i)
    BY <1>2, <1>3, <2>2
  <2>4. QED
    BY ONLY <1>2, <1>6, <2>1, <2>2, <2>3 DEF InnerBy
<1>22. WeightOf(AreaOn(b)) = IF b \in {1, 2} THEN <<0, 0, 1>> ELSE <<0, 1, 0>>
  BY ONLY <1>12 DEF WeightOf, AreaOn
<1>23. QED
  BY ONLY <1>2, <1>3, <1>17, <1>19, <1>20, <1>21, <1>22

LEMMA OuterIs ==
    ASSUME SetupInv, FacesInv, NEW r \in Procs, At(r) >= 8, NEW i \in 0 .. NS(r) - 1,
           NEW c, c = CellOf(r, i), NEW b \in SidesOf(c), NEW k, FaceAt(r, k, b, c)
    PROVE  OuterBy(grid[r])[k] = EdgeOn(b)
<1>1. /\ At(r) \in 0 .. 11 /\ GlobalsAre /\ CentresAre(r, grid[r])
      /\ NS(r) \in Nat /\ NG(r) \in Nat
  BY RankIs, CellOfFacts DEF RankOK
<1>2. /\ c \in Own(r) /\ c \in Cells(mesh) /\ Local(c) = i
      /\ grid[r].boundary = FlattenSeq(SideLists(r))
  BY CellLaid
<1>3. PICK bo : bo = grid[r].boundary
  OBVIOUS
<1>4. k \in DOMAIN bo /\ bo[k] = SideFace(b, c)
  BY ONLY <1>2, <1>3, FaceAt(r, k, b, c) DEF FaceAt, AttachedTo
<1>5. /\ bo[k].cell = i /\ bo[k].xcen = Centre(b, c)
      /\ bo[k].normal = Outward(b) /\ bo[k].area = AreaOn(b)
  BY ONLY <1>2, <1>4 DEF SideFace
<1>6. i \in 0 .. NS(r) + NG(r) - 1
  BY ONLY <1>1, i \in 0 .. NS(r) - 1
<1>7. PICK from, to : from = grid[r].xcen_local[i] /\ to = Centre(b, c)
  OBVIOUS
<1>8. from = <<XOf[c], YOf[c]>>
  BY <1>1, <1>6, <1>7 DEF CentresAre
<1>9. OuterBy(grid[r])[k] = Rdista(bo[k], from, to)
  BY ONLY <1>3, <1>4, <1>5, <1>7 DEF OuterBy
<1>10. PICK x, y, X, Y : /\ x = Column(mesh, c) /\ y = Row(mesh, c)
                         /\ X = mesh.Nx /\ Y = mesh.Ny
  OBVIOUS
<1>11. x \in Int /\ y \in Int /\ X \in Int /\ Y \in Int
  BY <1>1, <1>2, <1>10, CellFacts DEF GlobalsAre, IsMesh
<1>12. from[1] = 2 * x + 1 /\ from[2] = 2 * y + 1
  BY <1>2, <1>8, <1>10 DEF XOf, YOf
<1>13. /\ b \in 1 .. 4 /\ (b = 1 => y = 0) /\ (b = 2 => y = Y - 1) /\ (b = 3 => x = 0)
       /\ (b = 4 => x = X - 1)
  BY ONLY <1>10, b \in SidesOf(c) DEF SidesOf, OnSide
<1>14. b = 1 \/ b = 2 \/ b = 3 \/ b = 4
  BY <1>13
<1>15. /\ b = 1 => to = <<2 * x + 1, 0>>
       /\ b = 2 => to = <<2 * x + 1, 2 * Y>>
       /\ b = 3 => to = <<0, 2 * y + 1>>
       /\ b = 4 => to = <<2 * X, 2 * y + 1>>
  <2>1. XOf[c] = 2 * x + 1 /\ YOf[c] = 2 * y + 1
    BY <1>2, <1>10 DEF XOf, YOf
  <2>2. QED
    BY ONLY <1>7, <1>10, <1>14, <2>1 DEF Centre
<1>16. to[1] \in Int /\ to[2] \in Int /\ from[1] \in Int /\ from[2] \in Int
  BY ONLY <1>11, <1>12, <1>14, <1>15
<1>17. PICK e : e = 1
  OBVIOUS
<1>18. e \in {1, 2} /\ 2 \div e = 2
  BY ONLY <1>17
<1>19. /\ b \in {3, 4} => AbsValue(to[1] - from[1]) = e
       /\ b \in {1, 2} => AbsValue(to[2] - from[2]) = e
  <2>1. CASE b = 1
    <3>1. to[2] - from[2] = -1
      BY ONLY <2>1, <1>11, <1>12, <1>13, <1>15
    <3>2. QED
      BY ONLY <1>17, <2>1, <3>1 DEF AbsValue
  <2>2. CASE b = 2
    <3>1. to[2] - from[2] = 1
      BY ONLY <2>2, <1>11, <1>12, <1>13, <1>15
    <3>2. QED
      BY ONLY <1>17, <2>2, <3>1 DEF AbsValue
  <2>3. CASE b = 3
    <3>1. to[1] - from[1] = -1
      BY ONLY <2>3, <1>11, <1>12, <1>13, <1>15
    <3>2. QED
      BY ONLY <1>17, <2>3, <3>1 DEF AbsValue
  <2>4. CASE b = 4
    <3>1. to[1] - from[1] = 1
      BY ONLY <2>4, <1>11, <1>12, <1>13, <1>15
    <3>2. QED
      BY ONLY <1>17, <2>4, <3>1 DEF AbsValue
  <2>5. QED
    BY ONLY <1>14, <2>1, <2>2, <2>3, <2>4
<1>20. Rdista(bo[k], from, to)
          = IF b \in {1, 2} THEN <<0, 0, 2 \div e>> ELSE <<0, 2 \div e, 0>>
  BY ONLY <1>5, <1>13, <1>16, <1>18, <1>19, RdistaIs
<1>21. QED
  BY ONLY <1>9, <1>18, <1>20 DEF EdgeOn

\* laws of vectors
LEMMA PlusZero ==
    ASSUME NEW a \in Vectors
    PROVE  Plus(a, Minus(Zero)) = a /\ Plus(Zero, Minus(a)) = Minus(a)
<1>1. Zero \in Vectors /\ Zero[1] = 0 /\ Zero[2] = 0 /\ Zero[3] = 0
  BY ZeroIs
<1>2. a[1] \in Int /\ a[2] \in Int /\ a[3] \in Int
  BY DEF Vectors
<1>3. PICK z, m, u, v : /\ z = Minus(Zero) /\ m = Minus(a)
                        /\ u = Plus(a, z) /\ v = Plus(Zero, m)
  OBVIOUS
<1>4. /\ z \in Vectors /\ m \in Vectors /\ z[1] = 0 /\ z[2] = 0 /\ z[3] = 0
      /\ m[1] = -a[1] /\ m[2] = -a[2] /\ m[3] = -a[3]
  BY <1>1, <1>3, PlusIs
<1>5. u \in Vectors /\ u[1] = a[1] + z[1] /\ u[2] = a[2] + z[2] /\ u[3] = a[3] + z[3]
  BY <1>3, <1>4, PlusIs
<1>6. v \in Vectors /\ v[1] = 0 + m[1] /\ v[2] = 0 + m[2] /\ v[3] = 0 + m[3]
  BY <1>1, <1>3, <1>4, PlusIs
<1>7. u[1] = a[1] /\ u[2] = a[2] /\ u[3] = a[3] /\ v[1] = m[1] /\ v[2] = m[2] /\ v[3] = m[3]
  BY ONLY <1>2, <1>4, <1>5, <1>6
<1>8. u = a /\ v = m
  BY ONLY <1>4, <1>5, <1>6, <1>7, a \in Vectors, SameVector
<1>9. QED
  BY ONLY <1>3, <1>8

LEMMA TakeOff ==
    ASSUME NEW a \in Vectors, NEW b \in Vectors, NEW c \in Vectors
    PROVE  Plus(Minus(a), Plus(b, Minus(c))) = Plus(b, Minus(Plus(a, c)))
<1>1. /\ a[1] \in Int /\ a[2] \in Int /\ a[3] \in Int /\ b[1] \in Int /\ b[2] \in Int
      /\ b[3] \in Int /\ c[1] \in Int /\ c[2] \in Int /\ c[3] \in Int
  BY DEF Vectors
<1>2. PICK l, m, s, u, v, w, z : /\ l = Minus(a) /\ m = Minus(c) /\ s = Plus(b, m)
                                 /\ u = Plus(l, s) /\ v = Plus(a, c) /\ w = Minus(v)
                                 /\ z = Plus(b, w)
  OBVIOUS
<1>3. l \in Vectors /\ l[1] = -a[1] /\ l[2] = -a[2] /\ l[3] = -a[3]
  BY <1>2, PlusIs
<1>4. m \in Vectors /\ m[1] = -c[1] /\ m[2] = -c[2] /\ m[3] = -c[3]
  BY <1>2, PlusIs
<1>5. s \in Vectors /\ s[1] = b[1] + m[1] /\ s[2] = b[2] + m[2] /\ s[3] = b[3] + m[3]
  BY <1>2, <1>4, PlusIs
<1>6. u \in Vectors /\ u[1] = l[1] + s[1] /\ u[2] = l[2] + s[2] /\ u[3] = l[3] + s[3]
  BY <1>2, <1>3, <1>5, PlusIs
<1>7. v \in Vectors /\ v[1] = a[1] + c[1] /\ v[2] = a[2] + c[2] /\ v[3] = a[3] + c[3]
  BY <1>2, PlusIs
<1>8. w \in Vectors /\ w[1] = -v[1] /\ w[2] = -v[2] /\ w[3] = -v[3]
  BY <1>2, <1>7, PlusIs
<1>9. z \in Vectors /\ z[1] = b[1] + w[1] /\ z[2] = b[2] + w[2] /\ z[3] = b[3] + w[3]
  BY <1>2, <1>8, PlusIs
<1>10. u[1] = z[1] /\ u[2] = z[2] /\ u[3] = z[3]
  BY ONLY <1>1, <1>3, <1>4, <1>5, <1>6, <1>7, <1>8, <1>9
<1>11. u = z
  BY ONLY <1>6, <1>9, <1>10, SameVector
<1>12. QED
  BY ONLY <1>2, <1>11

LEMMA LeftOver ==
    ASSUME NEW a \in Vectors, NEW b \in Vectors, NEW c \in Vectors
    PROVE  Plus(Plus(a, Plus(b, c)), Minus(b)) = Plus(a, c)
<1>1. /\ a[1] \in Int /\ a[2] \in Int /\ a[3] \in Int /\ b[1] \in Int /\ b[2] \in Int
      /\ b[3] \in Int /\ c[1] \in Int /\ c[2] \in Int /\ c[3] \in Int
  BY DEF Vectors
<1>2. PICK l, m, s, u, z : /\ l = Plus(b, c) /\ m = Minus(b) /\ s = Plus(a, l)
                           /\ u = Plus(s, m) /\ z = Plus(a, c)
  OBVIOUS
<1>3. l \in Vectors /\ l[1] = b[1] + c[1] /\ l[2] = b[2] + c[2] /\ l[3] = b[3] + c[3]
  BY <1>2, PlusIs
<1>4. m \in Vectors /\ m[1] = -b[1] /\ m[2] = -b[2] /\ m[3] = -b[3]
  BY <1>2, PlusIs
<1>5. s \in Vectors /\ s[1] = a[1] + l[1] /\ s[2] = a[2] + l[2] /\ s[3] = a[3] + l[3]
  BY <1>2, <1>3, PlusIs
<1>6. u \in Vectors /\ u[1] = s[1] + m[1] /\ u[2] = s[2] + m[2] /\ u[3] = s[3] + m[3]
  BY <1>2, <1>4, <1>5, PlusIs
<1>7. z \in Vectors /\ z[1] = a[1] + c[1] /\ z[2] = a[2] + c[2] /\ z[3] = a[3] + c[3]
  BY <1>2, PlusIs
<1>8. u[1] = z[1] /\ u[2] = z[2] /\ u[3] = z[3]
  BY ONLY <1>1, <1>3, <1>4, <1>5, <1>6, <1>7
<1>9. u = z
  BY ONLY <1>6, <1>7, <1>8, SameVector
<1>10. QED
  BY ONLY <1>2, <1>9

-----------------------------------------------------------------------------
\* what compute_system writes into the row of cell i
Faces(g, i) == {k \in DOMAIN g.boundary : g.boundary[k].cell = i}
DiagonalBy(g, i) ==
    Plus(<<1, 0, 0>>,
         Plus(Total(InnerBy(g)[i], DOMAIN NbrsBy(g, i)), Total(OuterBy(g), Faces(g, i))))
OffBy(g, i, n, csr) == {k \in DOMAIN NbrsBy(g, i) : csr[i][k] = n}

RowIn(g, n, ia) == CHOOSE h \in CellsBy(g) : n \in ia[h] .. ia[h + 1] - 1
CoefficientIn(g, n, ia, csr, inner, outer, i) ==
    Plus(IF n = ia[i]
         THEN Plus(<<1, 0, 0>>,
                   Plus(Total(inner[i], DOMAIN NbrsBy(g, i)), Total(outer, Faces(g, i))))
         ELSE Zero,
         Minus(Total(inner[i], OffBy(g, i, n, csr))))

LEMMA CoefficientAt ==
    ASSUME NEW g, NEW n, NEW ia, NEW csr, NEW i, RowIn(g, n, ia) = i
    PROVE  CoefficientBy(g, n, ia, csr, InnerBy(g), OuterBy(g))
              = Plus(IF n = ia[i] THEN DiagonalBy(g, i) ELSE Zero,
                     Minus(Total(InnerBy(g)[i], OffBy(g, i, n, csr))))
<1>1. PICK inner, outer : inner = InnerBy(g) /\ outer = OuterBy(g)
  OBVIOUS
<1>2. CoefficientBy(g, n, ia, csr, inner, outer)
         = CoefficientIn(g, n, ia, csr, inner, outer, RowIn(g, n, ia))
  BY DEF CoefficientBy, CoefficientIn, RowIn, Faces, OffBy
<1>3. CoefficientIn(g, n, ia, csr, inner, outer, i)
         = Plus(IF n = ia[i] THEN DiagonalBy(g, i) ELSE Zero,
                Minus(Total(inner[i], OffBy(g, i, n, csr))))
  BY ONLY <1>1 DEF CoefficientIn, DiagonalBy
<1>4. QED
  BY <1>1, <1>2, <1>3

LEMMA CoefficientIs ==
    ASSUME SetupInv, FacesInv, MatrixInv, NEW r \in Procs, At(r) >= 11,
           NEW i \in 0 .. NS(r) - 1, NEW p, NEW n, RowAt(r, i, p, n), NEW j \in 0 .. n
    PROVE  solver[r].A_data_local[p + j]
              = Plus(IF j = 0 THEN DiagonalBy(grid[r], i) ELSE Zero,
                     Minus(Total(InnerBy(grid[r])[i], {k \in 1 .. n : k = j})))
<1>1. /\ At(r) \in 0 .. 11 /\ At(r) >= 9 /\ NumberedAre(r, grid[r])
      /\ MatrixOK(At(r), grid[r], solver[r])
  BY RankIs DEF RankOK, MatrixInv
<1>2. PICK q, g, ia, ja, csr, N : /\ q = p + j /\ g = grid[r] /\ ia = solver[r].ia_local
                                  /\ ja = solver[r].ja_local /\ csr = solver[r].csr_idx_local
                                  /\ N = NS(r)
  OBVIOUS
<1>3. solver[r].A_data_local = ABy(g, ia, ja, csr)
  BY <1>1, <1>2 DEF MatrixOK
<1>4. /\ p \in Nat /\ n \in Nat /\ ia[i] = p /\ p + n \in 0 .. Len(ja) - 1 /\ Len(ja) \in Nat
      /\ DOMAIN Nbrs(r, i) = 1 .. n
  BY ONLY <1>2, RowAt(r, i, p, n) DEF RowAt
<1>5. q \in 0 .. Len(ja) - 1 /\ (q = ia[i] <=> j = 0)
  BY ONLY <1>2, <1>4, j \in 0 .. n
<1>6. solver[r].A_data_local[q] = CoefficientBy(g, q, ia, csr, InnerBy(g), OuterBy(g))
  BY ONLY <1>3, <1>5 DEF ABy
<1>7. RowIn(g, q, ia) = i
  <2>1. CellsBy(g) = 0 .. N - 1
    BY <1>1, <1>2 DEF CellsBy, NumberedAre
  <2>2. RowWith(ia, N, q) = i
    BY <1>1, <1>2, OneRow
  <2>3. QED
    BY ONLY <2>1, <2>2 DEF RowWith, RowIn
<1>8. OffBy(g, i, q, csr) = {k \in 1 .. n : k = j}
  <2>1. DOMAIN NbrsBy(g, i) = 1 .. n
    BY <1>2, <1>4 DEF Nbrs, NbrsBy
  <2>2. \A k \in 1 .. n : csr[i][k] = p + k
    BY <1>1, <1>2, CsrIs
  <2>3. \A k \in 1 .. n : p + k = q <=> k = j
    BY ONLY <1>2, <1>4, j \in 0 .. n
  <2>4. QED
    BY ONLY <2>1, <2>2, <2>3 DEF OffBy
<1>9. CoefficientBy(g, q, ia, csr, InnerBy(g), OuterBy(g))
         = Plus(IF q = ia[i] THEN DiagonalBy(g, i) ELSE Zero,
                Minus(Total(InnerBy(g)[i], OffBy(g, i, q, csr))))
  BY ONLY <1>7, CoefficientAt
<1>10. QED
  BY ONLY <1>2, <1>5, <1>6, <1>8, <1>9

\* the weights in the row of cell i, and the edges of the cell
Edges(c) == [b \in SidesOf(c) |-> EdgeOn(b)]

LEMMA WeightsIn ==
    ASSUME SetupInv, FacesInv, NEW r \in Procs, At(r) >= 8, NEW i \in 0 .. NS(r) - 1,
           NEW c, c = CellOf(r, i), NEW n, DOMAIN Nbrs(r, i) = 1 .. n
    PROVE  \A k \in 1 .. n : /\ InnerBy(grid[r])[i][k] = WeightOf(Towards(c, Neighbors(c)[k]).area)
                             /\ InnerBy(grid[r])[i][k] \in Counts3
                             /\ InnerBy(grid[r])[i][k] \in Vectors
<1>1. DOMAIN Nbrs(r, i) = DOMAIN Neighbors(c)
  BY CellLaid
<1>2. TAKE k \in 1 .. n
<1>3. k \in DOMAIN Neighbors(c)
  BY <1>1
<1>4. InnerBy(grid[r])[i][k] = WeightOf(Towards(c, Neighbors(c)[k]).area)
  BY <1>3, InnerIs
<1>5. QED
  BY ONLY <1>4, WeightsAre

LEMMA EdgesIn ==
    ASSUME SetupInv, FacesInv, NEW r \in Procs, At(r) >= 8, NEW i \in 0 .. NS(r) - 1,
           NEW c, c = CellOf(r, i)
    PROVE  /\ IsFiniteSet(SidesOf(c))
           /\ Total(OuterBy(grid[r]), Faces(grid[r], i)) = Total(Edges(c), SidesOf(c))
<1>1. /\ c \in Own(r) /\ c \in Cells(mesh) /\ GlobalsAre /\ Local(c) = i
      /\ grid[r].boundary = FlattenSeq(SideLists(r))
  BY CellLaid
<1>2. PICK S, A, e, f : S = SidesOf(c) /\ A = AttachedTo(r, c) /\ e = Edges(c)
                        /\ f = OuterBy(grid[r])
  OBVIOUS
<1>3. IsFiniteSet(S)
  BY <1>1, <1>2, FourSides
<1> DEFINE h == [b \in S |-> CHOOSE k : FaceAt(r, k, b, c)]
<1>4. ASSUME NEW b \in S
      PROVE  FaceAt(r, h[b], b, c)
  <2>1. \E k : FaceAt(r, k, b, c)
    BY <1>1, <1>2, FaceThere
  <2>2. QED
    BY <2>1
<1> HIDE DEF h
<1>5. \A b \in S : h[b] \in A
  BY <1>2, <1>4 DEF FaceAt
<1>6. \A b, d \in S : h[b] = h[d] => b = d
  BY <1>1, <1>2, <1>4, FaceOnce
<1>7. \A k \in A : \E b \in S : h[b] = k
  <2>1. TAKE k \in A
  <2>2. PICK b \in S : FaceAt(r, k, b, c)
    BY <1>1, <1>2, FaceOf
  <2>3. h[b] = k
    BY <1>1, <1>2, <1>4, <2>2, FaceOnce
  <2>4. QED
    BY <2>3
<1>8. A = {h[b] : b \in S}
  BY ONLY <1>5, <1>7
<1>9. \A b \in S : f[h[b]] = e[b] /\ e[b] \in Vectors
  <2>1. TAKE b \in S
  <2>2. f[h[b]] = EdgeOn(b)
    BY <1>2, <1>4, OuterIs
  <2>3. e[b] = EdgeOn(b)
    BY <1>2 DEF Edges
  <2>4. QED
    BY ONLY <2>2, <2>3, WeightsAre
<1>10. Total(f, {h[b] : b \in S}) = Total(e, S)
  BY ONLY <1>3, <1>6, <1>9, TotalImage
<1>11. Faces(grid[r], i) = A
  BY ONLY <1>1, <1>2 DEF Faces, AttachedTo
<1>12. QED
  BY ONLY <1>2, <1>3, <1>8, <1>10, <1>11

-----------------------------------------------------------------------------
\* the row of cell i, whose number in the mesh is c
RowHas(r, i, c, p, n) ==
    /\ solver[r].A_data_local[p] = DiagonalBy(grid[r], i)
    /\ \A k \in 1 .. n : solver[r].A_data_local[p + k] = Minus(InnerBy(grid[r])[i][k])
    /\ \A k \in 1 .. n : /\ InnerBy(grid[r])[i][k] = WeightOf(Towards(c, Neighbors(c)[k]).area)
                         /\ InnerBy(grid[r])[i][k] \in Vectors
    /\ DiagonalBy(grid[r], i)
          = Plus(<<1, 0, 0>>, Plus(Total(InnerBy(grid[r])[i], 1 .. n), Total(Edges(c), SidesOf(c))))
    /\ DiagonalBy(grid[r], i) \in Vectors /\ DiagonalBy(grid[r], i) # Zero
    /\ Total(InnerBy(grid[r])[i], 1 .. n) \in Vectors /\ Total(Edges(c), SidesOf(c)) \in Vectors

LEMMA CountsPlus ==
    ASSUME NEW a \in Counts3, NEW b \in Counts3
    PROVE  Plus(a, b) \in Counts3 /\ a \in Vectors
BY DEF Counts3, Vectors, Plus

LEMMA RowValues ==
    ASSUME SetupInv, FacesInv, MatrixInv, NEW r \in Procs, At(r) >= 11,
           NEW i \in 0 .. NS(r) - 1, NEW c, c = CellOf(r, i),
           NEW p, NEW n, RowAt(r, i, p, n)
    PROVE  RowHas(r, i, c, p, n)
<1>1. At(r) \in 0 .. 11 /\ At(r) >= 8
  BY RankIs
<1>2. p \in Nat /\ n \in Nat /\ DOMAIN Nbrs(r, i) = 1 .. n
  BY DEF RowAt
<1>3. PICK w, D, T, E, O, A, one : /\ w = InnerBy(grid[r])[i] /\ D = DiagonalBy(grid[r], i)
                                   /\ T = Total(w, 1 .. n) /\ E = Edges(c)
                                   /\ O = Total(E, SidesOf(c)) /\ A = solver[r].A_data_local
                                   /\ one = <<1, 0, 0>>
  OBVIOUS
<1>4. \A k \in 1 .. n : /\ w[k] = WeightOf(Towards(c, Neighbors(c)[k]).area)
                        /\ w[k] \in Counts3 /\ w[k] \in Vectors
  BY <1>1, <1>2, <1>3, WeightsIn
<1>5. T \in Counts3
  <2>1. IsFiniteSet(1 .. n)
    BY <1>2, FS_Interval
  <2>2. QED
    BY ONLY <1>3, <1>4, <2>1, TotalCounts
<1>6. O \in Counts3
  <2>1. IsFiniteSet(SidesOf(c))
    BY <1>1, EdgesIn
  <2>2. \A b \in SidesOf(c) : E[b] \in Counts3
    BY <1>3, WeightsAre DEF Edges
  <2>3. QED
    BY ONLY <1>3, <2>1, <2>2, TotalCounts
<1>7. D = Plus(one, Plus(T, O))
  <2>1. DOMAIN NbrsBy(grid[r], i) = 1 .. n
    BY <1>2 DEF Nbrs, NbrsBy
  <2>2. Total(OuterBy(grid[r]), Faces(grid[r], i)) = O
    BY <1>1, <1>3, EdgesIn
  <2>3. QED
    BY ONLY <1>3, <2>1, <2>2 DEF DiagonalBy
<1>8. D \in Vectors /\ D # Zero
  <2>1. one \in Counts3 /\ one[1] = 1
    BY <1>3 DEF Counts3
  <2>2. PICK s : s = Plus(T, O)
    OBVIOUS
  <2>3. s \in Counts3 /\ s \in Vectors /\ one \in Vectors
    BY <1>5, <1>6, <2>1, <2>2, CountsPlus
  <2>4. D \in Vectors /\ D[1] = one[1] + s[1]
    BY <1>7, <2>2, <2>3, PlusIs
  <2>5. s[1] \in Nat
    BY <2>3 DEF Counts3
  <2>6. D[1] # 0
    BY ONLY <2>1, <2>4, <2>5
  <2>7. QED
    BY ONLY <2>4, <2>6, ZeroIs
<1>9. T \in Vectors /\ O \in Vectors
  BY <1>5, <1>6, CountsPlus
<1>10. \A j \in 0 .. n : A[p + j] = Plus(IF j = 0 THEN D ELSE Zero,
                                         Minus(Total(w, {k \in 1 .. n : k = j})))
  <2>1. TAKE j \in 0 .. n
  <2>2. solver[r].A_data_local[p + j]
           = Plus(IF j = 0 THEN DiagonalBy(grid[r], i) ELSE Zero,
                  Minus(Total(InnerBy(grid[r])[i], {k \in 1 .. n : k = j})))
    BY CoefficientIs
  <2>3. QED
    BY ONLY <1>3, <2>2
<1>11. A[p] = D
  <2>1. PICK j : j = 0
    OBVIOUS
  <2>2. j \in 0 .. n /\ p + j = p /\ {k \in 1 .. n : k = j} = {}
    BY ONLY <1>2, <2>1
  <2>3. A[p] = Plus(D, Minus(Total(w, {})))
    BY ONLY <1>10, <2>1, <2>2
  <2>4. QED
    BY ONLY <1>8, <2>3, TotalEmpty, PlusZero
<1>12. ASSUME NEW j \in 1 .. n
       PROVE  A[p + j] = Minus(w[j])
  <2>1. j \in 0 .. n /\ j # 0 /\ {k \in 1 .. n : k = j} = {j}
    BY ONLY <1>2, <1>12
  <2>2. A[p + j] = Plus(Zero, Minus(Total(w, {j})))
    BY ONLY <1>10, <2>1
  <2>3. w[j] \in Vectors
    BY ONLY <1>4, <1>12
  <2>4. Total(w, {j}) = w[j]
    BY ONLY <2>3, TotalOne
  <2>5. QED
    BY ONLY <2>2, <2>3, <2>4, PlusZero
<1>13. QED
  BY ONLY <1>3, <1>4, <1>7, <1>8, <1>9, <1>11, <1>12 DEF RowHas

\* the row adds up to the time term and the edges
RowLike(A, w, D, p, n) ==
    A[p] = D /\ \A k \in 1 .. n : w[k] \in Vectors /\ A[p + k] = Minus(w[k])
LEMMA RowTotal ==
    ASSUME NEW p \in Nat, NEW n \in Nat, NEW A, NEW w, NEW D \in Vectors, RowLike(A, w, D, p, n)
    PROVE  Total(A, p .. p + n) = Plus(D, Minus(Total(w, 1 .. n)))
<1>0. A[p] = D /\ \A k \in 1 .. n : w[k] \in Vectors /\ A[p + k] = Minus(w[k])
  BY DEF RowLike
<1> DEFINE T == {m \in 0 .. n : Total(A, p .. p + m) = Plus(D, Minus(Total(w, 1 .. m)))}
<1>1. 0 \in T
  <2>1. p .. p + 0 = {p} /\ 1 .. 0 = {}
    OBVIOUS
  <2>2. Total(A, {p}) = D
    BY ONLY <1>0, D \in Vectors, TotalOne
  <2>3. Plus(D, Minus(Total(w, {}))) = D
    BY ONLY D \in Vectors, TotalEmpty, PlusZero
  <2>4. QED
    BY <2>1, <2>2, <2>3
<1>2. ASSUME NEW m \in 0 .. n - 1, m \in T
      PROVE  m + 1 \in T
  <2>1. PICK l, q, R, S : l = m + 1 /\ q = p + l /\ R = p .. p + m /\ S = 1 .. m
    OBVIOUS
  <2>2. l \in 1 .. n /\ l \in 0 .. n /\ m \in 0 .. n /\ m \in Nat
    BY ONLY <1>2, <2>1, n \in Nat
  <2>3. /\ p .. p + l = R \union {q} /\ q \notin R /\ 1 .. l = S \union {l} /\ l \notin S
    BY ONLY <2>1, <2>2, p \in Nat
  <2>4. IsFiniteSet(R) /\ IsFiniteSet(S)
    <3>1. p \in Int /\ p + m \in Int /\ m \in Int
      BY ONLY <2>2, p \in Nat
    <3>2. QED
      BY ONLY <2>1, <3>1, FS_Interval
  <2>5. \A k \in S \union {l} : w[k] \in Vectors
    <3>1. S \union {l} \subseteq 1 .. n
      BY ONLY <2>1, <2>2, n \in Nat
    <3>2. QED
      BY <1>0, <3>1
  <2>6. \A k \in R \union {q} : A[k] \in Vectors
    <3>1. TAKE k \in R \union {q}
    <3>2. PICK h : h = k - p
      OBVIOUS
    <3>3. h \in 0 .. n /\ k = p + h
      BY ONLY <2>1, <2>2, <2>3, <3>1, <3>2, p \in Nat
    <3>4. CASE h = 0
      <4>1. k = p
        BY ONLY <3>3, <3>4, p \in Nat
      <4>2. QED
        BY <1>0, <4>1
    <3>5. CASE h # 0
      <4>1. h \in 1 .. n
        BY ONLY <3>3, <3>5, n \in Nat
      <4>2. w[h] \in Vectors /\ A[p + h] = Minus(w[h])
        BY <1>0, <4>1
      <4>3. QED
        BY ONLY <3>3, <4>2, PlusIs
    <3>6. QED
      BY <3>4, <3>5
  <2>7. Total(A, R \union {q}) = Plus(A[q], Total(A, R))
    BY ONLY <2>3, <2>4, <2>6, TotalAdds
  <2>8. Total(w, S \union {l}) = Plus(w[l], Total(w, S))
    BY ONLY <2>3, <2>4, <2>5, TotalAdds
  <2>9. Total(A, R) = Plus(D, Minus(Total(w, S)))
    BY <1>2, <2>1
  <2>10. A[q] = Minus(w[l]) /\ w[l] \in Vectors
    BY <1>0, <2>1, <2>2
  <2>11. Total(w, S) \in Vectors
    <3>1. \A k \in S : w[k] \in Vectors
      BY ONLY <2>5
    <3>2. QED
      BY ONLY <2>4, <3>1, TotalVector
  <2>12. Plus(Minus(w[l]), Plus(D, Minus(Total(w, S)))) = Plus(D, Minus(Plus(w[l], Total(w, S))))
    BY ONLY <2>10, <2>11, D \in Vectors, TakeOff
  <2>13. Total(A, p .. p + l) = Plus(D, Minus(Total(w, 1 .. l)))
    BY ONLY <2>3, <2>7, <2>8, <2>9, <2>10, <2>12
  <2>14. QED
    BY ONLY <2>1, <2>2, <2>13
<1>3. 0 .. n \subseteq T
  <2> HIDE DEF T
  <2>1. QED
    BY <1>1, <1>2, UpTo
<1>4. n \in 0 .. n
  OBVIOUS
<1>5. QED
  BY ONLY <1>3, <1>4

\* what the sides of the mesh add to the row of a cell
MoreIf(f, T, x, P, U) ==
    /\ IsFiniteSet(U) /\ Total(f, U) \in Vectors
    /\ \A k \in 1 .. 3 : Total(f, U)[k] = Total(f, T)[k] + (IF P THEN f[x][k] ELSE 0)
AllIn(f, S) == \A b \in S : f[b] \in Vectors
LEMMA TotalIf ==
    ASSUME NEW T, IsFiniteSet(T), NEW x, x \notin T, NEW P \in BOOLEAN,
           NEW U, U = IF P THEN T \union {x} ELSE T, NEW f, AllIn(f, T \union {x})
    PROVE  MoreIf(f, T, x, P, U)
<1>0. \A b \in T \union {x} : f[b] \in Vectors
  BY DEF AllIn
<1>1. Total(f, T) \in Vectors
  BY <1>0, TotalVector
<1>2. PICK t, v, s : t = Total(f, T) /\ v = f[x] /\ s = Total(f, U)
  OBVIOUS
<1>3. t \in Vectors /\ v \in Vectors
  BY <1>0, <1>1, <1>2
<1>4. CASE P
  <2>1. U = T \union {x}
    BY <1>4
  <2>2. IsFiniteSet(U)
    BY <2>1, FS_AddElement
  <2>3. s = Plus(v, t)
    BY <1>0, <1>2, <2>1, TotalAdds
  <2>4. s \in Vectors /\ \A k \in 1 .. 3 : s[k] = v[k] + t[k]
    BY <1>3, <2>3, PlusIs
  <2>5. \A k \in 1 .. 3 : v[k] \in Int /\ t[k] \in Int
    BY <1>3 DEF Vectors
  <2>6. \A k \in 1 .. 3 : s[k] = t[k] + v[k]
    BY ONLY <2>4, <2>5
  <2>7. QED
    BY ONLY <1>2, <1>4, <2>2, <2>4, <2>6 DEF MoreIf
<1>5. CASE ~P
  <2>1. U = T /\ s = t
    BY <1>2, <1>5
  <2>2. \A k \in 1 .. 3 : t[k] = t[k] + 0
    BY <1>3 DEF Vectors
  <2>3. QED
    BY <1>2, <1>3, <1>5, <2>1, <2>2 DEF MoreIf
<1>6. QED
  BY <1>4, <1>5

LEMMA EdgesAdd ==
    ASSUME NEW S \in SUBSET (1 .. 4), NEW f, \A b \in S : f[b] = EdgeOn(b)
    PROVE  /\ Total(f, S) \in Vectors /\ Total(f, S)[1] = 0
           /\ Total(f, S)[2] = (IF 3 \in S THEN 2 ELSE 0) + (IF 4 \in S THEN 2 ELSE 0)
           /\ Total(f, S)[3] = (IF 1 \in S THEN 2 ELSE 0) + (IF 2 \in S THEN 2 ELSE 0)
<1>1. IsFiniteSet({}) /\ IsFiniteSet(S)
  BY FS_EmptySet, CountOf
<1>2. PICK e : e = [b \in 1 .. 4 |-> EdgeOn(b)]
  OBVIOUS
<1>3. /\ \A b \in 1 .. 4 : e[b] = EdgeOn(b) /\ e[b] \in Vectors
      /\ \A b \in S : e[b] = f[b]
  BY <1>2, WeightsAre
<1>4. PICK x1, x2, x3, x4 : x1 = 1 /\ x2 = 2 /\ x3 = 3 /\ x4 = 4
  OBVIOUS
<1>5. PICK P1, P2, P3, P4 : P1 = (x1 \in S) /\ P2 = (x2 \in S) /\ P3 = (x3 \in S) /\ P4 = (x4 \in S)
  OBVIOUS
<1>6. P1 \in BOOLEAN /\ P2 \in BOOLEAN /\ P3 \in BOOLEAN /\ P4 \in BOOLEAN
  BY ONLY <1>5
<1>7. PICK Z : Z = {}
  OBVIOUS
<1>8. PICK A : A = IF P1 THEN Z \union {x1} ELSE Z
  OBVIOUS
<1>9. PICK B : B = IF P2 THEN A \union {x2} ELSE A
  OBVIOUS
<1>10. PICK C : C = IF P3 THEN B \union {x3} ELSE B
  OBVIOUS
<1>11. PICK D : D = IF P4 THEN C \union {x4} ELSE C
  OBVIOUS
<1>12. A \subseteq {x1} /\ B \subseteq {x1, x2} /\ C \subseteq {x1, x2, x3}
  BY ONLY <1>7, <1>8, <1>9, <1>10
<1>13. x1 \notin Z /\ x2 \notin A /\ x3 \notin B /\ x4 \notin C
  BY ONLY <1>4, <1>7, <1>12
<1>14. D = S
  <2>1. 1 .. 4 = {x1, x2, x3, x4}
    BY ONLY <1>4
  <2>2. \A b \in 1 .. 4 : b \in D <=> b \in S
    BY ONLY <1>4, <1>5, <1>7, <1>8, <1>9, <1>10, <1>11, <2>1
  <2>3. D \subseteq 1 .. 4
    BY ONLY <1>11, <1>12, <2>1
  <2>4. QED
    BY ONLY <2>2, <2>3, S \in SUBSET (1 .. 4)
<1>15. x1 \in 1 .. 4 /\ x2 \in 1 .. 4 /\ x3 \in 1 .. 4 /\ x4 \in 1 .. 4
  BY ONLY <1>4
<1>16. /\ AllIn(e, Z \union {x1}) /\ AllIn(e, A \union {x2})
       /\ AllIn(e, B \union {x3}) /\ AllIn(e, C \union {x4})
  BY ONLY <1>3, <1>7, <1>12, <1>15 DEF AllIn
<1>17. IsFiniteSet(Z) /\ \A k \in 1 .. 3 : Total(e, Z)[k] = 0
  BY <1>1, <1>7, TotalEmpty, ZeroIs
<1>17a. MoreIf(e, Z, x1, P1, A)
  BY ONLY <1>6, <1>8, <1>13, <1>16, <1>17, TotalIf
<1>18. /\ IsFiniteSet(A)
       /\ \A k \in 1 .. 3 : Total(e, A)[k] = Total(e, Z)[k] + (IF P1 THEN e[x1][k] ELSE 0)
  BY ONLY <1>17a DEF MoreIf
<1>18a. MoreIf(e, A, x2, P2, B)
  BY ONLY <1>6, <1>9, <1>13, <1>16, <1>18, TotalIf
<1>19. /\ IsFiniteSet(B)
       /\ \A k \in 1 .. 3 : Total(e, B)[k] = Total(e, A)[k] + (IF P2 THEN e[x2][k] ELSE 0)
  BY ONLY <1>18a DEF MoreIf
<1>19a. MoreIf(e, B, x3, P3, C)
  BY ONLY <1>6, <1>10, <1>13, <1>16, <1>19, TotalIf
<1>20. /\ IsFiniteSet(C)
       /\ \A k \in 1 .. 3 : Total(e, C)[k] = Total(e, B)[k] + (IF P3 THEN e[x3][k] ELSE 0)
  BY ONLY <1>19a DEF MoreIf
<1>20a. MoreIf(e, C, x4, P4, D)
  BY ONLY <1>6, <1>11, <1>13, <1>16, <1>20, TotalIf
<1>21. /\ Total(e, D) \in Vectors
       /\ \A k \in 1 .. 3 : Total(e, D)[k] = Total(e, C)[k] + (IF P4 THEN e[x4][k] ELSE 0)
  BY ONLY <1>20a DEF MoreIf
<1>22. /\ \A k \in 1 .. 3 : e[x1][k] = e[x2][k] /\ e[x3][k] = e[x4][k]
       /\ e[x1][1] = 0 /\ e[x1][2] = 0 /\ e[x1][3] = 2
       /\ e[x3][1] = 0 /\ e[x3][2] = 2 /\ e[x3][3] = 0
  <2>1. e[x1] = <<0, 0, 2>> /\ e[x2] = <<0, 0, 2>> /\ e[x3] = <<0, 2, 0>> /\ e[x4] = <<0, 2, 0>>
    BY ONLY <1>3, <1>4, <1>15 DEF EdgeOn
  <2>2. QED
    BY ONLY <2>1
<1>23. PICK t, z, a, b, c : /\ t = Total(e, D) /\ z = Total(e, Z) /\ a = Total(e, A)
                            /\ b = Total(e, B) /\ c = Total(e, C)
  OBVIOUS
<1>24. 1 \in 1 .. 3 /\ 2 \in 1 .. 3 /\ 3 \in 1 .. 3
  OBVIOUS
<1>25. t[1] = 0
  <2>1. z[1] = 0 /\ a[1] = z[1] + (IF P1 THEN 0 ELSE 0) /\ b[1] = a[1] + (IF P2 THEN 0 ELSE 0)
    BY ONLY <1>17, <1>18, <1>19, <1>22, <1>23, <1>24
  <2>2. c[1] = b[1] + (IF P3 THEN 0 ELSE 0) /\ t[1] = c[1] + (IF P4 THEN 0 ELSE 0)
    BY ONLY <1>20, <1>21, <1>22, <1>23, <1>24
  <2>3. QED
    BY ONLY <2>1, <2>2
<1>26. t[2] = (IF P3 THEN 2 ELSE 0) + (IF P4 THEN 2 ELSE 0)
  <2>1. z[2] = 0 /\ a[2] = z[2] + (IF P1 THEN 0 ELSE 0) /\ b[2] = a[2] + (IF P2 THEN 0 ELSE 0)
    BY ONLY <1>17, <1>18, <1>19, <1>22, <1>23, <1>24
  <2>2. c[2] = b[2] + (IF P3 THEN 2 ELSE 0) /\ t[2] = c[2] + (IF P4 THEN 2 ELSE 0)
    BY ONLY <1>20, <1>21, <1>22, <1>23, <1>24
  <2>3. QED
    BY ONLY <2>1, <2>2
<1>27. t[3] = (IF P1 THEN 2 ELSE 0) + (IF P2 THEN 2 ELSE 0)
  <2>1. z[3] = 0 /\ a[3] = z[3] + (IF P1 THEN 2 ELSE 0) /\ b[3] = a[3] + (IF P2 THEN 2 ELSE 0)
    BY ONLY <1>17, <1>18, <1>19, <1>22, <1>23, <1>24
  <2>2. c[3] = b[3] + (IF P3 THEN 0 ELSE 0) /\ t[3] = c[3] + (IF P4 THEN 0 ELSE 0)
    BY ONLY <1>20, <1>21, <1>22, <1>23, <1>24
  <2>3. QED
    BY ONLY <2>1, <2>2
<1>28. Total(f, S) = t
  <2>1. Total(f, S) = Total(e, S)
    BY ONLY <1>1, <1>3, TotalSame
  <2>2. QED
    BY ONLY <1>14, <1>23, <2>1
<1>29. QED
  BY ONLY <1>4, <1>5, <1>21, <1>23, <1>25, <1>26, <1>27, <1>28

\* OnSide of MatrixIsTheLaplacian
EdgesAt(k, n) == IF k \in {0, n - 1} THEN 2 ELSE 0
LEMMA EdgesTotal ==
    ASSUME GlobalsAre, NEW c \in Cells(mesh)
    PROVE  Plus(<<1, 0, 0>>, Total(Edges(c), SidesOf(c)))
              = <<1, EdgesAt(Column(mesh, c), mesh.Nx), EdgesAt(Row(mesh, c), mesh.Ny)>>
<1>1. PICK S, e, t, i, j, X, Y : /\ S = SidesOf(c) /\ e = Edges(c) /\ t = Total(e, S)
                                 /\ i = Column(mesh, c) /\ j = Row(mesh, c)
                                 /\ X = mesh.Nx /\ Y = mesh.Ny
  OBVIOUS
<1>2. X \in Nat /\ Y \in Nat /\ X >= 2 /\ Y >= 2 /\ i \in 0 .. X - 1 /\ j \in 0 .. Y - 1
  BY <1>1, CellFacts DEF GlobalsAre, IsMesh
<1>3. /\ 1 \in S <=> j = 0
      /\ 2 \in S <=> j = Y - 1
      /\ 3 \in S <=> i = 0
      /\ 4 \in S <=> i = X - 1
  BY <1>1 DEF SidesOf, OnSide
<1>4. S \in SUBSET (1 .. 4) /\ \A b \in S : e[b] = EdgeOn(b)
  BY <1>1 DEF SidesOf, Edges
<1>5. /\ t \in Vectors /\ t[1] = 0
      /\ t[2] = (IF 3 \in S THEN 2 ELSE 0) + (IF 4 \in S THEN 2 ELSE 0)
      /\ t[3] = (IF 1 \in S THEN 2 ELSE 0) + (IF 2 \in S THEN 2 ELSE 0)
  BY ONLY <1>1, <1>4, EdgesAdd
<1>6. t[2] = EdgesAt(i, X)
  BY ONLY <1>2, <1>3, <1>5 DEF EdgesAt
<1>7. t[3] = EdgesAt(j, Y)
  BY ONLY <1>2, <1>3, <1>5 DEF EdgesAt
<1>8. PICK o, s : o = <<1, 0, 0>> /\ s = Plus(o, t)
  OBVIOUS
<1>9. o \in Vectors /\ o[1] = 1 /\ o[2] = 0 /\ o[3] = 0
  BY <1>8 DEF Vectors
<1>10. s \in Vectors /\ s[1] = o[1] + t[1] /\ s[2] = o[2] + t[2] /\ s[3] = o[3] + t[3]
  BY <1>5, <1>8, <1>9, PlusIs
<1>11. EdgesAt(i, X) \in Int /\ EdgesAt(j, Y) \in Int
  BY ONLY <1>2 DEF EdgesAt
<1>12. PICK u : u = <<1, EdgesAt(i, X), EdgesAt(j, Y)>>
  OBVIOUS
<1>13. u \in Vectors /\ u[1] = 1 /\ u[2] = EdgesAt(i, X) /\ u[3] = EdgesAt(j, Y)
  BY <1>11, <1>12 DEF Vectors
<1>14. s[1] = u[1] /\ s[2] = u[2] /\ s[3] = u[3]
  BY ONLY <1>5, <1>6, <1>7, <1>9, <1>10, <1>11, <1>13
<1>15. s = u
  BY ONLY <1>10, <1>13, <1>14, SameVector
<1>16. QED
  BY ONLY <1>1, <1>8, <1>12, <1>15

\* the row of a cell of the mesh, at the rank that owns the cell
RowOf(a, r, i, p, n, s) ==
    /\ r = RankOf(a) /\ r \in Procs /\ i = grid[r].global_local[a] /\ i \in 0 .. NS(r) - 1
    /\ a = CellOf(r, i) /\ s = Neighbors(a) /\ p \in Nat /\ n \in Nat
    /\ solver[r].ia_local[i] = p /\ solver[r].ia_local[i + 1] = p + n + 1
    /\ RowAt(r, i, p, n) /\ RowHas(r, i, a, p, n)
    /\ DOMAIN s = 1 .. n
    /\ grid[r].local_global[solver[r].ja_local[p + 1]] = a
    /\ \A k \in 1 .. n : /\ s[k] \in Cells(mesh) /\ Adjacent(s[k], a)
                         /\ grid[r].local_global[solver[r].ja_local[p + k + 1]] = s[k]

LEMMA RowThere ==
    ASSUME SetupInv, FacesInv, MatrixInv, NEW a \in Cells(mesh), \A r \in Procs : At(r) >= 11
    PROVE  GlobalsAre /\ \E r, i, p, n, s : RowOf(a, r, i, p, n, s)
<1>1. GlobalsAre
  BY DEF SetupInv
<1>2. PICK r : r = RankOf(a)
  OBVIOUS
<1>3. r \in Procs /\ a \in Own(r)
  BY <1>1, <1>2, RankFacts DEF Own
<1>4. At(r) >= 11 /\ At(r) \in 0 .. 11 /\ At(r) >= 8 /\ At(r) >= 9
  BY <1>3, RankIs
<1>5. PICK i : i = Local(a)
  OBVIOUS
<1>6. i \in 0 .. NS(r) - 1 /\ CellOf(r, i) = a
  BY <1>1, <1>3, <1>5, OwnCellOf
<1>7. PICK c, s : /\ c = CellOf(r, i) /\ s = Neighbors(c) /\ GlobalsAre
                  /\ c \in Own(r) /\ c \in Cells(mesh) /\ RankOf(c) = r /\ Local(c) = i
                  /\ grid[r].local_global[i] = c /\ grid[r].global_local[c] = i
                  /\ DOMAIN Nbrs(r, i) = DOMAIN s /\ Len(Nbrs(r, i)) = Len(s)
                  /\ \A h \in DOMAIN s :
                        /\ s[h] \in Cells(mesh) /\ Adjacent(s[h], c)
                        /\ grid[r].local_global[Nbrs(r, i)[h]] = s[h]
                        /\ grid[r].face_local[i][h] = Towards(c, s[h])
                  /\ grid[r].boundary = FlattenSeq(SideLists(r))
  BY <1>3, <1>4, <1>6, CellLaid
<1>8. PICK p, n : p = solver[r].ia_local[i] /\ n = Len(Nbrs(r, i))
  OBVIOUS
<1>9. RowAt(r, i, p, n)
  BY <1>3, <1>4, <1>6, <1>8, RowIs
<1>10. RowHas(r, i, a, p, n)
  BY <1>3, <1>4, <1>6, <1>9, RowValues
<1>11. /\ p \in Nat /\ n \in Nat /\ DOMAIN Nbrs(r, i) = 1 .. n
       /\ solver[r].ia_local[i] = p /\ solver[r].ia_local[i + 1] = p + n + 1
       /\ solver[r].ja_local[p + 1] = i
       /\ \A k \in 1 .. n : solver[r].ja_local[p + k + 1] = Nbrs(r, i)[k]
  BY ONLY <1>9 DEF RowAt
<1>12. DOMAIN s = 1 .. n
  BY ONLY <1>7, <1>11
<1>13. RowOf(a, r, i, p, n, s)
  <2>1. grid[r].global_local[a] = i /\ s = Neighbors(a)
    BY ONLY <1>6, <1>7
  <2>2. grid[r].local_global[solver[r].ja_local[p + 1]] = a
    BY ONLY <1>6, <1>7, <1>11
  <2>3. \A k \in 1 .. n : /\ s[k] \in Cells(mesh) /\ Adjacent(s[k], a)
                          /\ grid[r].local_global[solver[r].ja_local[p + k + 1]] = s[k]
    <3>1. TAKE k \in 1 .. n
    <3>2. k \in DOMAIN s /\ solver[r].ja_local[p + k + 1] = Nbrs(r, i)[k]
      BY ONLY <1>11, <1>12, <3>1
    <3>3. QED
      BY ONLY <1>6, <1>7, <3>2
  <2>4. QED
    BY ONLY <1>2, <1>3, <1>6, <1>9, <1>10, <1>11, <1>12, <2>1, <2>2, <2>3 DEF RowOf
<1>14. QED
  BY ONLY <1>1, <1>13

LEMMA RowAddsUp ==
    ASSUME GlobalsAre, NEW a \in Cells(mesh), NEW r, NEW i, NEW p, NEW n, NEW s,
           RowOf(a, r, i, p, n, s)
    PROVE  Total(solver[r].A_data_local, solver[r].ia_local[i] .. solver[r].ia_local[i + 1] - 1)
              = <<1, EdgesAt(Column(mesh, a), mesh.Nx), EdgesAt(Row(mesh, a), mesh.Ny)>>
<1>1. /\ p \in Nat /\ n \in Nat
      /\ solver[r].ia_local[i] = p /\ solver[r].ia_local[i + 1] = p + n + 1
      /\ RowHas(r, i, a, p, n)
  BY DEF RowOf
<1>2. solver[r].ia_local[i + 1] - 1 = p + n
  BY ONLY <1>1
<1>3. PICK A, w, D, T, O, one : /\ A = solver[r].A_data_local /\ w = InnerBy(grid[r])[i]
                                /\ D = DiagonalBy(grid[r], i) /\ T = Total(w, 1 .. n)
                                /\ O = Total(Edges(a), SidesOf(a)) /\ one = <<1, 0, 0>>
  OBVIOUS
<1>4. /\ A[p] = D /\ \A k \in 1 .. n : w[k] \in Vectors /\ A[p + k] = Minus(w[k])
      /\ D = Plus(one, Plus(T, O)) /\ D \in Vectors /\ T \in Vectors /\ O \in Vectors
  BY ONLY <1>1, <1>3 DEF RowHas
<1>5. Total(A, p .. p + n) = Plus(D, Minus(Total(w, 1 .. n)))
  <2>1. RowLike(A, w, D, p, n)
    BY ONLY <1>4 DEF RowLike
  <2>2. QED
    BY ONLY <1>1, <1>4, <2>1, RowTotal
<1>6. one \in Vectors
  BY <1>3 DEF Vectors
<1>7. Plus(D, Minus(T)) = Plus(one, O)
  BY ONLY <1>4, <1>6, LeftOver
<1>8. Plus(one, O) = <<1, EdgesAt(Column(mesh, a), mesh.Nx), EdgesAt(Row(mesh, a), mesh.Ny)>>
  BY <1>3, EdgesTotal
<1>9. QED
  BY ONLY <1>1, <1>2, <1>3, <1>5, <1>7, <1>8

LEMMA ApartIs ==
    ASSUME GlobalsAre, NEW a \in Cells(mesh)
    PROVE  ~Adjacent(a, a)
<1>1. PICK i, j : i = Column(mesh, a) /\ j = Row(mesh, a)
  OBVIOUS
<1>2. i \in Int /\ j \in Int
  BY <1>1, CellFacts DEF GlobalsAre, IsMesh
<1>3. i - i = 0 /\ j - j = 0 /\ AbsValue(0) = 0
  BY ONLY <1>2 DEF AbsValue
<1>4. AbsValue(i - i) + AbsValue(j - j) # 1
  BY ONLY <1>3
<1>5. QED
  BY ONLY <1>1, <1>4 DEF Adjacent

\* the entries of the row: the diagonal, one for each neighbour, and no other
EntryKinds(e, a, b) ==
    /\ a = b => e # Zero
    /\ a # b /\ Adjacent(a, b) => e = Minus(WeightOf(Towards(a, b).area))
    /\ a # b /\ ~Adjacent(a, b) => e = Zero

LEMMA EntryIs ==
    ASSUME GlobalsAre, NEW a \in Cells(mesh), NEW b \in Cells(mesh),
           NEW r, NEW i, NEW p, NEW n, NEW s, RowOf(a, r, i, p, n, s)
    PROVE  EntryKinds(Entry(r, a, b), a, b)
<1>1. /\ p \in Nat /\ n \in Nat /\ s = Neighbors(a) /\ DOMAIN s = 1 .. n
      /\ i = grid[r].global_local[a]
      /\ solver[r].ia_local[i] = p /\ solver[r].ia_local[i + 1] = p + n + 1
      /\ RowHas(r, i, a, p, n)
      /\ grid[r].local_global[solver[r].ja_local[p + 1]] = a
      /\ \A k \in 1 .. n : /\ s[k] \in Cells(mesh) /\ Adjacent(s[k], a)
                           /\ grid[r].local_global[solver[r].ja_local[p + k + 1]] = s[k]
  BY DEF RowOf
<1>2. PICK A, w, D, lg, ja : /\ A = solver[r].A_data_local /\ w = InnerBy(grid[r])[i]
                             /\ D = DiagonalBy(grid[r], i) /\ lg = grid[r].local_global
                             /\ ja = solver[r].ja_local
  OBVIOUS
<1>3. /\ A[p] = D /\ D \in Vectors /\ D # Zero
      /\ \A k \in 1 .. n : /\ A[p + k] = Minus(w[k]) /\ w[k] \in Vectors
                           /\ w[k] = WeightOf(Towards(a, s[k]).area)
  BY ONLY <1>1, <1>2 DEF RowHas
<1>4. PICK slots : slots = {m \in p .. p + n : lg[ja[m + 1]] = b}
  OBVIOUS
<1>5. Entry(r, a, b) = Total(A, slots)
  <2>1. solver[r].ia_local[i + 1] - 1 = p + n
    BY ONLY <1>1
  <2>2. QED
    BY ONLY <1>1, <1>2, <1>4, <2>1 DEF Entry
<1>6. \A k \in 1 .. n : s[k] # a
  BY <1>1, ApartIs
<1>7. ASSUME NEW m \in slots
      PROVE  \/ m = p /\ a = b
             \/ \E k \in 1 .. n : m = p + k /\ s[k] = b
  <2>1. m \in p .. p + n /\ lg[ja[m + 1]] = b
    BY ONLY <1>4, <1>7
  <2>2. PICK k : k = m - p
    OBVIOUS
  <2>3. k \in 0 .. n /\ m = p + k /\ m + 1 = p + k + 1
    BY ONLY <1>1, <2>1, <2>2
  <2>4. CASE k = 0
    <3>1. m = p /\ m + 1 = p + 1
      BY ONLY <1>1, <2>3, <2>4
    <3>2. QED
      BY ONLY <1>1, <1>2, <2>1, <3>1
  <2>5. CASE k # 0
    <3>1. k \in 1 .. n
      BY ONLY <1>1, <2>3, <2>5
    <3>2. QED
      BY ONLY <1>1, <1>2, <2>1, <2>3, <3>1
  <2>6. QED
    BY <2>4, <2>5
<1>8. ASSUME a = b
      PROVE  Entry(r, a, b) # Zero
  <2>1. p \in slots
    <3>1. p \in p .. p + n
      BY ONLY <1>1
    <3>2. QED
      BY ONLY <1>1, <1>2, <1>4, <1>8, <3>1
  <2>2. slots = {p}
    BY ONLY <1>6, <1>7, <1>8, <2>1
  <2>3. Total(A, {p}) = D
    BY ONLY <1>3, TotalOne
  <2>4. QED
    BY ONLY <1>3, <1>5, <2>2, <2>3
<1>9. ASSUME a # b, Adjacent(a, b)
      PROVE  Entry(r, a, b) = Minus(WeightOf(Towards(a, b).area))
  <2>1. Adjacent(b, a)
    BY <1>9, BothWays
  <2>2. b \in ToSet(s)
    BY <1>1, <2>1, Touching
  <2>3. PICK k \in 1 .. n : s[k] = b
    BY <1>1, <2>2 DEF ToSet
  <2>4. p + k \in slots
    <3>1. p + k \in p .. p + n
      BY ONLY <1>1, k \in 1 .. n
    <3>2. QED
      BY ONLY <1>1, <1>2, <1>4, <2>3, <3>1
  <2>5. \A l \in 1 .. n : s[l] = b => l = k
    BY <1>1, <2>3, NeighborOnce
  <2>6. slots = {p + k}
    BY ONLY <1>7, <1>9, <2>4, <2>5
  <2>7. A[p + k] = Minus(w[k]) /\ w[k] \in Vectors /\ w[k] = WeightOf(Towards(a, b).area)
    BY <1>3, <2>3
  <2>8. A[p + k] \in Vectors
    BY ONLY <2>7, PlusIs
  <2>9. PICK q : q = p + k
    OBVIOUS
  <2>10. Total(A, {q}) = A[q]
    BY ONLY <2>8, <2>9, TotalOne
  <2>11. QED
    BY ONLY <1>5, <2>6, <2>7, <2>9, <2>10
<1>10. ASSUME a # b, ~Adjacent(a, b)
       PROVE  Entry(r, a, b) = Zero
  <2>1. ~Adjacent(b, a)
    BY <1>10, BothWays
  <2>2. \A k \in 1 .. n : s[k] # b
    BY ONLY <1>1, <2>1
  <2>3. slots = {}
    BY ONLY <1>7, <1>10, <2>2
  <2>4. QED
    BY ONLY <1>5, <2>3, TotalEmpty
<1>11. QED
  BY ONLY <1>8, <1>9, <1>10 DEF EntryKinds

LEMMA MatrixFollows ==
    ASSUME SetupInv, FacesInv, MatrixInv
    PROVE  MatrixIsTheLaplacian
<1>1. SUFFICES ASSUME \A r \in Procs : Past(r, "min_value"), NEW a \in Cells(mesh)
               PROVE  /\ LET r == RankOf(a)
                             i == grid[r].global_local[a]
                         IN  Total(solver[r].A_data_local,
                                   solver[r].ia_local[i] .. solver[r].ia_local[i + 1] - 1)
                                = <<1, EdgesAt(Column(mesh, a), mesh.Nx),
                                       EdgesAt(Row(mesh, a), mesh.Ny)>>
                      /\ \A b \in Cells(mesh) : Entry(RankOf(a), a, b) = Entry(RankOf(b), b, a)
                      /\ \A b \in Cells(mesh) :
                            Entry(RankOf(a), a, b) # Zero <=> a = b \/ Adjacent(a, b)
  BY DEF MatrixIsTheLaplacian, EdgesAt
<1>2. \A r \in Procs : At(r) >= 11
  <2>1. TAKE r \in Procs
  <2>2. At(r) > 10 /\ At(r) \in 0 .. 11
    BY <1>1, PastIs, RankIs DEF Place
  <2>3. QED
    BY ONLY <2>2
<1>3. GlobalsAre /\ \A c \in Cells(mesh) : \E r, i, p, n, s : RowOf(c, r, i, p, n, s)
  BY <1>1, <1>2, RowThere
<1>4. PICK r, i, p, n, s : RowOf(a, r, i, p, n, s)
  BY <1>3
<1>5. r = RankOf(a) /\ i = grid[r].global_local[a]
  BY ONLY <1>4 DEF RowOf
<1>6. Total(solver[r].A_data_local, solver[r].ia_local[i] .. solver[r].ia_local[i + 1] - 1)
         = <<1, EdgesAt(Column(mesh, a), mesh.Nx), EdgesAt(Row(mesh, a), mesh.Ny)>>
  BY <1>3, <1>4, RowAddsUp
<1>7. \A c, d \in Cells(mesh) : EntryKinds(Entry(RankOf(c), c, d), c, d)
  <2>1. TAKE c, d \in Cells(mesh)
  <2>2. PICK q, j, h, l, t : RowOf(c, q, j, h, l, t)
    BY <1>3
  <2>3. q = RankOf(c)
    BY ONLY <2>2 DEF RowOf
  <2>4. EntryKinds(Entry(q, c, d), c, d)
    BY <1>3, <2>2, EntryIs
  <2>5. QED
    BY ONLY <2>3, <2>4
<1>8. ASSUME NEW b \in Cells(mesh)
      PROVE  /\ Entry(RankOf(a), a, b) = Entry(RankOf(b), b, a)
             /\ Entry(RankOf(a), a, b) # Zero <=> a = b \/ Adjacent(a, b)
  <2>1. PICK e, f : e = Entry(RankOf(a), a, b) /\ f = Entry(RankOf(b), b, a)
    OBVIOUS
  <2>2. EntryKinds(e, a, b) /\ EntryKinds(f, b, a)
    BY <1>7, <2>1
  <2>3. /\ Adjacent(a, b) <=> Adjacent(b, a)
        /\ Towards(b, a).area = Towards(a, b).area
        /\ ~Adjacent(a, a)
    BY <1>3, BothWays, ApartIs
  <2>4. CASE a = b
    <3>1. e = f
      BY ONLY <2>1, <2>4
    <3>2. e # Zero
      BY ONLY <2>2, <2>4 DEF EntryKinds
    <3>3. QED
      BY ONLY <2>1, <2>4, <3>1, <3>2
  <2>5. CASE a # b /\ Adjacent(a, b)
    <3>1. e = Minus(WeightOf(Towards(a, b).area)) /\ f = Minus(WeightOf(Towards(b, a).area))
      BY ONLY <2>2, <2>3, <2>5 DEF EntryKinds
    <3>2. e = f /\ e # Zero
      BY ONLY <2>3, <3>1, WeightsAre
    <3>3. QED
      BY ONLY <2>1, <2>5, <3>2
  <2>6. CASE a # b /\ ~Adjacent(a, b)
    <3>1. e = Zero /\ f = Zero
      BY ONLY <2>2, <2>3, <2>6 DEF EntryKinds
    <3>2. QED
      BY ONLY <2>1, <2>6, <3>1
  <2>7. QED
    BY <2>4, <2>5, <2>6
<1>9. QED
  BY ONLY <1>5, <1>6, <1>8

\* The rows that the ranks hold after compute_system make one symmetric matrix, with an
\* entry for every cell and every pair of neighbours and for no other pair, also between
\* cells of two ranks; a row adds up to the time term and twice the faces that the cell
\* has on the sides of the mesh (CPUSolver::setup_matrix_struct, compute_system).
THEOREM MatrixIsTheLaplacianHolds == Spec => []MatrixIsTheLaplacian
<1>1. SetupInv /\ FacesInv /\ MatrixInv => MatrixIsTheLaplacian
  BY MatrixFollows
<1>2. QED
  BY <1>1, MatrixInvHolds, PTL

-----------------------------------------------------------------------------
(* The input.  The code only counts the valid lines.  That this is enough   *)
(* is an argument about the whole file: each line a rank has read is of an  *)
(* option of the table and has set it; no two lines are of the same option; *)
(* so as many lines as there are options are of all of them.                *)

\* What the user is asked for.
WellFormed ==
    /\ argc \in 2..3
    /\ infile \in Seq(Lines)
    /\ \A j, k \in DOMAIN infile : infile[j].option = infile[k].option => j = k
    /\ \A k \in DOMAIN infile : infile[k].indent <= infile[k].gap

\* The line is of an option of the table, which has the value written there.
IsRead(r, line) ==
    /\ line.option \in Options
    /\ options[r][line.option] = Meaning(line.option, line.value)

Domains ==
    /\ DOMAIN pc = Readers
    /\ DOMAIN at = Readers
    /\ DOMAIN input_count = Readers
    /\ DOMAIN options = Readers
    /\ \A r \in Readers : DOMAIN options[r] = Options

Progress(r) ==
    /\ at[r] \in 0..Len(infile)
    /\ input_count[r] = at[r]
    /\ \A k \in 1..at[r] : IsRead(r, infile[k])
    /\ pc[r] \in {"main", "getline", "options"}
    /\ pc[r] = "main" => at[r] = 0
    /\ pc[r] = "options" => at[r] = Len(infile) /\ at[r] = Len(input_strings)

Inv == WellFormed /\ Domains /\ \A r \in Readers : Progress(r)

-----------------------------------------------------------------------------
(* The line.                                                                *)

\* A name that is indented by no more than its distance to its value loses
\* nothing of the value.
LEMMA NothingEaten ==
    ASSUME NEW line \in Lines, line.indent <= line.gap
    PROVE  Kept(line) = line.value
<1>1. line.value \in Seq(0..35) /\ line.indent \in Nat /\ line.gap \in Nat
  BY LinesAssumption
<1>2. ~(line.indent > line.gap)
  BY <1>1
<1>3. Kept(line) = SubSeq(line.value, 1, Len(line.value))
  BY <1>2 DEF Kept
<1>4. SubSeq(line.value, 1, Len(line.value)) = line.value
  BY <1>1
<1>5. QED
  BY <1>3, <1>4

\* A set of natural numbers that is not empty has a least element.
LEMMA LeastElement ==
    ASSUME NEW D, D \subseteq Nat, D # {}
    PROVE  \E d \in D : \A c \in D : d <= c
<1>1. PICK d \in D : \A c \in D : ~(<<c, d>> \in OpToRel(<, Nat))
  BY WFMin, NatLessThanWellFounded
<1>2. ASSUME NEW c \in D, c < d PROVE FALSE
  <2>1. <<c, d>> \in Nat \X Nat /\ <<c, d>>[1] < <<c, d>>[2]
    BY <1>2
  <2>2. <<c, d>> \in OpToRel(<, Nat)
    BY <2>1 DEF OpToRel
  <2>3. QED
    BY <1>1, <2>2
<1>3. QED
  BY <1>2

\* The option a line is used for is one of the table.
LEMMA FoundInTable ==
    ASSUME NEW line \in Lines, Found(line) # {}
    PROVE  input_strings[Min(Found(line))] \in Options
<1>1. Found(line) \subseteq DOMAIN input_strings
  BY DEF Found
<1>2. DOMAIN input_strings = 1..Len(input_strings)
  BY OptionsAssumption
<1>3. PICK n \in Found(line) : \A m \in Found(line) : n <= m
  <2>1. Found(line) \subseteq Nat
    BY <1>1, <1>2
  <2>2. QED
    BY <2>1, LeastElement
<1>4. Min(Found(line)) \in Found(line)
  BY <1>3 DEF Min
<1>5. QED
  BY <1>1, <1>4 DEF Options, ToSet

\* As many lines as options, each of an option and no two of the same one: some
\* line is of each option.
LEMMA EveryOptionGiven ==
    ASSUME WellFormed,
           Len(infile) = Len(input_strings),
           \A k \in 1..Len(infile) : infile[k].option \in Options,
           NEW o \in Options
    PROVE  \E k \in DOMAIN infile : Given(o) = {k}
<1> DEFINE n == Len(infile)
           given == {infile[k].option : k \in 1..n}
<1>1. DOMAIN infile = 1..n /\ n \in Nat
  BY DEF WellFormed
<1>2. IsFiniteSet(1..n) /\ Cardinality(1..n) = n
  <2>1. 1 \in Int /\ n \in Int
    BY <1>1
  <2>2. IsFiniteSet(1..n) /\ Cardinality(1..n) = IF 1 > n THEN 0 ELSE n - 1 + 1
    BY <2>1, FS_Interval
  <2>3. QED
    BY <1>1, <2>2
<1>3. IsFiniteSet(given) /\ Cardinality(given) = n
  <2> DEFINE f == [k \in 1..n |-> infile[k].option]
  <2>1. f \in [1..n -> given]
    OBVIOUS
  <2>2. \A j, k \in 1..n : f[j] = f[k] => j = k
    BY <1>1 DEF WellFormed
  <2>3. \A x \in given : \E k \in 1..n : f[k] = x
    OBVIOUS
  <2>4. f \in Bijection(1..n, given)
    <3> HIDE DEF f, given
    <3>1. DOMAIN f = 1..n
      BY <2>1
    <3>2. QED
      BY <2>1, <2>2, <2>3, <3>1 DEF Bijection, Injection, Surjection, IsInjective
  <2>5. QED
    BY <1>2, <2>4, FS_Bijection DEF ExistsBijection
<1>4. IsFiniteSet(Options) /\ Cardinality(Options) = n
  <2>1. DOMAIN input_strings = 1..n
    BY OptionsAssumption
  <2>2. input_strings \in Bijection(1..n, Options)
    BY <2>1, OptionsAssumption DEF Bijection, Injection, Surjection, Options, ToSet, IsInjective
  <2>3. QED
    BY <1>2, <2>2, FS_Bijection DEF ExistsBijection
<1>5. given = Options
  BY <1>3, <1>4, FS_Subset
<1>6. PICK k \in 1..n : infile[k].option = o
  BY <1>5
<1>7. Given(o) = {k}
  BY <1>1, <1>6 DEF Given, WellFormed
<1>8. QED
  BY <1>1, <1>7

-----------------------------------------------------------------------------
(* The invariant.                                                           *)

\* The invariant holds before a rank has read anything.
LEMMA InvInit == ASSUME Waived = {}, ParserInit PROVE Inv
<1>1. argc \in 2..3
  BY DEF ParserInit
<1>2. infile \in Seq(Lines)
  BY LengthAssumption DEF ParserInit
<1>3. WellFormed
  BY <1>1, <1>2 DEF ParserInit, WellFormed
<1>4. Domains
  BY DEF ParserInit, Domains, Defaults
<1>5. ASSUME NEW r \in Readers
      PROVE  Progress(r)
  <2>1. Len(infile) \in Nat
    BY <1>2
  <2>2. at[r] = 0 /\ input_count[r] = 0 /\ pc[r] = "main"
    BY DEF ParserInit
  <2>3. QED
    BY <2>1, <2>2 DEF Progress
<1>6. QED
  BY <1>3, <1>4, <1>5 DEF Inv

\* Nothing a rank's progress is made of has changed.
LEMMA SameProgress ==
    ASSUME NEW r \in Readers, Progress(r), UNCHANGED infile,
           pc'[r] = pc[r], at'[r] = at[r],
           input_count'[r] = input_count[r], options'[r] = options[r]
    PROVE  Progress(r)'
BY DEF Progress, IsRead

LEMMA SameFile ==
    ASSUME WellFormed, UNCHANGED <<argc, infile>>
    PROVE  WellFormed'
BY DEF WellFormed

\* A line that is used sets its option to its value.
LEMMA UseLine ==
    ASSUME Inv, NEW r \in Readers, at[r] < Len(infile), pc[r] = "getline",
           NEW o \in Options, o = infile[at[r] + 1].option,
           options' = [options EXCEPT ![r][o] = Meaning(o, Kept(infile[at[r] + 1]))],
           input_count' = [input_count EXCEPT ![r] = @ + 1],
           at' = [at EXCEPT ![r] = @ + 1],
           UNCHANGED <<argc, infile, pc>>
    PROVE  Inv'
<1>1. PICK i : i = at[r] + 1
  OBVIOUS
<1>2. i \in DOMAIN infile /\ i = at[r] + 1 /\ i \in 1..Len(infile) /\ at[r] \in Nat
  BY <1>1 DEF Inv, Progress, WellFormed
<1>3. WellFormed'
  BY SameFile DEF Inv
<1>4. PICK line : line = infile[i]
  OBVIOUS
<1>5. line \in Lines /\ line.indent <= line.gap
  BY <1>2, <1>4 DEF Inv, WellFormed
<1>6. Kept(line) = line.value
  BY <1>5, NothingEaten
<1>7. options'[r][o] = Meaning(o, line.value) /\ line.option = o
  BY <1>1, <1>4, <1>6 DEF Inv, Domains
<1>8. Domains'
  BY DEF Inv, Domains
<1>9. ASSUME NEW p \in Options, p # o
      PROVE  options'[r][p] = options[r][p]
  BY <1>9 DEF Inv, Domains
<1>10. Progress(r)'
  <2>1. at'[r] = i /\ input_count'[r] = i
    BY <1>2 DEF Inv, Domains, Progress
  <2>2. ASSUME NEW k \in 1..i
        PROVE  IsRead(r, infile[k])'
    <3>1. CASE k = i
      BY <1>4, <1>7, <3>1 DEF IsRead
    <3>2. CASE k # i
      <4>1. k \in 1..at[r] /\ k \in DOMAIN infile
        BY <1>2, <3>2 DEF Inv, WellFormed
      <4>2. IsRead(r, infile[k])
        BY <4>1 DEF Inv, Progress
      <4>3. infile[k].option # o
        BY <1>2, <1>4, <1>7, <3>2, <4>1 DEF Inv, WellFormed
      <4>4. QED
        BY <1>9, <4>2, <4>3 DEF IsRead
    <3>3. QED
      BY <3>1, <3>2
  <2>3. pc'[r] = "getline"
    OBVIOUS
  <2>4. QED
    BY <1>2, <2>1, <2>2, <2>3 DEF Progress
<1>11. ASSUME NEW s \in Readers, s # r
       PROVE  Progress(s)'
  BY <1>11, SameProgress DEF Inv, Domains
<1>12. QED
  BY <1>3, <1>8, <1>10, <1>11 DEF Inv

\* Every step of every rank keeps it.
LEMMA InvNext == ASSUME Inv, [ParserNext]_parserVars PROVE Inv'
<1>1. CASE UNCHANGED parserVars
  <2>1. WellFormed' /\ Domains'
    BY <1>1 DEF parserVars, Inv, WellFormed, Domains
  <2>2. ASSUME NEW r \in Readers
        PROVE  Progress(r)'
    BY <1>1, SameProgress DEF parserVars, Inv
  <2>3. QED
    BY <2>1, <2>2 DEF Inv
<1>2. CASE phase' # phase /\ UNCHANGED <<argc, infile, pc, at, input_count, options>>
  <2>1. WellFormed' /\ Domains'
    BY <1>2 DEF Inv, WellFormed, Domains
  <2>2. ASSUME NEW r \in Readers
        PROVE  Progress(r)'
    BY <1>2, SameProgress DEF Inv
  <2>3. QED
    BY <2>1, <2>2 DEF Inv
<1>3. ASSUME NEW r \in Readers, Main(r)
      PROVE  Inv'
  <2>1. pc' = [pc EXCEPT ![r] = "getline"] /\ pc[r] = "main"
        /\ UNCHANGED <<argc, infile, at, input_count, options>>
    <3>1. argc >= 2
      BY DEF Inv, WellFormed
    <3>2. QED
      BY <1>3, <3>1 DEF Main, Goto
  <2>2. WellFormed' /\ Domains'
    BY <2>1, SameFile DEF Inv, Domains
  <2>3. Progress(r)'
    BY <2>1 DEF Inv, Domains, Progress, IsRead
  <2>4. ASSUME NEW s \in Readers, s # r
        PROVE  Progress(s)'
    BY <2>1, <2>4, SameProgress DEF Inv, Domains
  <2>5. QED
    BY <2>2, <2>3, <2>4 DEF Inv
<1>4. ASSUME NEW r \in Readers, CannotOpen(r)
      PROVE  Inv'
  BY <1>2, <1>4 DEF CannotOpen, End, Running
<1>5. ASSUME NEW r \in Readers, ReadLine(r)
      PROVE  Inv'
  <2>1. PICK line : line = infile[at[r] + 1]
    OBVIOUS
  <2>2. at[r] < Len(infile) /\ pc[r] = "getline" /\ UNCHANGED <<argc, infile>> /\ Running
    BY <1>5 DEF ReadLine
  <2>3. line \in Lines
    BY <2>1, <2>2 DEF Inv, WellFormed, Progress
  <2>4. CASE \E how \in {"aborted", "terminated"} : End(how)
    BY <1>2, <2>2, <2>4 DEF End, Running
  <2>5. CASE ~\E how \in {"aborted", "terminated"} : End(how)
    <3>1. PICK o : o = input_strings[Min(Found(line))]
      OBVIOUS
    <3>2. /\ Found(line) # {}
          /\ o = line.option
          /\ options' = [options EXCEPT ![r][o] = Meaning(o, Kept(line))]
          /\ input_count' = [input_count EXCEPT ![r] = @ + 1]
          /\ at' = [at EXCEPT ![r] = @ + 1]
          /\ UNCHANGED pc
      BY <1>5, <2>1, <2>5, <3>1 DEF ReadLine, IsChoice, IsNumber
    <3>3. o \in Options
      BY <2>3, <3>1, <3>2, FoundInTable
    <3>4. QED
      BY <2>1, <2>2, <3>2, <3>3, UseLine
  <2>6. QED
    BY <2>4, <2>5
<1>6. ASSUME NEW r \in Readers, EndOfFile(r)
      PROVE  Inv'
  <2>1. CASE End("aborted")
    BY <1>2, <1>6, <2>1 DEF End, EndOfFile, Running
  <2>2. CASE ~End("aborted")
    <3>1. /\ Complete(r)
          /\ pc' = [pc EXCEPT ![r] = "options"]
          /\ at[r] = Len(infile)
          /\ UNCHANGED <<argc, infile, at, input_count, options>>
      BY <1>6, <2>2 DEF EndOfFile, Goto
    <3>2. WellFormed' /\ Domains'
      BY <3>1, SameFile DEF Inv, Domains
    <3>3. Progress(r)'
      BY <3>1 DEF Inv, Domains, Progress, IsRead, Complete
    <3>4. ASSUME NEW s \in Readers, s # r
          PROVE  Progress(s)'
      BY <3>1, <3>4, SameProgress DEF Inv, Domains
    <3>5. QED
      BY <3>2, <3>3, <3>4 DEF Inv
  <2>3. QED
    BY <2>1, <2>2
<1>7. QED
  BY <1>1, <1>3, <1>4, <1>5, <1>6 DEF ParserNext, Ended

\* At the end of the file it says what the property asks for.
LEMMA InvGivesOptions == ASSUME Inv PROVE OptionsAreAsGiven
<1>1. SUFFICES ASSUME NEW r \in Readers, pc[r] = "options", NEW o \in Options
               PROVE  /\ Cardinality(Given(o)) = 1
                      /\ \A k \in Given(o) : options[r][o] = Meaning(o, infile[k].value)
  BY DEF OptionsAreAsGiven, Inv, WellFormed
<1>2. Len(infile) = Len(input_strings) /\ \A k \in 1..Len(infile) : IsRead(r, infile[k])
  BY <1>1 DEF Inv, Progress
<1>3. PICK k \in DOMAIN infile : Given(o) = {k}
  BY <1>2, EveryOptionGiven DEF Inv, IsRead
<1>4. Cardinality(Given(o)) = 1
  BY <1>3, FS_Singleton
<1>5. k \in 1..Len(infile) /\ infile[k].option = o
  BY <1>3 DEF Given, Inv, WellFormed
<1>6. QED
  BY <1>2, <1>3, <1>4, <1>5 DEF IsRead

\* For a user who names a file, gives no option twice and keeps the margin:
\* every rank that gets past its input has the options the file gives, each
\* given by exactly one line, though the code only counts the lines
\* (read_inputs, find_input_option, parse_input_value).
THEOREM OptionsAlwaysAsGiven ==
    ASSUME Waived = {}
    PROVE  ParserSpec => []OptionsAreAsGiven
<1>1. ParserInit => Inv
  BY InvInit
<1>2. Inv /\ [ParserNext]_parserVars => Inv'
  BY InvNext
<1>3. Inv => OptionsAreAsGiven
  BY InvGivesOptions
<1>4. QED
  BY <1>1, <1>2, <1>3, PTL DEF ParserSpec
=============================================================================
