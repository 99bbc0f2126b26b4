--------------------------- MODULE GpuMathProofs ---------------------------
(***************************************************************************)
(* No race, no lost extremum and the result of the sequential loop, for    *)
(* any number of threads, any vector and any kernel of GpuMath.             *)
(***************************************************************************)
EXTENDS GpuMath, TLAPS, FiniteSetTheorems, WellFoundedInduction

-----------------------------------------------------------------------------
(* The strided loops share the elements out.                                *)

\* the elements thread t visits: tid, tid + stride, ...
Visited(t) == {i \in Nat : \E k \in Nat : i = t + k * NumThreads}

LEMMA MoreStrides ==
    ASSUME NEW j \in Nat, NEW k \in Nat, j < k
    PROVE  j * NumThreads + NumThreads <= k * NumThreads
<1>1. NumThreads \in Nat
  BY NumThreadsAssumption
<1>2. PICK d \in Nat : k = j + 1 + d
  <2>1. k - j - 1 \in Nat /\ k = j + 1 + (k - j - 1)
    OBVIOUS
  <2>2. QED
    BY <2>1
<1>3. k * NumThreads = j * NumThreads + NumThreads + d * NumThreads
  BY <1>1, <1>2
<1>4. j * NumThreads \in Nat /\ d * NumThreads \in Nat
  BY <1>1
<1>5. QED
  BY <1>1, <1>3, <1>4

\* two threads never visit the same element
LEMMA VisitedOnce ==
    ASSUME NEW t \in Threads, NEW u \in Threads, NEW i \in Visited(t), i \in Visited(u)
    PROVE  t = u
<1>1. PICK j \in Nat : i = t + j * NumThreads
  BY DEF Visited
<1>2. PICK k \in Nat : i = u + k * NumThreads
  BY DEF Visited
<1>3. /\ t \in Nat /\ u \in Nat /\ t < NumThreads /\ u < NumThreads /\ NumThreads \in Nat
      /\ j * NumThreads \in Nat /\ k * NumThreads \in Nat
  BY NumThreadsAssumption DEF Threads
<1>4. ~(j < k)
  BY <1>1, <1>2, <1>3, MoreStrides
<1>5. ~(k < j)
  BY <1>1, <1>2, <1>3, MoreStrides
<1>6. j = k
  BY <1>4, <1>5
<1>7. QED
  BY <1>1, <1>2, <1>3, <1>6

\* every element is visited by some thread
LEMMA VisitedByAll ==
    ASSUME NEW i \in Nat
    PROVE  \E t \in Threads : i \in Visited(t)
<1> DEFINE t == i % NumThreads
           k == i \div NumThreads
<1>1. NumThreads \in Nat /\ NumThreads > 0
  BY NumThreadsAssumption
<1>2. t \in Threads /\ k \in Nat /\ i = t + k * NumThreads
  BY <1>1, SMT DEF Threads
<1>3. QED
  BY <1>2 DEF Visited

\* between two elements of a thread there is no third one
LEMMA NextVisited ==
    ASSUME NEW t \in Threads, NEW i \in Visited(t), NEW j \in Visited(t),
           j < i + NumThreads
    PROVE  j <= i
<1>1. PICK a \in Nat : i = t + a * NumThreads
  BY DEF Visited
<1>2. PICK b \in Nat : j = t + b * NumThreads
  BY DEF Visited
<1>3. t \in Nat /\ NumThreads \in Nat /\ a * NumThreads \in Nat /\ b * NumThreads \in Nat
  BY NumThreadsAssumption DEF Threads
<1>4. ~(a < b)
  BY <1>1, <1>2, <1>3, MoreStrides
<1>5. CASE a = b
  BY <1>1, <1>2, <1>3, <1>5
<1>6. CASE b < a
  BY <1>1, <1>2, <1>3, <1>6, MoreStrides
<1>7. QED
  BY <1>4, <1>5, <1>6

LEMMA StrideVisited ==
    ASSUME NEW t \in Threads, NEW i \in Visited(t)
    PROVE  i + NumThreads \in Visited(t)
<1>1. PICK k \in Nat : i = t + k * NumThreads
  BY DEF Visited
<1>2. k + 1 \in Nat /\ (k + 1) * NumThreads = k * NumThreads + NumThreads
  BY NumThreadsAssumption
<1>3. i + NumThreads = t + (k + 1) * NumThreads /\ i + NumThreads \in Nat
  BY <1>1, <1>2, NumThreadsAssumption DEF Threads, Visited
<1>4. QED
  BY <1>2, <1>3 DEF Visited

LEMMA FirstVisited ==
    ASSUME NEW t \in Threads
    PROVE  t \in Visited(t)
<1>1. t \in Nat /\ t = t + 0 * NumThreads
  BY NumThreadsAssumption DEF Threads
<1>2. QED
  BY <1>1 DEF Visited

-----------------------------------------------------------------------------
(* The invariant.                                                           *)

\* the points of a thread between two loop tests
BeforeMax == {"sub", "max", "cas_max"}
AfterMax  == {"min", "cas_min"}
PCs == {"enter", "loop", "barrier", "combine", "done"} \union BeforeMax \union AfterMax

TypeInv ==
    /\ launch \in Launches
    /\ pc \in [Threads -> PCs]
    /\ idx \in [Threads -> Nat]

\* a thread is at one of its own elements as long as it uses the loop variable
StrideInv ==
    \A t \in Threads :
        kernel \notin Reductions \/ pc[t] \in {"enter", "loop"} => idx[t] \in Visited(t)

\* reductions wait at the barrier, atomics are in the middle of an element
FamilyInv ==
    \A t \in Threads :
        /\ pc[t] \in {"barrier", "combine"} => kernel \in Reductions
        /\ pc[t] \in BeforeMax \union AfterMax => kernel = "atomics"

\* thread 0 combines the shares after everybody has left the loop
BarrierInv ==
    \A t \in Threads :
        pc[t] = "combine" => /\ t = 0
                             /\ \A u \in Threads : pc[u] \notin {"enter", "loop"}

RaceInv == TypeInv /\ FamilyInv /\ StrideInv /\ BarrierInv

LEMMA LaunchFacts ==
    ASSUME launch \in Launches
    PROVE  /\ kernel \in Kernels
           /\ n \in Nat
           /\ x \in [0 .. n - 1 -> Int]
           /\ launch.out \in [Slots -> Int]
           /\ {0, 1, 2, 3} \subseteq Slots
BY LaunchesAssumption, MaxElementsAssumption DEF kernel, n, x, Slots

LEMMA RaceInit == Init => RaceInv
<1> SUFFICES ASSUME Init PROVE RaceInv
  OBVIOUS
<1>1. Threads \subseteq Nat
  BY NumThreadsAssumption DEF Threads
<1>2. TypeInv
  BY <1>1 DEF Init, TypeInv, PCs
<1>3. StrideInv
  BY FirstVisited DEF Init, StrideInv
<1>4. FamilyInv /\ BarrierInv
  BY DEF Init, FamilyInv, BarrierInv, BeforeMax, AfterMax
<1>5. QED
  BY <1>2, <1>3, <1>4 DEF RaceInv

LEMMA RaceStep == RaceInv /\ [Next]_vars => RaceInv'
<1> SUFFICES ASSUME RaceInv, [Next]_vars PROVE RaceInv'
  OBVIOUS
<1> USE DEF RaceInv, kernel, n
<1>0. Threads \subseteq Nat /\ NumThreads \in Nat
  BY NumThreadsAssumption DEF Threads
<1>1. ASSUME NEW t \in Threads, Enter(t) PROVE RaceInv'
  <2>1. TypeInv'
    BY <1>1 DEF Enter, TypeInv, PCs
  <2>2. StrideInv'
    BY <1>1 DEF Enter, TypeInv, StrideInv
  <2>3. FamilyInv' /\ BarrierInv'
    BY <1>1 DEF Enter, TypeInv, FamilyInv, BarrierInv, BeforeMax, AfterMax
  <2>4. QED
    BY <2>1, <2>2, <2>3
<1>2. ASSUME NEW t \in Threads, idx' = Strided(t), launch' = launch,
             pc[t] \in {"loop", "cas_min"}, pc' = [pc EXCEPT ![t] = "loop"],
             pc[t] = "loop" \/ kernel \notin Reductions
      PROVE  RaceInv'
  <2>1. idx[t] \in Nat /\ idx[t] \in Visited(t)
    BY <1>2 DEF TypeInv, StrideInv
  <2>2. idx[t] + NumThreads \in Visited(t) /\ idx[t] + NumThreads \in Nat
    BY <2>1, <1>0, StrideVisited
  <2>3. TypeInv'
    BY <1>2, <2>2 DEF Strided, TypeInv, PCs
  <2>4. StrideInv'
    BY <1>2, <2>2 DEF Strided, TypeInv, StrideInv
  <2>5. FamilyInv' /\ BarrierInv'
    BY <1>2 DEF TypeInv, FamilyInv, BarrierInv, BeforeMax, AfterMax
  <2>6. QED
    BY <2>3, <2>4, <2>5
<1>3. ASSUME NEW t \in Threads, Accumulate(t) PROVE RaceInv'
  <2>1. pc' = [pc EXCEPT ![t] = "loop"]
    BY <1>3 DEF Accumulate, InLoop, TypeInv
  <2>2. QED
    BY <1>2, <1>3, <2>1 DEF Accumulate, InLoop
<1>4. ASSUME NEW t \in Threads, WriteElement(t) PROVE RaceInv'
  <2>1. pc' = [pc EXCEPT ![t] = "loop"]
    BY <1>4 DEF WriteElement, InLoop, TypeInv
  <2>2. QED
    BY <1>2, <1>4, <2>1 DEF WriteElement, InLoop
\* steps of a thread within an element, or out of its loop
<1>5. ASSUME NEW t \in Threads, NEW to \in PCs \ {"enter", "loop", "combine"},
             pc' = [pc EXCEPT ![t] = to], UNCHANGED <<launch, idx>>,
             to = "barrier" => kernel \in Reductions,
             to \in BeforeMax \union AfterMax => kernel = "atomics"
      PROVE  RaceInv'
  <2>1. TypeInv'
    BY <1>5 DEF TypeInv
  <2>2. StrideInv'
    BY <1>5 DEF TypeInv, StrideInv
  <2>3. FamilyInv' /\ BarrierInv'
    BY <1>5 DEF TypeInv, FamilyInv, BarrierInv
  <2>4. QED
    BY <2>1, <2>2, <2>3
<1>6. ASSUME NEW t \in Threads, Arrive(t) PROVE RaceInv'
  BY <1>5, <1>6 DEF Arrive, PCs, BeforeMax, AfterMax
<1>7. ASSUME NEW t \in Threads, SyncThreads(t) PROVE RaceInv'
  <2>1. CASE t = 0
    <3>1. TypeInv'
      BY <1>7, <2>1 DEF SyncThreads, TypeInv, PCs
    <3>2. kernel \in Reductions
      BY <1>7 DEF SyncThreads, BarrierOpen, FamilyInv
    <3>3. StrideInv'
      BY <1>7, <2>1, <3>2 DEF SyncThreads, BarrierOpen, TypeInv, StrideInv
    <3>4. FamilyInv' /\ BarrierInv'
      BY <1>7, <2>1, <3>2 DEF SyncThreads, BarrierOpen, TypeInv, FamilyInv, BarrierInv,
                              BeforeMax, AfterMax
    <3>5. QED
      BY <3>1, <3>3, <3>4
  <2>2. CASE t # 0
    BY <1>5, <1>7, <2>2 DEF SyncThreads, PCs, BeforeMax, AfterMax
  <2>3. QED
    BY <2>1, <2>2
<1>8. ASSUME NEW t \in Threads, Combine(t) PROVE RaceInv'
  <2>1. kernel \in Reductions
    BY <1>8 DEF Combine, FamilyInv
  <2>2. TypeInv'
    BY <1>8 DEF Combine, TypeInv
  <2>3. StrideInv'
    BY <1>8, <2>1 DEF Combine, TypeInv, StrideInv
  <2>4. FamilyInv' /\ BarrierInv'
    BY <1>8 DEF Combine, FamilyInv, BarrierInv
  <2>5. QED
    BY <2>2, <2>3, <2>4
<1>9. ASSUME NEW t \in Threads, AtomicAdd(t) \/ AtomicSub(t) \/ LoadOld(t) PROVE RaceInv'
  <2>1. PICK to \in {"sub", "max", "cas_max", "cas_min"} :
            pc' = [pc EXCEPT ![t] = to] /\ UNCHANGED <<launch, idx>>
    BY <1>9 DEF AtomicAdd, AtomicSub, LoadOld
  <2>2. kernel = "atomics"
    BY <1>9 DEF AtomicAdd, AtomicSub, LoadOld, FamilyInv, BeforeMax, AfterMax
  <2>3. QED
    BY <1>5, <2>1, <2>2 DEF PCs, BeforeMax, AfterMax
<1>10. ASSUME NEW t \in Threads, CasMax(t) PROVE RaceInv'
  <2>1. pc' = [pc EXCEPT ![t] = "min"] \/ pc' = [pc EXCEPT ![t] = "cas_max"]
    BY <1>10 DEF CasMax, TypeInv
  <2>2. kernel = "atomics"
    BY <1>10 DEF CasMax, FamilyInv, BeforeMax
  <2>3. QED
    BY <1>5, <1>10, <2>1, <2>2 DEF CasMax, PCs, BeforeMax, AfterMax
<1>11. ASSUME NEW t \in Threads, CasMin(t) PROVE RaceInv'
  <2>1. CASE UNCHANGED <<pc, idx>>
    BY <1>11, <2>1 DEF CasMin, TypeInv, FamilyInv, StrideInv, BarrierInv
  <2>2. CASE pc' = [pc EXCEPT ![t] = "loop"] /\ idx' = Strided(t)
    BY <1>2, <1>11, <2>2 DEF CasMin, FamilyInv, AfterMax, Reductions
  <2>3. QED
    BY <1>11, <2>1, <2>2 DEF CasMin
<1>12. ASSUME NEW t \in Threads, Return(t) PROVE RaceInv'
  BY <1>5, <1>12 DEF Return, PCs, BeforeMax, AfterMax
<1>13. CASE UNCHANGED vars
  BY <1>13 DEF vars, TypeInv, FamilyInv, StrideInv, BarrierInv
<1>14. QED
  BY <1>1, <1>3, <1>4, <1>6, <1>7, <1>8, <1>9, <1>10, <1>11, <1>12, <1>13
  DEF Next, Step, Synchronized

LEMMA RaceInvariant == Spec => []RaceInv
BY RaceInit, RaceStep, PTL DEF Spec

LEMMA InvIsRaceFree == RaceInv => RaceFree
<1> SUFFICES ASSUME RaceInv, NEW t \in Threads, NEW u \in Threads, t # u
             PROVE  Writes(t) \intersect (Writes(u) \union Reads(u)) = {}
  BY DEF RaceFree
<1> USE DEF RaceInv
\* two threads in a grid write different entries
<1>1. ASSUME InLoop(t), InLoop(u), kernel \in {"axpy", "matvec"} PROVE idx[t] # idx[u]
  <2>1. idx[t] \in Visited(t) /\ idx[u] \in Visited(u)
    BY <1>1 DEF InLoop, StrideInv
  <2>2. QED
    BY <2>1, VisitedOnce
\* thread 0 reads shares that nobody writes any more
<1>2. ASSUME NEW v \in Threads, NEW w \in Threads, v # w, pc[v] = "combine"
      PROVE  Writes(w) = {}
  BY <1>2 DEF BarrierInv, FamilyInv, Writes, InLoop
<1>3. CASE pc[t] = "combine" \/ pc[u] = "combine"
  <2>1. CASE pc[t] = "combine"
    BY <2>1, <1>2 DEF Writes, Reads, BarrierInv
  <2>2. CASE pc[u] = "combine"
    BY <2>2, <1>2
  <2>3. QED
    BY <1>3, <2>1, <2>2
<1>4. CASE pc[t] # "combine" /\ pc[u] # "combine"
  <2>1. Reads(u) = {}
    BY <1>4 DEF Reads
  <2>2. CASE kernel \in {"axpy", "matvec"}
    BY <1>1, <1>4, <2>1, <2>2 DEF Writes, Reductions
  <2>3. CASE kernel \notin {"axpy", "matvec"}
    <3>1. Writes(t) \subseteq {<<"scratch", t>>} /\ Writes(u) \subseteq {<<"scratch", u>>}
      BY <1>4, <2>3 DEF Writes
    <3>2. <<"scratch", t>> # <<"scratch", u>>
      OBVIOUS
    <3>3. QED
      BY <2>1, <3>1, <3>2
  <2>4. QED
    BY <2>2, <2>3
<1>5. QED
  BY <1>3, <1>4

\* No launch of any of the kernels has a data race: between threads of a grid
\* because strided loops share the elements out, in a reduction because nobody
\* passes sync_threads before everybody has left the loop.
THEOREM NoDataRace == Spec => []RaceFree
BY RaceInvariant, InvIsRaceFree, PTL

-----------------------------------------------------------------------------
(* Compare-and-swap.                                                        *)

\* elements that thread t has taken into the largest, into the smallest value
MaxTaken(t) ==
    {i \in Visited(t) : i < n /\ (i < idx[t] \/ (i = idx[t] /\ pc[t] \in AfterMax))}
MinTaken(t) == {i \in Visited(t) : i < n /\ i < idx[t]}

Candidates(c) == {launch.out[c]} \union {x[i] : i \in 0 .. n - 1}

AtomicTypeInv ==
    /\ result \in [Slots -> Int]
    /\ reg \in [Threads -> Int]
    /\ \A t \in Threads :
           /\ pc[t] \in BeforeMax \union AfterMax => idx[t] < n
           /\ pc[t] = "done" => idx[t] >= n

\* the value loaded is never better than the one in memory
MaxInv ==
    /\ result[2] \in Candidates(2)
    /\ result[2] >= launch.out[2]
    /\ \A t \in Threads : pc[t] = "cas_max" => result[2] >= reg[t]
    /\ \A t \in Threads : \A i \in MaxTaken(t) : result[2] >= x[i]

MinInv ==
    /\ result[3] \in Candidates(3)
    /\ result[3] <= launch.out[3]
    /\ \A t \in Threads : pc[t] = "cas_min" => result[3] <= reg[t]
    /\ \A t \in Threads : \A i \in MinTaken(t) : result[3] <= x[i]

AtomicInv == kernel = "atomics" => AtomicTypeInv /\ MaxInv /\ MinInv

LEMMA AtomicInit == Init => AtomicInv
<1> SUFFICES ASSUME Init, kernel = "atomics" PROVE AtomicTypeInv /\ MaxInv /\ MinInv
  BY DEF AtomicInv
<1>1. launch.out \in [Slots -> Int] /\ {0, 1, 2, 3} \subseteq Slots
  BY LaunchFacts DEF Init
<1>2. AtomicTypeInv
  BY <1>1 DEF Init, AtomicTypeInv, BeforeMax, AfterMax
\* nothing is taken yet: a thread is at its first element
<1>3. ASSUME NEW t \in Threads, NEW i \in Visited(t) PROVE ~(i < t)
  <2>1. PICK k \in Nat : i = t + k * NumThreads
    BY DEF Visited
  <2>2. t \in Nat /\ k * NumThreads \in Nat
    BY NumThreadsAssumption DEF Threads
  <2>3. QED
    BY <2>1, <2>2
<1>4. \A t \in Threads : MaxTaken(t) = {} /\ MinTaken(t) = {}
  BY <1>3 DEF Init, MaxTaken, MinTaken, AfterMax
<1>5. MaxInv
  BY <1>1, <1>4 DEF Init, MaxInv, Candidates
<1>6. MinInv
  BY <1>1, <1>4 DEF Init, MinInv, Candidates
<1>7. QED
  BY <1>2, <1>5, <1>6

\* a step keeps MaxInv when it makes the largest value no smaller and takes in
\* no element above it
LEMMA MaxKept ==
    ASSUME RaceInv, AtomicTypeInv, MaxInv, UNCHANGED launch,
           result' \in [Slots -> Int],
           result'[2] >= result[2], result'[2] \in Candidates(2),
           \A t \in Threads : pc'[t] = "cas_max" => result'[2] >= reg'[t],
           \A t \in Threads : \A i \in MaxTaken(t)' : i \in MaxTaken(t) \/ result'[2] >= x[i]
    PROVE  MaxInv'
<1>1. Candidates(2)' = Candidates(2) /\ x' = x /\ launch'.out = launch.out
  BY DEF Candidates, x, n
<1>2. /\ x \in [0 .. n - 1 -> Int] /\ launch.out[2] \in Int
      /\ result[2] \in Int /\ result'[2] \in Int
  BY LaunchFacts DEF RaceInv, TypeInv, AtomicTypeInv
<1>3. result'[2] >= launch.out[2]
  BY <1>2 DEF MaxInv
<1>4. ASSUME NEW t \in Threads, NEW i \in MaxTaken(t)' PROVE result'[2] >= x[i]
  <2>1. x[i] \in Int
    <3>1. n' = n /\ n \in Int
      BY LaunchFacts DEF n, RaceInv, TypeInv
    <3>2. i \in Nat /\ i < n
      BY <3>1 DEF MaxTaken, Visited
    <3>3. QED
      BY <1>2, <3>1, <3>2
  <2>2. i \in MaxTaken(t) => result[2] >= x[i]
    BY DEF MaxInv
  <2>3. QED
    BY <1>2, <2>1, <2>2
<1>5. QED
  BY <1>1, <1>3, <1>4 DEF MaxInv

LEMMA MinKept ==
    ASSUME RaceInv, AtomicTypeInv, MinInv, UNCHANGED launch,
           result' \in [Slots -> Int],
           result'[3] <= result[3], result'[3] \in Candidates(3),
           \A t \in Threads : pc'[t] = "cas_min" => result'[3] <= reg'[t],
           \A t \in Threads : \A i \in MinTaken(t)' : i \in MinTaken(t) \/ result'[3] <= x[i]
    PROVE  MinInv'
<1>1. Candidates(3)' = Candidates(3) /\ x' = x /\ launch'.out = launch.out
  BY DEF Candidates, x, n
<1>2. /\ x \in [0 .. n - 1 -> Int] /\ launch.out[3] \in Int
      /\ result[3] \in Int /\ result'[3] \in Int
  BY LaunchFacts DEF RaceInv, TypeInv, AtomicTypeInv
<1>3. result'[3] <= launch.out[3]
  BY <1>2 DEF MinInv
<1>4. ASSUME NEW t \in Threads, NEW i \in MinTaken(t)' PROVE result'[3] <= x[i]
  <2>1. x[i] \in Int
    <3>1. n' = n /\ n \in Int
      BY LaunchFacts DEF n, RaceInv, TypeInv
    <3>2. i \in Nat /\ i < n
      BY <3>1 DEF MinTaken, Visited
    <3>3. QED
      BY <1>2, <3>1, <3>2
  <2>2. i \in MinTaken(t) => result[3] <= x[i]
    BY DEF MinInv
  <2>3. QED
    BY <1>2, <2>1, <2>2
<1>5. QED
  BY <1>1, <1>3, <1>4 DEF MinInv

\* steps of a thread that neither finish an element nor touch the extrema
LEMMA PlainStep ==
    ASSUME RaceInv, AtomicTypeInv, MaxInv, MinInv, UNCHANGED <<launch, idx>>,
           NEW t \in Threads, NEW to \in PCs, pc' = [pc EXCEPT ![t] = to],
           to = "done" => idx[t] >= n,
           to \in BeforeMax \union AfterMax => idx[t] < n,
           to \in AfterMax <=> pc[t] \in AfterMax,
           result' \in [Slots -> Int], result'[2] = result[2], result'[3] = result[3],
           \/ UNCHANGED reg /\ to \notin {"cas_max", "cas_min"}
           \/ to = "cas_max" /\ reg' = [reg EXCEPT ![t] = result[2]]
           \/ to = "cas_min" /\ reg' = [reg EXCEPT ![t] = result[3]]
    PROVE  AtomicTypeInv' /\ MaxInv' /\ MinInv'
<1>1. n' = n /\ result[2] \in Int /\ result[3] \in Int
  BY LaunchFacts DEF n, RaceInv, TypeInv, AtomicTypeInv
<1>2. AtomicTypeInv'
  BY <1>1 DEF AtomicTypeInv, RaceInv, TypeInv
<1>3. \A u \in Threads : MaxTaken(u)' = MaxTaken(u) /\ MinTaken(u)' = MinTaken(u)
  BY <1>1 DEF MaxTaken, MinTaken, RaceInv, TypeInv
<1>4. \A u \in Threads : /\ pc'[u] = "cas_max" => result'[2] >= reg'[u]
                         /\ pc'[u] = "cas_min" => result'[3] <= reg'[u]
  BY <1>1 DEF MaxInv, MinInv, AtomicTypeInv, RaceInv, TypeInv
<1>5. MaxInv'
  BY <1>1, <1>3, <1>4, MaxKept DEF MaxInv
<1>6. MinInv'
  BY <1>1, <1>3, <1>4, MinKept DEF MinInv
<1>7. QED
  BY <1>2, <1>5, <1>6

LEMMA CasMaxStep ==
    ASSUME RaceInv, AtomicTypeInv, MaxInv, MinInv, kernel = "atomics",
           NEW t \in Threads, CasMax(t)
    PROVE  AtomicTypeInv' /\ MaxInv' /\ MinInv'
<1> DEFINE v == x[idx[t]]
<1>1. /\ pc[t] = "cas_max" /\ idx[t] < n /\ idx[t] \in 0 .. n - 1
      /\ UNCHANGED <<launch, idx>> /\ n' = n
  BY LaunchFacts DEF CasMax, AtomicTypeInv, BeforeMax, RaceInv, TypeInv, n
<1>2. /\ v \in Int /\ result[2] \in Int /\ result[3] \in Int /\ reg[t] \in Int
      /\ 2 \in Slots /\ 3 \in Slots
  BY <1>1, LaunchFacts DEF AtomicTypeInv, RaceInv, TypeInv
<1>3. v \in Candidates(2)
  BY <1>1 DEF Candidates
<1>4. MinTaken(t)' = MinTaken(t)
  BY <1>1 DEF MinTaken
<1>5. \A u \in Threads : u # t => MaxTaken(u)' = MaxTaken(u) /\ MinTaken(u)' = MinTaken(u)
  BY <1>1 DEF CasMax, MaxTaken, MinTaken, RaceInv, TypeInv
<1>6. \A i \in MaxTaken(t)' : i \in MaxTaken(t) \/ i = idx[t]
  BY <1>1 DEF MaxTaken, RaceInv, TypeInv, Visited
\* the round is the last: the value in memory is at least v
<1>7. CASE RoundsEnd(result[2], reg[t], reg[t] >= v)
  <2>1. pc' = [pc EXCEPT ![t] = "min"]
    BY <1>7 DEF CasMax
  <2>2. /\ result' \in [Slots -> Int] /\ result'[3] = result[3]
        /\ result'[2] \in {result[2], v} /\ result'[2] >= v /\ result'[2] >= result[2]
    <3>1. CASE reg[t] >= v
      <4>1. result' = result
        BY <3>1 DEF CasMax
      <4>2. result[2] >= reg[t]
        BY <1>1 DEF MaxInv
      <4>3. QED
        BY <1>2, <3>1, <4>1, <4>2 DEF AtomicTypeInv
    <3>2. CASE ~(reg[t] >= v)
      <4>1. result[2] = reg[t]
        BY <1>7, <3>2 DEF RoundsEnd
      <4>2. result' = [result EXCEPT ![2] = v]
        BY <3>2, <4>1 DEF CasMax, Swapped
      <4>3. QED
        BY <1>2, <3>2, <4>1, <4>2 DEF AtomicTypeInv
    <3>3. QED
      BY <3>1, <3>2
  <2>3. reg' \in [Threads -> Int] /\ \A u \in Threads : u # t => reg'[u] = reg[u]
    BY <1>2 DEF CasMax, Refreshed, AtomicTypeInv
  <2>4. AtomicTypeInv'
    BY <1>1, <2>1, <2>2, <2>3 DEF AtomicTypeInv, RaceInv, TypeInv
  <2>5. \A u \in Threads : /\ pc'[u] = "cas_max" => result'[2] >= reg'[u]
                           /\ pc'[u] = "cas_min" => result'[3] <= reg'[u]
    <3> SUFFICES ASSUME NEW u \in Threads, u # t
                 PROVE  /\ pc'[u] = "cas_max" => result'[2] >= reg'[u]
                        /\ pc'[u] = "cas_min" => result'[3] <= reg'[u]
      BY <2>1 DEF RaceInv, TypeInv
    <3>1. pc'[u] = pc[u] /\ reg'[u] = reg[u] /\ reg[u] \in Int /\ result'[2] \in Int
      BY <1>2, <2>1, <2>2, <2>3 DEF RaceInv, TypeInv, AtomicTypeInv
    <3>2. QED
      BY <1>2, <2>2, <3>1 DEF MaxInv, MinInv
  <2>6. MaxInv'
    BY <1>1, <1>3, <1>5, <1>6, <2>2, <2>5, MaxKept DEF MaxInv
  <2>7. MinInv'
    BY <1>1, <1>2, <1>4, <1>5, <2>2, <2>5, MinKept DEF MinInv
  <2>8. QED
    BY <2>4, <2>6, <2>7
\* the swap failed: old is what is in memory now
<1>8. CASE ~RoundsEnd(result[2], reg[t], reg[t] >= v)
  <2>1. pc' = pc /\ ~(reg[t] >= v) /\ result[2] # reg[t]
    BY <1>8 DEF CasMax, RoundsEnd
  <2>2. result' = result
    BY <1>2, <2>1 DEF CasMax, Swapped, AtomicTypeInv
  <2>3. reg' = [reg EXCEPT ![t] = result[2]]
    BY <2>1 DEF CasMax, Refreshed
  <2>4. pc' = [pc EXCEPT ![t] = "cas_max"]
    BY <1>1, <2>1 DEF RaceInv, TypeInv
  <2>5. QED
    BY <1>1, <2>2, <2>3, <2>4, PlainStep DEF AtomicTypeInv, PCs, BeforeMax, AfterMax
<1>9. QED
  BY <1>7, <1>8

LEMMA CasMinStep ==
    ASSUME RaceInv, AtomicTypeInv, MaxInv, MinInv, kernel = "atomics",
           NEW t \in Threads, CasMin(t)
    PROVE  AtomicTypeInv' /\ MaxInv' /\ MinInv'
<1> DEFINE v == x[idx[t]]
<1>1. /\ pc[t] = "cas_min" /\ idx[t] < n /\ idx[t] \in 0 .. n - 1
      /\ UNCHANGED launch /\ n' = n
  BY LaunchFacts DEF CasMin, AtomicTypeInv, AfterMax, RaceInv, TypeInv, n
<1>2. /\ v \in Int /\ result[2] \in Int /\ result[3] \in Int /\ reg[t] \in Int
      /\ 2 \in Slots /\ 3 \in Slots
  BY <1>1, LaunchFacts DEF AtomicTypeInv, RaceInv, TypeInv
<1>3. v \in Candidates(3)
  BY <1>1 DEF Candidates
<1>4. idx[t] \in Visited(t) /\ NumThreads \in Nat
  BY NumThreadsAssumption DEF RaceInv, StrideInv, Reductions
\* the round is the last: the value in memory is at most v
<1>5. CASE RoundsEnd(result[3], reg[t], reg[t] <= v)
  <2>1. pc' = [pc EXCEPT ![t] = "loop"] /\ idx' = Strided(t)
    BY <1>5 DEF CasMin
  <2>2. /\ result' \in [Slots -> Int] /\ result'[2] = result[2]
        /\ result'[3] \in {result[3], v} /\ result'[3] <= v /\ result'[3] <= result[3]
    <3>1. CASE reg[t] <= v
      <4>1. result' = result
        BY <3>1 DEF CasMin
      <4>2. result[3] <= reg[t]
        BY <1>1 DEF MinInv
      <4>3. QED
        BY <1>2, <3>1, <4>1, <4>2 DEF AtomicTypeInv
    <3>2. CASE ~(reg[t] <= v)
      <4>1. result[3] = reg[t]
        BY <1>5, <3>2 DEF RoundsEnd
      <4>2. result' = [result EXCEPT ![3] = v]
        BY <3>2, <4>1 DEF CasMin, Swapped
      <4>3. QED
        BY <1>2, <3>2, <4>1, <4>2 DEF AtomicTypeInv
    <3>3. QED
      BY <3>1, <3>2
  <2>3. reg' \in [Threads -> Int] /\ \A u \in Threads : u # t => reg'[u] = reg[u]
    BY <1>2 DEF CasMin, Refreshed, AtomicTypeInv
  <2>4. AtomicTypeInv'
    BY <1>1, <2>1, <2>2, <2>3 DEF AtomicTypeInv, RaceInv, TypeInv, Strided, BeforeMax, AfterMax
  <2>5. \A u \in Threads : /\ pc'[u] = "cas_max" => result'[2] >= reg'[u]
                           /\ pc'[u] = "cas_min" => result'[3] <= reg'[u]
    <3> SUFFICES ASSUME NEW u \in Threads, u # t
                 PROVE  /\ pc'[u] = "cas_max" => result'[2] >= reg'[u]
                        /\ pc'[u] = "cas_min" => result'[3] <= reg'[u]
      BY <2>1 DEF RaceInv, TypeInv
    <3>1. pc'[u] = pc[u] /\ reg'[u] = reg[u] /\ reg[u] \in Int /\ result'[3] \in Int
      BY <1>2, <2>1, <2>2, <2>3 DEF RaceInv, TypeInv, AtomicTypeInv
    <3>2. QED
      BY <1>2, <2>2, <3>1 DEF MaxInv, MinInv
  \* the element is done with, and no other one
  <2>6. ASSUME NEW i \in Visited(t), i < idx'[t] PROVE i <= idx[t]
    <3>1. i < idx[t] + NumThreads
      BY <2>1, <2>6 DEF Strided, RaceInv, TypeInv
    <3>2. QED
      BY <1>4, <3>1, NextVisited
  <2>7. \A i \in MaxTaken(t)' : i \in MaxTaken(t)
    <3> SUFFICES ASSUME NEW i \in MaxTaken(t)' PROVE i \in MaxTaken(t)
      OBVIOUS
    <3>1. i \in Visited(t) /\ i < n /\ i < idx'[t] /\ i \in Nat /\ idx[t] \in Nat
      BY <1>1, <2>1 DEF MaxTaken, AfterMax, RaceInv, TypeInv, Visited
    <3>2. i < idx[t] \/ i = idx[t]
      BY <2>6, <3>1
    <3>3. QED
      BY <1>1, <3>1, <3>2 DEF MaxTaken, AfterMax
  <2>8. \A i \in MinTaken(t)' : i \in MinTaken(t) \/ i = idx[t]
    <3> SUFFICES ASSUME NEW i \in MinTaken(t)' PROVE i \in MinTaken(t) \/ i = idx[t]
      OBVIOUS
    <3>1. i \in Visited(t) /\ i < n /\ i < idx'[t] /\ i \in Nat /\ idx[t] \in Nat
      BY <1>1, <2>1 DEF MinTaken, RaceInv, TypeInv, Visited
    <3>2. i < idx[t] \/ i = idx[t]
      BY <2>6, <3>1
    <3>3. QED
      BY <3>1, <3>2 DEF MinTaken
  <2>9. \A u \in Threads : u # t => MaxTaken(u)' = MaxTaken(u) /\ MinTaken(u)' = MinTaken(u)
    BY <1>1, <2>1 DEF MaxTaken, MinTaken, Strided, RaceInv, TypeInv
  <2>10. MaxInv'
    BY <1>1, <1>2, <2>2, <2>5, <2>7, <2>9, MaxKept DEF MaxInv
  <2>11. MinInv'
    BY <1>1, <1>3, <2>2, <2>5, <2>8, <2>9, MinKept DEF MinInv
  <2>12. QED
    BY <2>4, <2>10, <2>11
<1>6. CASE ~RoundsEnd(result[3], reg[t], reg[t] <= v)
  <2>1. UNCHANGED <<pc, idx>> /\ ~(reg[t] <= v) /\ result[3] # reg[t]
    BY <1>6 DEF CasMin, RoundsEnd
  <2>2. result' = result
    BY <1>2, <2>1 DEF CasMin, Swapped, AtomicTypeInv
  <2>3. reg' = [reg EXCEPT ![t] = result[3]]
    BY <2>1 DEF CasMin, Refreshed
  <2>4. pc' = [pc EXCEPT ![t] = "cas_min"]
    BY <1>1, <2>1 DEF RaceInv, TypeInv
  <2>5. QED
    BY <1>1, <2>1, <2>2, <2>3, <2>4, PlainStep DEF AtomicTypeInv, PCs, BeforeMax, AfterMax
<1>7. QED
  BY <1>5, <1>6

LEMMA AtomicStep == RaceInv /\ AtomicInv /\ [Next]_vars => AtomicInv'
<1> SUFFICES ASSUME RaceInv, AtomicInv, [Next]_vars, kernel' = "atomics"
             PROVE  AtomicTypeInv' /\ MaxInv' /\ MinInv'
  BY DEF AtomicInv
<1>1. UNCHANGED launch
  BY DEF Next, Step, Synchronized, vars, Enter, Accumulate, Arrive, SyncThreads, Combine,
         WriteElement, AtomicAdd, AtomicSub, LoadOld, CasMax, CasMin, Return
<1>2. kernel = "atomics" /\ AtomicTypeInv /\ MaxInv /\ MinInv
  BY <1>1 DEF kernel, AtomicInv
<1>3. {0, 1, 2, 3} \subseteq Slots /\ n \in Nat /\ x \in [0 .. n - 1 -> Int]
  BY LaunchFacts DEF RaceInv, TypeInv
<1>4. ASSUME NEW t \in Threads, Enter(t) PROVE AtomicTypeInv' /\ MaxInv' /\ MinInv'
  BY <1>2, <1>4, PlainStep DEF Enter, AtomicTypeInv, PCs, BeforeMax, AfterMax
<1>5. ASSUME NEW t \in Threads, AtomicAdd(t) PROVE AtomicTypeInv' /\ MaxInv' /\ MinInv'
  <2>1. x[idx[t]] \in Int
    BY <1>3, <1>5 DEF AtomicAdd, InLoop, RaceInv, TypeInv
  <2>2. result' \in [Slots -> Int] /\ result'[2] = result[2] /\ result'[3] = result[3]
    BY <1>2, <1>3, <1>5, <2>1 DEF AtomicAdd, AtomicTypeInv
  <2>3. QED
    BY <1>2, <1>5, <2>2, PlainStep DEF AtomicAdd, InLoop, PCs, BeforeMax, AfterMax
<1>6. ASSUME NEW t \in Threads, AtomicSub(t) PROVE AtomicTypeInv' /\ MaxInv' /\ MinInv'
  <2>1. idx[t] < n /\ x[idx[t]] \in Int
    BY <1>2, <1>3, <1>6 DEF AtomicSub, AtomicTypeInv, BeforeMax, RaceInv, TypeInv
  <2>2. result' \in [Slots -> Int] /\ result'[2] = result[2] /\ result'[3] = result[3]
    BY <1>2, <1>3, <1>6, <2>1 DEF AtomicSub, AtomicTypeInv
  <2>3. QED
    BY <1>2, <1>6, <2>1, <2>2, PlainStep DEF AtomicSub, PCs, BeforeMax, AfterMax
<1>7. ASSUME NEW t \in Threads, LoadOld(t) PROVE AtomicTypeInv' /\ MaxInv' /\ MinInv'
  <2>1. idx[t] < n
    BY <1>2, <1>7 DEF LoadOld, AtomicTypeInv, BeforeMax, AfterMax
  <2>2. CASE pc[t] = "max"
    BY <1>2, <1>7, <2>1, <2>2, PlainStep DEF LoadOld, AtomicTypeInv, PCs, BeforeMax, AfterMax
  <2>3. CASE pc[t] = "min"
    BY <1>2, <1>7, <2>1, <2>3, PlainStep DEF LoadOld, AtomicTypeInv, PCs, BeforeMax, AfterMax
  <2>4. QED
    BY <1>7, <2>2, <2>3 DEF LoadOld
<1>8. ASSUME NEW t \in Threads, Return(t) PROVE AtomicTypeInv' /\ MaxInv' /\ MinInv'
  <2>1. pc[t] = "loop" /\ idx[t] >= n
    BY <1>2, <1>8 DEF Return, RaceInv, FamilyInv, Reductions
  <2>2. QED
    BY <1>2, <1>8, <2>1, PlainStep DEF Return, AtomicTypeInv, PCs, BeforeMax, AfterMax
<1>9. CASE UNCHANGED vars
  BY <1>2, <1>9 DEF vars, AtomicTypeInv, MaxInv, MinInv, MaxTaken, MinTaken, Candidates, n, x
<1>10. ASSUME NEW t \in Threads
       PROVE  ~Accumulate(t) /\ ~Arrive(t) /\ ~SyncThreads(t) /\ ~Combine(t) /\ ~WriteElement(t)
  BY <1>2 DEF Accumulate, Arrive, SyncThreads, BarrierOpen, Combine, WriteElement,
              RaceInv, FamilyInv, Reductions
<1>11. QED
  BY <1>2, <1>4, <1>5, <1>6, <1>7, <1>8, <1>9, <1>10, CasMaxStep, CasMinStep
  DEF Next, Step, Synchronized

LEMMA AtomicInvariant == Spec => [](RaceInv /\ AtomicInv)
<1>1. Init => RaceInv /\ AtomicInv
  BY RaceInit, AtomicInit
<1>2. (RaceInv /\ AtomicInv) /\ [Next]_vars => (RaceInv /\ AtomicInv)'
  BY RaceStep, AtomicStep
<1>3. QED
  BY <1>1, <1>2, PTL DEF Spec

\* once all threads are done every element was visited, hence taken in
LEMMA InvIsExact == RaceInv /\ AtomicInv => ExtremaAreExact
<1> SUFFICES ASSUME RaceInv, AtomicInv, AllDone, kernel = "atomics"
             PROVE  /\ result[2] \in Candidates(2) /\ \A v \in Candidates(2) : result[2] >= v
                    /\ result[3] \in Candidates(3) /\ \A v \in Candidates(3) : result[3] <= v
  BY DEF ExtremaAreExact, Candidates
<1>1. AtomicTypeInv /\ MaxInv /\ MinInv
  BY DEF AtomicInv
<1>2. ASSUME NEW i \in 0 .. n - 1 PROVE result[2] >= x[i] /\ result[3] <= x[i]
  <2>1. n \in Nat /\ i \in Nat /\ i < n
    BY LaunchFacts DEF RaceInv, TypeInv
  <2>2. PICK t \in Threads : i \in Visited(t)
    BY <2>1, VisitedByAll
  <2>3. idx[t] \in Nat /\ idx[t] >= n
    BY <1>1 DEF AllDone, AtomicTypeInv, RaceInv, TypeInv
  <2>4. i \in MaxTaken(t) /\ i \in MinTaken(t)
    BY <2>1, <2>2, <2>3 DEF MaxTaken, MinTaken
  <2>5. QED
    BY <1>1, <2>4 DEF MaxInv, MinInv
<1>3. QED
  BY <1>1, <1>2 DEF MaxInv, MinInv, Candidates

\* Whatever the number of threads and elements and however the threads are
\* scheduled, atomic_max and atomic_min lose no update: at the end the memory
\* holds the extremum of its first value and of all the elements.
THEOREM ExtremaAlwaysExact == Spec => []ExtremaAreExact
BY AtomicInvariant, InvIsExact, PTL

-----------------------------------------------------------------------------
(* Sums over finite sets.                                                   *)

Total(f, S) == MapThenSumSet(LAMBDA i : f[i], S)

\* the recursion of MapThenFoldSet: g[s] is the sum over the subset s
Chosen(s) == CHOOSE a \in s : TRUE
Recursion(g, f, S) ==
    g = [s \in SUBSET S |-> IF s = {} THEN 0 ELSE f[Chosen(s)] + g[s \ {Chosen(s)}]]

\* what holds of a set if it holds of it without any one of its elements, and of the
\* empty set, holds of every subset of a finite set
LEMMA SetInduction ==
    ASSUME NEW S, IsFiniteSet(S), NEW T, {} \in T,
           \A s \in SUBSET S : s # {} /\ (\A a \in s : s \ {a} \in T) => s \in T
    PROVE  SUBSET S \subseteq T
<1> DEFINE Bad == (SUBSET S) \ T
           R == StrictSubsetOrdering(S)
<1>1. SUFFICES ASSUME Bad # {} PROVE FALSE
  OBVIOUS
<1>2. Bad \subseteq FiniteSubsetsOf(S)
  BY FS_Subset DEF FiniteSubsetsOf
<1>3. IsWellFoundedOn(R, FiniteSubsetsOf(S))
  BY FS_StrictSubsetOrderingWellFounded
<1>4. PICK s \in Bad : \A u \in Bad : ~(<<u, s>> \in R)
  <2> HIDE DEF Bad, R
  <2>1. QED
    BY <1>1, <1>2, <1>3, WFMin
<1>5. ASSUME NEW a \in s
      PROVE  s \ {a} \in T
  <2>1. <<s \ {a}, s>> \in R
    BY <1>4 DEF StrictSubsetOrdering
  <2>2. QED
    BY <1>4, <2>1
<1>6. QED
  BY <1>4, <1>5

LEMMA ChosenIn ==
    ASSUME NEW s, s # {}
    PROVE  Chosen(s) \in s
BY DEF Chosen

\* the recursion has a solution over a finite set
LEMMA RecursionExists ==
    ASSUME NEW S, IsFiniteSet(S), NEW f
    PROVE  \E g : Recursion(g, f, S)
<1> DEFINE Up(k) == {s \in SUBSET S : Cardinality(s) <= k}
           Body(g, s) == IF s = {} THEN 0 ELSE f[Chosen(s)] + g[s \ {Chosen(s)}]
           Solves(g, k) == g = [s \in Up(k) |-> Body(g, s)]
           T == {k \in Nat : ~\E g : Solves(g, k)}
<1>1. \A s \in SUBSET S : IsFiniteSet(s) /\ Cardinality(s) \in Nat
  BY FS_Subset, FS_CardinalityType
<1>2. \E g : Solves(g, 0)
  <2> DEFINE h == [s \in Up(0) |-> 0]
  <2>1. \A s \in Up(0) : s = {}
    BY <1>1, FS_EmptySet
  <2>2. \A s \in Up(0) : Body(h, s) = 0
    BY <2>1
  <2>3. h = [s \in Up(0) |-> Body(h, s)]
    BY <2>2
  <2>4. QED
    BY <2>3
<1>3. ASSUME NEW k \in Nat, NEW g, Solves(g, k)
      PROVE  \E h : Solves(h, k + 1)
  <2> DEFINE h == [s \in Up(k + 1) |-> Body(g, s)]
  <2>1. ASSUME NEW s \in Up(k)
        PROVE  s \in Up(k + 1) /\ h[s] = g[s]
    <3>1. s \in Up(k + 1)
      BY <1>1
    <3>2. g[s] = Body(g, s)
      BY <1>3
    <3>3. QED
      BY <3>1, <3>2
  <2>2. ASSUME NEW s \in Up(k + 1)
        PROVE  Body(g, s) = Body(h, s)
    <3>1. CASE s = {}
      BY <3>1
    <3>2. CASE s # {}
      <4>1. Chosen(s) \in s
        BY <3>2, ChosenIn
      <4>2. Cardinality(s \ {Chosen(s)}) <= k
        BY <1>1, <4>1, FS_RemoveElement
      <4>3. h[s \ {Chosen(s)}] = g[s \ {Chosen(s)}]
        BY <2>1, <4>2
      <4>4. QED
        BY <4>3
    <3>3. QED
      BY <3>1, <3>2
  <2>3. h = [s \in Up(k + 1) |-> Body(h, s)]
    BY <2>2
  <2>4. QED
    BY <2>3
<1> HIDE DEF Solves
<1>4. T = {}
  <2>1. SUFFICES ASSUME T # {} PROVE FALSE
    OBVIOUS
  <2>2. PICK k \in T : \A j \in T : ~(<<j, k>> \in OpToRel(<, Nat))
    BY <2>1, WFMin, NatLessThanWellFounded
  <2>3. k \in Nat /\ ~\E g : Solves(g, k)
    BY <2>2
  <2>4. CASE k = 0
    BY <1>2, <2>3, <2>4
  <2>5. CASE k # 0
    <3>1. k - 1 \in Nat /\ (k - 1) + 1 = k
      BY <2>3, <2>5
    <3>2. k - 1 \notin T
      <4>1. <<k - 1, k>> \in OpToRel(<, Nat)
        BY <2>3, <3>1 DEF OpToRel
      <4>2. QED
        BY <2>2, <4>1
    <3>3. PICK g : Solves(g, k - 1)
      BY <3>1, <3>2
    <3>4. \E h : Solves(h, (k - 1) + 1)
      BY <1>3, <3>1, <3>3
    <3>5. QED
      BY <2>3, <3>1, <3>4
  <2>6. QED
    BY <2>4, <2>5
<1>5. Cardinality(S) \in Nat /\ Up(Cardinality(S)) = SUBSET S
  BY <1>1, FS_Subset
<1>6. PICK g : Solves(g, Cardinality(S))
  BY <1>4, <1>5
<1>7. Recursion(g, f, S)
  BY <1>5, <1>6 DEF Recursion, Solves
<1>8. QED
  BY <1>7

\* its values are integers, and any element may be taken out first
LEMMA RecursionAdds ==
    ASSUME NEW S, IsFiniteSet(S), NEW f, \A a \in S : f[a] \in Int,
           NEW g, Recursion(g, f, S)
    PROVE  \A s \in SUBSET S : /\ g[s] \in Int
                               /\ s = {} => g[s] = 0
                               /\ \A a \in s : g[s] = f[a] + g[s \ {a}]
<1>1. g[{}] = 0
  BY DEF Recursion
<1>2. ASSUME NEW s \in SUBSET S, s # {}
      PROVE  Chosen(s) \in s /\ g[s] = f[Chosen(s)] + g[s \ {Chosen(s)}]
  BY <1>2, ChosenIn DEF Recursion
<1> DEFINE T == {s \in SUBSET S : g[s] \in Int}
<1>3. SUBSET S \subseteq T
  <2>1. ASSUME NEW s \in SUBSET S, s # {}, \A a \in s : s \ {a} \in T
        PROVE  s \in T
    <3>1. PICK c \in s : c = Chosen(s)
      BY <1>2, <2>1
    <3>2. PICK v : v = g[s \ {c}]
      OBVIOUS
    <3>3. v \in Int /\ f[c] \in Int /\ g[s] = f[c] + v
      BY <1>2, <2>1, <3>1, <3>2
    <3>4. g[s] \in Int
      BY <3>3
    <3>5. QED
      BY <3>4
  <2>2. {} \in T
    BY <1>1, SMT
  <2> HIDE DEF T
  <2>3. QED
    BY <2>1, <2>2, SetInduction
<1> DEFINE U == {s \in SUBSET S : \A a \in s : g[s] = f[a] + g[s \ {a}]}
<1>4. SUBSET S \subseteq U
  <2>1. ASSUME NEW s \in SUBSET S, s # {}, \A a \in s : s \ {a} \in U
        PROVE  s \in U
    <3>1. PICK c \in s : c = Chosen(s)
      BY <1>2, <2>1
    <3>2. g[s] = f[c] + g[s \ {c}]
      BY <1>2, <2>1, <3>1
    <3>3. ASSUME NEW a \in s, a # c
          PROVE  g[s] = f[a] + g[s \ {a}]
      <4>1. PICK v : v = g[(s \ {c}) \ {a}]
        OBVIOUS
      <4>2. v \in Int /\ f[a] \in Int /\ f[c] \in Int
        BY <1>3, <4>1
      <4>3. g[s \ {c}] = f[a] + v
        BY <2>1, <3>3, <4>1
      <4>4. g[s \ {a}] = f[c] + v
        <5>1. (s \ {c}) \ {a} = (s \ {a}) \ {c}
          OBVIOUS
        <5>2. g[s \ {a}] = f[c] + g[(s \ {a}) \ {c}]
          BY <2>1, <3>3
        <5>3. QED
          BY <4>1, <5>1, <5>2
      <4>5. g[s] = f[c] + (f[a] + v)
        BY <3>2, <4>3
      <4>6. QED
        BY <4>2, <4>4, <4>5
    <3>4. QED
      BY <3>2, <3>3
  <2>2. {} \in U
    OBVIOUS
  <2> HIDE DEF U
  <2>3. QED
    BY <2>1, <2>2, SetInduction
<1>5. QED
  BY <1>1, <1>3, <1>4

\* two recursions agree where what they add up does
LEMMA RecursionUnique ==
    ASSUME NEW S, IsFiniteSet(S), NEW U, IsFiniteSet(U), NEW V, V \subseteq S, V \subseteq U,
           NEW f, NEW g, NEW e, NEW h, \A a \in V : f[a] = e[a],
           Recursion(g, f, S), Recursion(h, e, U)
    PROVE  g[V] = h[V]
<1>1. \A s \in SUBSET V : /\ s = {} => g[s] = 0 /\ h[s] = 0
                          /\ s # {} => /\ g[s] = f[Chosen(s)] + g[s \ {Chosen(s)}]
                                       /\ h[s] = e[Chosen(s)] + h[s \ {Chosen(s)}]
  BY DEF Recursion
<1> DEFINE T == {s \in SUBSET V : g[s] = h[s]}
<1>2. ASSUME NEW s \in SUBSET V, s # {}, \A a \in s : s \ {a} \in T
      PROVE  s \in T
  <2>1. Chosen(s) \in s
    BY <1>2, ChosenIn
  <2>2. QED
    BY <1>1, <1>2, <2>1
<1>3. {} \in T /\ IsFiniteSet(V)
  BY <1>1, FS_Subset
<1>4. SUBSET V \subseteq T
  <2> HIDE DEF T
  <2>1. QED
    BY <1>2, <1>3, SetInduction
<1>5. QED
  BY <1>4

LEMMA TotalIs ==
    ASSUME NEW S, IsFiniteSet(S), NEW f, NEW g, Recursion(g, f, S)
    PROVE  Total(f, S) = g[S]
<1>1. Total(f, S) = (CHOOSE h : Recursion(h, f, S))[S]
  BY DEF Total, MapThenSumSet, MapThenFoldSet, Recursion, Chosen
<1>2. PICK h : h = (CHOOSE k : Recursion(k, f, S))
  OBVIOUS
<1>3. Recursion(h, f, S)
  BY <1>2
<1>4. h[S] = g[S]
  BY <1>3, RecursionUnique
<1>5. QED
  BY <1>1, <1>2, <1>4

\* what a sum is
LEMMA TotalEmpty ==
    ASSUME NEW f
    PROVE  Total(f, {}) = 0
<1>1. IsFiniteSet({})
  BY FS_EmptySet
<1>2. PICK g : Recursion(g, f, {})
  BY <1>1, RecursionExists
<1>3. g[{}] = 0
  BY <1>2 DEF Recursion
<1>4. QED
  BY <1>1, <1>2, <1>3, TotalIs

LEMMA TotalInt ==
    ASSUME NEW S, IsFiniteSet(S), NEW f, \A a \in S : f[a] \in Int
    PROVE  Total(f, S) \in Int
<1>1. PICK g : Recursion(g, f, S)
  BY RecursionExists
<1>2. QED
  BY <1>1, RecursionAdds, TotalIs

LEMMA TotalSame ==
    ASSUME NEW S, IsFiniteSet(S), NEW f, NEW e, \A a \in S : f[a] = e[a]
    PROVE  Total(f, S) = Total(e, S)
<1>1. PICK g : Recursion(g, f, S)
  BY RecursionExists
<1>2. PICK h : Recursion(h, e, S)
  BY RecursionExists
<1>3. QED
  BY <1>1, <1>2, RecursionUnique, TotalIs

LEMMA TotalAdds ==
    ASSUME NEW S, IsFiniteSet(S), NEW a, a \notin S, NEW f,
           \A b \in S \union {a} : f[b] \in Int
    PROVE  Total(f, S \union {a}) = f[a] + Total(f, S)
<1>1. PICK U : U = S \union {a}
  OBVIOUS
<1>2. IsFiniteSet(U) /\ U \ {a} = S /\ a \in U /\ \A b \in U : f[b] \in Int
  BY <1>1, FS_AddElement
<1>3. PICK g : Recursion(g, f, U)
  BY <1>2, RecursionExists
<1>4. PICK h : Recursion(h, f, S)
  BY RecursionExists
<1>5. g[U] = f[a] + g[S]
  <2>1. g[U] = f[a] + g[U \ {a}]
    BY <1>2, <1>3, RecursionAdds
  <2>2. QED
    BY <1>2, <2>1
<1>6. g[S] = h[S]
  BY <1>1, <1>2, <1>3, <1>4, RecursionUnique
<1>7. QED
  BY <1>1, <1>2, <1>3, <1>4, <1>5, <1>6, TotalIs

\* the sum over two sets that do not meet
LEMMA TotalUnion ==
    ASSUME NEW S, IsFiniteSet(S), NEW U, IsFiniteSet(U), S \intersect U = {}, NEW f,
           \A b \in S \union U : f[b] \in Int
    PROVE  Total(f, S \union U) = Total(f, S) + Total(f, U)
<1> DEFINE T == {s \in SUBSET U : Total(f, S \union s) = Total(f, S) + Total(f, s)}
<1>1. Total(f, S) \in Int
  BY TotalInt
<1>2. ASSUME NEW s \in SUBSET U, s # {}, \A a \in s : s \ {a} \in T
      PROVE  s \in T
  <2>1. PICK a : a \in s
    BY <1>2
  <2> DEFINE r == s \ {a}
  <2>2. IsFiniteSet(r) /\ r \subseteq U /\ a \notin r
    BY FS_Subset
  <2>3. IsFiniteSet(S \union r) /\ a \notin S \union r
    BY <2>1, <2>2, FS_Union
  <2>4. Total(f, (S \union r) \union {a}) = f[a] + Total(f, S \union r)
    BY <2>1, <2>2, <2>3, TotalAdds
  <2>5. Total(f, r \union {a}) = f[a] + Total(f, r)
    BY <2>1, <2>2, TotalAdds
  <2>6. (S \union r) \union {a} = S \union s /\ r \union {a} = s
    BY <2>1
  <2>7. Total(f, S \union r) = Total(f, S) + Total(f, r)
    BY <1>2, <2>1
  <2>8. PICK v : v = Total(f, r)
    OBVIOUS
  <2>9. v \in Int /\ f[a] \in Int
    BY <2>1, <2>2, <2>8, TotalInt
  <2>10. Total(f, S \union s) = f[a] + (Total(f, S) + v) /\ Total(f, s) = f[a] + v
    BY <2>4, <2>5, <2>6, <2>7, <2>8
  <2>11. Total(f, S \union s) = Total(f, S) + Total(f, s)
    BY <1>1, <2>9, <2>10
  <2>12. QED
    BY <2>11
<1>3. {} \in T
  BY <1>1, TotalEmpty
<1>4. SUBSET U \subseteq T
  <2> HIDE DEF T
  <2>1. QED
    BY <1>2, <1>3, SetInduction
<1>5. QED
  BY <1>4

-----------------------------------------------------------------------------
(* The sums of the model as sums of functions.                              *)

\* sums the model writes with an operator, as sums of the function of its values
LEMMA ProductTotal ==
    ASSUME NEW S, IsFiniteSet(S), NEW u, NEW v
    PROVE  MapThenSumSet(LAMBDA i : u[i] * v[i], S) = Total([i \in S |-> u[i] * v[i]], S)
<1> DEFINE f == [i \in S |-> u[i] * v[i]]
           E(g) == g = [s \in SUBSET S |->
                          IF s = {} THEN 0
                          ELSE u[Chosen(s)] * v[Chosen(s)] + g[s \ {Chosen(s)}]]
<1>1. MapThenSumSet(LAMBDA i : u[i] * v[i], S) = (CHOOSE g : E(g))[S]
  BY DEF MapThenSumSet, MapThenFoldSet, Chosen
<1>2. \A s \in SUBSET S : s # {} => f[Chosen(s)] = u[Chosen(s)] * v[Chosen(s)]
  BY ChosenIn
<1> HIDE DEF f
<1>3. \A g : Recursion(g, f, S) <=> E(g)
  BY <1>2 DEF Recursion
<1>4. \E g : E(g)
  BY <1>3, RecursionExists
<1> HIDE DEF E
<1>5. PICK g : g = (CHOOSE h : E(h))
  OBVIOUS
<1>6. E(g)
  BY <1>4, <1>5
<1>7. QED
  BY <1>1, <1>3, <1>5, <1>6, TotalIs DEF f

LEMMA AbsTotal ==
    ASSUME NEW S, IsFiniteSet(S), NEW u
    PROVE  MapThenSumSet(LAMBDA i : Abs(u[i]), S) = Total([i \in S |-> Abs(u[i])], S)
<1> DEFINE f == [i \in S |-> Abs(u[i])]
           E(g) == g = [s \in SUBSET S |->
                          IF s = {} THEN 0
                          ELSE Abs(u[Chosen(s)]) + g[s \ {Chosen(s)}]]
<1>1. MapThenSumSet(LAMBDA i : Abs(u[i]), S) = (CHOOSE g : E(g))[S]
  BY DEF MapThenSumSet, MapThenFoldSet, Chosen
<1>2. \A s \in SUBSET S : s # {} => f[Chosen(s)] = Abs(u[Chosen(s)])
  BY ChosenIn
<1> HIDE DEF f
<1>3. \A g : Recursion(g, f, S) <=> E(g)
  BY <1>2 DEF Recursion
<1>4. \E g : E(g)
  BY <1>3, RecursionExists
<1> HIDE DEF E
<1>5. PICK g : g = (CHOOSE h : E(h))
  OBVIOUS
<1>6. E(g)
  BY <1>4, <1>5
<1>7. QED
  BY <1>1, <1>3, <1>5, <1>6, TotalIs DEF f

\* the row of a matrix in compressed storage: p the places, c their columns
LEMMA RowTotal ==
    ASSUME NEW S, IsFiniteSet(S), NEW v, NEW c, NEW u
    PROVE  MapThenSumSet(LAMBDA j : v[j] * u[c[j]], S) = Total([j \in S |-> v[j] * u[c[j]]], S)
<1> DEFINE f == [j \in S |-> v[j] * u[c[j]]]
           E(g) == g = [s \in SUBSET S |->
                          IF s = {} THEN 0
                          ELSE v[Chosen(s)] * u[c[Chosen(s)]] + g[s \ {Chosen(s)}]]
<1>1. MapThenSumSet(LAMBDA j : v[j] * u[c[j]], S) = (CHOOSE g : E(g))[S]
  BY DEF MapThenSumSet, MapThenFoldSet, Chosen
<1>2. \A s \in SUBSET S : s # {} => f[Chosen(s)] = v[Chosen(s)] * u[c[Chosen(s)]]
  BY ChosenIn
<1> HIDE DEF f
<1>3. \A g : Recursion(g, f, S) <=> E(g)
  BY <1>2 DEF Recursion
<1>4. \E g : E(g)
  BY <1>3, RecursionExists
<1> HIDE DEF E
<1>5. PICK g : g = (CHOOSE h : E(h))
  OBVIOUS
<1>6. E(g)
  BY <1>4, <1>5
<1>7. QED
  BY <1>1, <1>3, <1>5, <1>6, TotalIs DEF f

\* counting is adding ones
LEMMA CountTotal ==
    ASSUME NEW S, IsFiniteSet(S), NEW u
    PROVE  Cardinality({i \in S : u[i] # 0}) = Total([i \in S |-> IF u[i] # 0 THEN 1 ELSE 0], S)
<1> DEFINE f == [i \in S |-> IF u[i] # 0 THEN 1 ELSE 0]
           C(s) == {i \in s : u[i] # 0}
           T == {s \in SUBSET S : Cardinality(C(s)) = Total(f, s)}
<1>1. \A s \in SUBSET S : IsFiniteSet(s) /\ IsFiniteSet(C(s)) /\ Cardinality(C(s)) \in Nat
  BY FS_Subset, FS_CardinalityType
<1>2. ASSUME NEW s \in SUBSET S, s # {}, \A a \in s : s \ {a} \in T
      PROVE  s \in T
  <2>1. PICK a : a \in s
    BY <1>2
  <2>2. PICK r : r = s \ {a}
    OBVIOUS
  <2>3. r \in SUBSET S /\ a \notin r /\ s = r \union {a} /\ Cardinality(C(r)) = Total(f, r)
    BY <1>2, <2>1, <2>2
  <2>4. Total(f, s) = f[a] + Total(f, r)
    <3>1. \A b \in r \union {a} : f[b] \in Int
      BY <2>1, <2>3
    <3> HIDE DEF f
    <3>2. QED
      BY <1>1, <2>3, <3>1, TotalAdds
  <2>5. CASE u[a] # 0
    <3>1. C(s) = C(r) \union {a} /\ a \notin C(r) /\ f[a] = 1
      BY <2>1, <2>3, <2>5
    <3>2. Cardinality(C(s)) = Cardinality(C(r)) + 1
      BY <1>1, <2>3, <3>1, FS_AddElement
    <3>3. QED
      BY <1>1, <2>3, <2>4, <3>1, <3>2
  <2>6. CASE u[a] = 0
    <3>1. C(s) = C(r) /\ f[a] = 0
      BY <2>1, <2>3, <2>6
    <3>2. Total(f, s) = Cardinality(C(r))
      BY <1>1, <2>3, <2>4, <3>1
    <3>3. QED
      BY <3>1, <3>2
  <2>7. QED
    BY <2>5, <2>6
<1>3. {} \in T
  BY TotalEmpty, FS_EmptySet
<1>4. SUBSET S \subseteq T
  <2> HIDE DEF T
  <2>1. QED
    BY <1>2, <1>3, SetInduction
<1>5. QED
  BY <1>4

LEMMA TotalZero ==
    ASSUME NEW S, IsFiniteSet(S), NEW f, \A a \in S : f[a] = 0
    PROVE  Total(f, S) = 0
<1> DEFINE T == {s \in SUBSET S : Total(f, s) = 0}
<1>1. ASSUME NEW s \in SUBSET S, s # {}, \A a \in s : s \ {a} \in T
      PROVE  s \in T
  <2>1. PICK a : a \in s
    BY <1>1
  <2>2. PICK r : r = s \ {a}
    OBVIOUS
  <2>3. r \in SUBSET S /\ a \notin r /\ s = r \union {a} /\ Total(f, r) = 0 /\ IsFiniteSet(r)
    BY <1>1, <2>1, <2>2, FS_Subset
  <2>4. Total(f, s) = f[a] + Total(f, r)
    <3>1. \A b \in r \union {a} : f[b] \in Int
      BY <2>1, <2>3
    <3>2. QED
      BY <2>3, <3>1, TotalAdds
  <2>5. QED
    BY <2>1, <2>3, <2>4
<1>2. {} \in T
  BY TotalEmpty
<1>3. SUBSET S \subseteq T
  <2> HIDE DEF T
  <2>1. QED
    BY <1>1, <1>2, SetInduction
<1>4. QED
  BY <1>3

\* the sum when one term changes
LEMMA TotalChanged ==
    ASSUME NEW S, IsFiniteSet(S), NEW f, NEW e, NEW c \in S, NEW d \in Int,
           \A a \in S : f[a] \in Int, \A a \in S \ {c} : e[a] = f[a], e[c] = d + f[c]
    PROVE  Total(e, S) = d + Total(f, S)
<1>1. PICK r : r = S \ {c}
  OBVIOUS
<1>2. S = r \union {c} /\ c \notin r /\ IsFiniteSet(r)
  BY <1>1, FS_Subset
<1>3. Total(f, S) = f[c] + Total(f, r)
  BY <1>2, TotalAdds
<1>4. Total(e, S) = e[c] + Total(e, r)
  <2>1. \A a \in S : e[a] \in Int
    OBVIOUS
  <2>2. QED
    BY <1>2, <2>1, TotalAdds
<1>5. Total(e, r) = Total(f, r)
  BY <1>1, <1>2, TotalSame
<1>6. Total(f, r) \in Int /\ f[c] \in Int
  BY <1>2, TotalInt
<1>7. QED
  BY <1>3, <1>4, <1>5, <1>6

Products(p, v, c, u, K) == \A k \in K : p[k] = v[k] * u[c[k]]
ByColumn(q, v, c, u, K, J) ==
    \E h : /\ \A j \in J : \A k : k \in h[j] <=> k \in K /\ c[k] = j
           /\ \A j \in J : q[j] = Total(v, h[j]) * u[j]

\* a row times a vector, entry by entry, is the sum over the columns of what the
\* entries of the column add up to
LEMMA RowByColumns ==
    ASSUME NEW K, IsFiniteSet(K), NEW J, IsFiniteSet(J), NEW v, NEW c, NEW u,
           \A k \in K : v[k] \in Int /\ c[k] \in J, \A j \in J : u[j] \in Int,
           NEW p, Products(p, v, c, u, K),
           NEW q, ByColumn(q, v, c, u, K, J)
    PROVE  Total(p, K) = Total(q, J)
<1> DEFINE At(s, j) == {k \in s : c[k] = j}
           P == [k \in K |-> v[k] * u[c[k]]]
           Q(s) == [j \in J |-> Total(v, At(s, j)) * u[j]]
           T == {s \in SUBSET K : Total(P, s) = Total(Q(s), J)}
<1>1. ASSUME NEW s \in SUBSET K, NEW j
      PROVE  IsFiniteSet(At(s, j)) /\ Total(v, At(s, j)) \in Int
  <2>1. IsFiniteSet(At(s, j)) /\ \A k \in At(s, j) : v[k] \in Int
    BY FS_Subset
  <2>2. QED
    BY <2>1, TotalInt
<1>2. {} \in T
  <2>1. \A j \in J : Q({})[j] = 0
    <3> SUFFICES ASSUME NEW j \in J PROVE Q({})[j] = 0
      OBVIOUS
    <3>1. At({}, j) = {}
      OBVIOUS
    <3>2. Total(v, At({}, j)) = 0
      BY <3>1, TotalEmpty
    <3>3. QED
      BY <3>2
  <2>2. Total(Q({}), J) = 0
    <3> HIDE DEF Q
    <3>1. QED
      BY <2>1, TotalZero
  <2>3. QED
    BY <2>2, TotalEmpty
<1>3. ASSUME NEW s \in SUBSET K, s # {}, \A a \in s : s \ {a} \in T
      PROVE  s \in T
  <2>1. PICK a : a \in s
    BY <1>3
  <2>2. PICK r : r = s \ {a}
    OBVIOUS
  <2>3. /\ r \in SUBSET K /\ a \notin r /\ s = r \union {a} /\ IsFiniteSet(r)
        /\ Total(P, r) = Total(Q(r), J)
    BY <1>3, <2>1, <2>2, FS_Subset
  <2>4. c[a] \in J /\ v[a] \in Int /\ u[c[a]] \in Int
    BY <2>1
  <2>5. Total(P, s) = P[a] + Total(P, r)
    <3>1. \A b \in K : P[b] \in Int
      OBVIOUS
    <3> HIDE DEF P
    <3>2. QED
      BY <2>1, <2>3, <3>1, TotalAdds
  <2>6. \A j \in J : Q(r)[j] \in Int
    <3> SUFFICES ASSUME NEW j \in J PROVE Q(r)[j] \in Int
      OBVIOUS
    <3>1. PICK w : w = Total(v, At(r, j))
      OBVIOUS
    <3>2. w \in Int /\ u[j] \in Int
      BY <1>1, <2>3, <3>1
    <3>3. Q(r)[j] = w * u[j]
      BY <3>1
    <3>4. QED
      BY <3>2, <3>3
  <2>7. \A j \in J \ {c[a]} : Q(s)[j] = Q(r)[j]
    <3> SUFFICES ASSUME NEW j \in J, j # c[a] PROVE Q(s)[j] = Q(r)[j]
      OBVIOUS
    <3>1. At(s, j) = At(r, j)
      BY <2>3
    <3>2. QED
      BY <3>1
  <2>8. Q(s)[c[a]] = P[a] + Q(r)[c[a]]
    <3>1. PICK k0 : k0 = At(r, c[a])
      OBVIOUS
    <3>2. At(s, c[a]) = k0 \union {a} /\ a \notin k0 /\ k0 \subseteq K
      BY <2>1, <2>3, <3>1
    <3>3. PICK w : w = Total(v, k0)
      OBVIOUS
    <3>4. Total(v, k0 \union {a}) = v[a] + w
      <4>1. \A b \in k0 \union {a} : v[b] \in Int
        BY <2>4, <3>2
      <4>2. IsFiniteSet(k0)
        BY <3>2, FS_Subset
      <4>3. QED
        BY <3>2, <3>3, <4>1, <4>2, TotalAdds
    <3>5. w \in Int
      BY <1>1, <2>3, <3>1, <3>3
    <3>6. Q(s)[c[a]] = (v[a] + w) * u[c[a]] /\ Q(r)[c[a]] = w * u[c[a]]
      BY <2>4, <3>1, <3>2, <3>3, <3>4
    <3>7. (v[a] + w) * u[c[a]] = v[a] * u[c[a]] + w * u[c[a]]
      BY <2>4, <3>5
    <3>8. P[a] = v[a] * u[c[a]]
      BY <2>1
    <3>9. QED
      BY <3>6, <3>7, <3>8
  <2>9. Total(Q(s), J) = P[a] + Total(Q(r), J)
    <3>1. P[a] \in Int
      BY <2>1, <2>4
    <3>2. PICK d : d = P[a]
      OBVIOUS
    <3>3. PICK f : f = Q(r)
      OBVIOUS
    <3>4. PICK e : e = Q(s)
      OBVIOUS
    <3>5. PICK z \in J : z = c[a]
      BY <2>4
    <3> HIDE DEF P, Q, At, T
    <3>6. /\ d \in Int /\ \A j \in J : f[j] \in Int
          /\ \A j \in J \ {z} : e[j] = f[j]
          /\ e[z] = d + f[z]
      BY <2>6, <2>7, <2>8, <3>1, <3>2, <3>3, <3>4, <3>5
    <3>7. Total(e, J) = d + Total(f, J)
      BY ONLY IsFiniteSet(J), <3>5, <3>6, TotalChanged
    <3>8. QED
      BY <3>2, <3>3, <3>4, <3>7
  <2>10. QED
    BY <2>3, <2>5, <2>9
<1>4. SUBSET K \subseteq T
  <2> HIDE DEF T
  <2>1. QED
    BY <1>2, <1>3, SetInduction
<1>5. Total(P, K) = Total(Q(K), J)
  BY <1>4
<1>6. Total(p, K) = Total(P, K)
  <2>1. \A k \in K : p[k] = P[k]
    BY DEF Products
  <2> HIDE DEF P
  <2>2. QED
    BY <2>1, TotalSame
<1>7. Total(q, J) = Total(Q(K), J)
  <2>1. PICK h : /\ \A j \in J : \A k : k \in h[j] <=> k \in K /\ c[k] = j
                 /\ \A j \in J : q[j] = Total(v, h[j]) * u[j]
    BY DEF ByColumn
  <2>2. \A j \in J : h[j] = At(K, j)
    BY <2>1
  <2>3. \A j \in J : q[j] = Q(K)[j]
    BY <2>1, <2>2
  <2> HIDE DEF Q
  <2>4. QED
    BY <2>3, TotalSame
<1>8. QED
  BY <1>5, <1>6, <1>7

LEMMA DenseTotal ==
    ASSUME NEW S, IsFiniteSet(S), NEW i
    PROVE  MapThenSumSet(LAMBDA j : Dense(i, j) * x[j], S)
             = Total([j \in S |-> Dense(i, j) * x[j]], S)
<1> DEFINE f == [j \in S |-> Dense(i, j) * x[j]]
           E(g) == g = [s \in SUBSET S |->
                          IF s = {} THEN 0
                          ELSE Dense(i, Chosen(s)) * x[Chosen(s)] + g[s \ {Chosen(s)}]]
<1>1. MapThenSumSet(LAMBDA j : Dense(i, j) * x[j], S) = (CHOOSE g : E(g))[S]
  BY DEF MapThenSumSet, MapThenFoldSet, Chosen
<1>2. \A s \in SUBSET S : s # {} => f[Chosen(s)] = Dense(i, Chosen(s)) * x[Chosen(s)]
  BY ChosenIn
<1> HIDE DEF f
<1>3. \A g : Recursion(g, f, S) <=> E(g)
  BY <1>2 DEF Recursion
<1>4. \E g : E(g)
  BY <1>3, RecursionExists
<1> HIDE DEF E
<1>5. PICK g : g = (CHOOSE h : E(h))
  OBVIOUS
<1>6. E(g)
  BY <1>4, <1>5
<1>7. QED
  BY <1>1, <1>3, <1>5, <1>6, TotalIs DEF f

\* kg_csr_matvec computes a row of the product of the matrix as a table
LEMMA RowIsDense ==
    ASSUME launch \in Launches, kernel = "matvec", NEW i \in 0 .. n - 1
    PROVE  RowProduct(i) = MapThenSumSet(LAMBDA j : Dense(i, j) * x[j], 0 .. n - 1)
<1>1. PICK v : v = launch.mat.val
  OBVIOUS
<1>2. PICK c : c = launch.mat.ja
  OBVIOUS
<1>3. PICK K : K = launch.mat.ia[i] .. launch.mat.ia[i + 1] - 1
  OBVIOUS
<1>4. PICK J : J = 0 .. n - 1
  OBVIOUS
<1>5. PICK u : u = x
  OBVIOUS
<1>6. IsFiniteSet(K) /\ IsFiniteSet(J)
  <2>1. PICK a : a = launch.mat.ia[i]
    OBVIOUS
  <2>2. PICK b : b = launch.mat.ia[i + 1]
    OBVIOUS
  <2>3. a \in Int /\ b \in Int
    BY <2>1, <2>2, LaunchesAssumption DEF kernel, n
  <2>4. K = a .. (b - 1)
    BY <1>3, <2>1, <2>2
  <2>5. b - 1 \in Int /\ n - 1 \in Int
    BY <2>3, LaunchFacts
  <2>6. QED
    BY <1>4, <2>3, <2>4, <2>5, FS_Interval
<1>7. \A k \in K : v[k] \in Int /\ c[k] \in J
  BY <1>1, <1>2, <1>3, <1>4, LaunchesAssumption DEF kernel, n
<1>8. \A j \in J : u[j] \in Int
  BY <1>4, <1>5, LaunchFacts
<1>9. PICK p : p = [k \in K |-> v[k] * u[c[k]]]
  OBVIOUS
<1>10. RowProduct(i) = Total(p, K)
  <2>1. RowProduct(i) = MapThenSumSet(LAMBDA j : v[j] * u[c[j]], K)
    BY <1>1, <1>2, <1>3, <1>5 DEF RowProduct, MapThenSumSet, MapThenFoldSet
  <2>2. QED
    BY <1>6, <1>9, <2>1, RowTotal
<1>11. PICK q : q = [j \in 0 .. n - 1 |-> Dense(i, j) * x[j]]
  OBVIOUS
<1>12. MapThenSumSet(LAMBDA j : Dense(i, j) * x[j], 0 .. n - 1) = Total(q, J)
  BY <1>4, <1>6, <1>11, DenseTotal
<1>13. \A j : Dense(i, j) = Total(v, {k \in K : c[k] = j})
  BY <1>1, <1>2, <1>3 DEF Dense, Total, MapThenSumSet, MapThenFoldSet
<1>14. PICK h : h = [j \in J |-> {k \in K : c[k] = j}]
  OBVIOUS
<1>15. \A j \in J : \A k : k \in h[j] <=> k \in K /\ c[k] = j
  BY <1>14
<1>16. \A j \in J : q[j] = Total(v, h[j]) * u[j]
  BY <1>4, <1>5, <1>11, <1>13, <1>14
<1>17. Products(p, v, c, u, K) /\ ByColumn(q, v, c, u, K, J)
  BY <1>9, <1>15, <1>16 DEF Products, ByColumn
<1>18. Total(p, K) = Total(q, J)
  BY <1>6, <1>7, <1>8, <1>17, RowByColumns
<1>19. QED
  BY <1>10, <1>12, <1>18

-----------------------------------------------------------------------------
(* Shares of a reduction.                                                   *)

\* what element i adds to the result
Contribution(l, i) ==
    CASE l.kernel = "dot" -> l.x[i] * l.y[i]
      [] l.kernel = "l0"  -> IF l.x[i] # 0 THEN 1 ELSE 0
      [] l.kernel = "l1"  -> Abs(l.x[i])
      [] OTHER            -> l.x[i]
Contributions(l) == [i \in 0 .. l.n - 1 |-> Contribution(l, i)]

\* v is the reduction over the elements S, or -Huge for want of a larger one
IsShare(l, v, S) ==
    IF l.kernel = "linf"
    THEN /\ v \in {-Huge} \union {Abs(l.x[i]) : i \in S}
         /\ \A i \in S : v >= Abs(l.x[i])
    ELSE v = Total(Contributions(l), S)

LEMMA ContributionInt ==
    ASSUME NEW l \in Launches
    PROVE  /\ l.n \in Nat /\ l.x \in [0 .. l.n - 1 -> Int] /\ IsFiniteSet(0 .. l.n - 1)
           /\ \A i \in 0 .. l.n - 1 : Contributions(l)[i] = Contribution(l, i)
           /\ \A i \in 0 .. l.n - 1 : Contributions(l)[i] \in Int /\ Abs(l.x[i]) \in Nat
<1>1. l.n \in Nat /\ l.x \in [0 .. l.n - 1 -> Int]
  BY LaunchesAssumption, MaxElementsAssumption
<1>2. IsFiniteSet(0 .. l.n - 1)
  <2>1. 0 \in Int /\ l.n - 1 \in Int
    BY <1>1
  <2>2. QED
    BY <2>1, FS_Interval
<1>3. \A i \in 0 .. l.n - 1 : Contributions(l)[i] = Contribution(l, i)
  BY DEF Contributions
<1>4. ASSUME NEW i \in 0 .. l.n - 1
      PROVE  Contribution(l, i) \in Int /\ Abs(l.x[i]) \in Nat
  <2>1. PICK a \in Int : a = l.x[i]
    BY <1>1
  <2>2. Abs(l.x[i]) \in Nat
    BY <2>1 DEF Abs
  <2>3. CASE l.kernel = "dot"
    <3>1. PICK b \in Int : b = l.y[i]
      BY <2>3, LaunchesAssumption
    <3>2. QED
      BY <2>1, <2>2, <2>3, <3>1 DEF Contribution
  <2>4. CASE l.kernel # "dot"
    BY <2>1, <2>2, <2>4 DEF Contribution
  <2>5. QED
    BY <2>2, <2>3, <2>4
<1>5. QED
  BY <1>1, <1>2, <1>3, <1>4

LEMMA ShareInt ==
    ASSUME NEW l \in Launches, NEW S, S \subseteq 0 .. l.n - 1, NEW v, IsShare(l, v, S)
    PROVE  v \in Int
<1>1. CASE l.kernel = "linf"
  <2>1. v \in {-Huge} \union {Abs(l.x[i]) : i \in S}
    BY <1>1 DEF IsShare
  <2>2. -Huge \in Int
    BY NumbersAssumption
  <2>3. QED
    BY <2>1, <2>2, ContributionInt
<1>2. CASE l.kernel # "linf"
  <2>1. IsFiniteSet(S) /\ \A i \in S : Contributions(l)[i] \in Int
    BY ContributionInt, FS_Subset
  <2>2. QED
    BY <1>2, <2>1, TotalInt DEF IsShare
<1>3. QED
  BY <1>1, <1>2

LEMMA ShareNone ==
    ASSUME NEW l \in Launches
    PROVE  IsShare(l, IF l.kernel = "linf" THEN -Huge ELSE 0, {})
BY TotalEmpty DEF IsShare

\* taking an element in
LEMMA ShareGathered ==
    ASSUME launch \in Launches, kernel \in Reductions, NEW S, S \subseteq 0 .. n - 1,
           NEW i \in (0 .. n - 1) \ S, NEW v, IsShare(launch, v, S)
    PROVE  IsShare(launch, Gathered(v, i), S \union {i})
<1>1. v \in Int
  BY ShareInt DEF n
<1>2. CASE kernel = "linf"
  <2>1. Gathered(v, i) = IF v >= Abs(x[i]) THEN v ELSE Abs(x[i])
    BY <1>2 DEF Gathered, Larger
  <2>2. \A j \in 0 .. n - 1 : Abs(x[j]) \in Nat
    BY ContributionInt DEF n, x
  <2>3. v \in {-Huge} \union {Abs(x[j]) : j \in S} /\ \A j \in S : v >= Abs(x[j])
    BY <1>2 DEF IsShare, kernel, x
  <2>4. PICK w : w = Gathered(v, i)
    OBVIOUS
  <2>5. w \in {-Huge} \union {Abs(x[j]) : j \in S \union {i}}
    BY <2>1, <2>3, <2>4
  <2>6. \A j \in S \union {i} : w >= Abs(x[j])
    <3>1. PICK b \in Nat : b = Abs(x[i])
      BY <2>2
    <3>2. w \in Int /\ w >= v /\ w >= b
      BY <1>1, <2>1, <2>4, <3>1
    <3>3. ASSUME NEW j \in S PROVE w >= Abs(x[j])
      <4>1. PICK a \in Nat : a = Abs(x[j])
        BY <2>2
      <4>2. v >= a
        BY <2>3, <4>1
      <4>3. w >= a
        BY <1>1, <3>2, <4>2
      <4>4. QED
        BY <4>1, <4>3
    <3>4. QED
      BY <3>1, <3>2, <3>3
  <2>7. QED
    BY <1>2, <2>4, <2>5, <2>6 DEF IsShare, kernel, x
<1>3. CASE kernel # "linf"
  <2>1. PICK f : f = Contributions(launch)
    OBVIOUS
  <2>2. IsFiniteSet(S) /\ \A j \in S \union {i} : f[j] \in Int
    BY <2>1, ContributionInt, FS_Subset DEF n
  <2>3. Total(f, S \union {i}) = f[i] + Total(f, S)
    BY <2>2, TotalAdds
  <2>4. v = Total(f, S)
    BY <1>3, <2>1 DEF IsShare, kernel
  <2>5. f[i] = Contribution(launch, i)
    BY <2>1, ContributionInt DEF n
  <2>6. Gathered(v, i) = v + f[i]
    BY <1>3, <2>5 DEF Gathered, Contribution, kernel, x, y, Reductions
  <2>7. Gathered(v, i) = Total(f, S \union {i})
    BY <1>1, <2>2, <2>3, <2>4, <2>6
  <2>8. QED
    BY <1>3, <2>1, <2>7 DEF IsShare, kernel
<1>4. QED
  BY <1>2, <1>3

\* taking a whole share in
LEMMA ShareCombined ==
    ASSUME launch \in Launches, kernel \in Reductions,
           NEW S, S \subseteq 0 .. n - 1, NEW v, IsShare(launch, v, S),
           NEW T, T \subseteq 0 .. n - 1, NEW w, IsShare(launch, w, T),
           S \intersect T = {}, kernel = "linf" => T # {}
    PROVE  IsShare(launch, Combined(v, w), S \union T)
<1>1. v \in Int /\ w \in Int
  BY ShareInt DEF n
<1>2. CASE kernel = "linf"
  <2>1. \A j \in 0 .. n - 1 : Abs(x[j]) \in Nat
    BY ContributionInt DEF n, x
  <2>2. /\ v \in {-Huge} \union {Abs(x[j]) : j \in S} /\ \A j \in S : v >= Abs(x[j])
        /\ w \in {-Huge} \union {Abs(x[j]) : j \in T} /\ \A j \in T : w >= Abs(x[j])
    BY <1>2 DEF IsShare, kernel, x
  <2>3. w >= 0
    <3>1. PICK j \in T : TRUE
      BY <1>2
    <3>2. PICK a \in Nat : a = Abs(x[j])
      BY <2>1
    <3>3. w >= a
      BY <2>2, <3>2
    <3>4. QED
      BY <1>1, <3>2, <3>3
  <2>4. Combined(v, w) = IF v >= w THEN v ELSE w
    BY <1>1, <1>2, <2>3 DEF Combined, Larger, Abs
  <2>5. PICK z : z = Combined(v, w)
    OBVIOUS
  <2>6. z \in Int /\ z >= v /\ z >= w
    BY <1>1, <2>4, <2>5
  <2>7. \A j \in S \union T : z >= Abs(x[j])
    <3> SUFFICES ASSUME NEW j \in S \union T PROVE z >= Abs(x[j])
      OBVIOUS
    <3>1. PICK a \in Nat : a = Abs(x[j])
      BY <2>1
    <3>2. v >= a \/ w >= a
      BY <2>2, <3>1
    <3>3. z >= a
      BY <1>1, <2>6, <3>1, <3>2
    <3>4. QED
      BY <3>1, <3>3
  <2>8. z \in {-Huge} \union {Abs(x[j]) : j \in S \union T}
    BY <2>2, <2>4, <2>5
  <2>9. QED
    BY <1>2, <2>5, <2>7, <2>8 DEF IsShare, kernel, x
<1>3. CASE kernel # "linf"
  <2>1. PICK f : f = Contributions(launch)
    OBVIOUS
  <2>2. IsFiniteSet(S) /\ IsFiniteSet(T) /\ \A j \in S \union T : f[j] \in Int
    BY <2>1, ContributionInt, FS_Subset DEF n
  <2>3. Total(f, S \union T) = Total(f, S) + Total(f, T)
    BY <2>2, TotalUnion
  <2>4. v = Total(f, S) /\ w = Total(f, T) /\ Combined(v, w) = v + w
    BY <1>3, <2>1 DEF IsShare, kernel, Combined
  <2>5. QED
    BY <1>3, <2>1, <2>3, <2>4 DEF IsShare, kernel
<1>4. QED
  BY <1>2, <1>3

\* the reduction over all the elements
LEMMA ShareOfAll ==
    ASSUME launch \in Launches, kernel \in Reductions, kernel = "linf" => n > 0,
           NEW v, IsShare(launch, v, 0 .. n - 1)
    PROVE  v = Expected
<1>1. n \in Nat /\ IsFiniteSet(0 .. n - 1) /\ x \in [0 .. n - 1 -> Int]
  BY ContributionInt DEF n, x
<1>2. CASE kernel = "linf"
  <2> DEFINE A == {Abs(x[i]) : i \in 0 .. n - 1}
  <2>1. \A i \in 0 .. n - 1 : Abs(x[i]) \in Nat
    BY ContributionInt DEF n, x
  <2>2. v \in {-Huge} \union A /\ \A a \in A : v >= a
    BY <1>2 DEF IsShare, kernel, x, n
  <2>3. v \in A
    <3>1. PICK a \in Nat : a \in A
      <4>1. 0 \in 0 .. n - 1
        BY <1>1, <1>2
      <4>2. QED
        BY <2>1, <4>1
    <3>2. CASE v = -Huge
      <4>1. v >= a
        BY <2>2, <3>1
      <4>2. v = a
        BY <3>1, <3>2, <4>1, NumbersAssumption
      <4>3. QED
        BY <3>1, <4>2
    <3>3. QED
      BY <2>2, <3>2
  <2>4. A \subseteq Nat
    BY <2>1
  <2> HIDE DEF A
  <2>5. Max(A) = v
    <3>1. PICK m : m = Max(A)
      OBVIOUS
    <3>2. m \in A /\ \A a \in A : m >= a
      BY <2>2, <2>3, <3>1 DEF Max
    <3>3. m >= v /\ v >= m /\ m \in Nat /\ v \in Nat
      BY <2>2, <2>3, <2>4, <3>2
    <3>4. QED
      BY <3>1, <3>3
  <2>6. Expected = Max(A)
    BY <1>2 DEF Expected, A
  <2>7. QED
    BY <2>5, <2>6
<1>3. CASE kernel # "linf"
  <2>1. PICK f : f = Contributions(launch)
    OBVIOUS
  <2>2. v = Total(f, 0 .. n - 1) /\ \A i \in 0 .. n - 1 : f[i] = Contribution(launch, i)
    BY <1>3, <2>1, ContributionInt DEF IsShare, kernel, n
  <2>3. PICK S : S = 0 .. n - 1
    OBVIOUS
  <2>4. CASE kernel = "dot"
    <3>1. PICK e : e = [i \in 0 .. n - 1 |-> x[i] * y[i]]
      OBVIOUS
    <3>2. Expected = Total(e, 0 .. n - 1)
      <4>1. Expected = MapThenSumSet(LAMBDA i : x[i] * y[i], 0 .. n - 1)
        BY <2>4 DEF Expected, MapThenSumSet, MapThenFoldSet
      <4>2. QED
        BY <1>1, <3>1, <4>1, ProductTotal
    <3>3. \A i \in 0 .. n - 1 : f[i] = e[i]
      BY <2>2, <2>4, <3>1 DEF Contribution, kernel, x, y
    <3>4. QED
      BY <1>1, <2>2, <3>2, <3>3, TotalSame
  <2>5. CASE kernel = "l1"
    <3>1. PICK e : e = [i \in 0 .. n - 1 |-> Abs(x[i])]
      OBVIOUS
    <3>2. Expected = Total(e, 0 .. n - 1)
      <4>1. Expected = MapThenSumSet(LAMBDA i : Abs(x[i]), 0 .. n - 1)
        BY <2>5 DEF Expected, MapThenSumSet, MapThenFoldSet
      <4>2. QED
        BY <1>1, <3>1, <4>1, AbsTotal
    <3>3. \A i \in 0 .. n - 1 : f[i] = e[i]
      BY <2>2, <2>5, <3>1 DEF Contribution, kernel, x
    <3>4. QED
      BY <1>1, <2>2, <3>2, <3>3, TotalSame
  <2>6. CASE kernel = "sum"
    <3>1. Expected = Total(x, 0 .. n - 1)
      BY <2>6 DEF Expected, Total, MapThenSumSet, MapThenFoldSet
    <3>2. \A i \in 0 .. n - 1 : f[i] = x[i]
      BY <2>2, <2>6 DEF Contribution, kernel, x
    <3>3. QED
      BY <1>1, <2>2, <3>1, <3>2, TotalSame
  <2>7. CASE kernel = "l0"
    <3>1. PICK e : e = [i \in 0 .. n - 1 |-> IF x[i] # 0 THEN 1 ELSE 0]
      OBVIOUS
    <3>2. Expected = Total(e, 0 .. n - 1)
      <4>1. Expected = Cardinality({i \in 0 .. n - 1 : x[i] # 0})
        BY <2>7 DEF Expected
      <4>2. QED
        BY <1>1, <3>1, <4>1, CountTotal
    <3>3. \A i \in 0 .. n - 1 : f[i] = e[i]
      BY <2>2, <2>7, <3>1 DEF Contribution, kernel, x
    <3>4. QED
      BY <1>1, <2>2, <3>2, <3>3, TotalSame
  <2>8. QED
    BY <1>3, <2>4, <2>5, <2>6, <2>7 DEF Reductions
<1>4. QED
  BY <1>2, <1>3

-----------------------------------------------------------------------------
(* Who has which elements.                                                  *)

\* of m elements, the ones thread t has once it is at element i, and all of its own
Taken(m, i, t) == {j \in Visited(t) : j < m /\ j < i}
Mine(m, t) == {j \in Visited(t) : j < m}

\* the elements of the first k threads
Covered(m, k) == {j \in 0 .. m - 1 : \E u \in Threads : u < k /\ j \in Visited(u)}

LEMMA TakenFirst ==
    ASSUME NEW m \in Nat, NEW t \in Threads
    PROVE  Taken(m, t, t) = {}
<1>1. ASSUME NEW j \in Visited(t) PROVE ~(j < t)
  <2>1. PICK k \in Nat : j = t + k * NumThreads
    BY DEF Visited
  <2>2. t \in Nat /\ k * NumThreads \in Nat
    BY NumThreadsAssumption DEF Threads
  <2>3. QED
    BY <2>1, <2>2
<1>2. QED
  BY <1>1 DEF Taken

LEMMA TakenNext ==
    ASSUME NEW m \in Nat, NEW t \in Threads, NEW i \in Visited(t), i < m
    PROVE  /\ Taken(m, i + NumThreads, t) = Taken(m, i, t) \union {i}
           /\ i \notin Taken(m, i, t) /\ i \in 0 .. m - 1
<1>1. i \in Nat /\ NumThreads \in Nat /\ NumThreads > 0
  BY NumThreadsAssumption DEF Visited
<1>2. ASSUME NEW j \in Visited(t), j < i + NumThreads PROVE j < i \/ j = i
  <2>1. j <= i
    BY <1>2, NextVisited
  <2>2. QED
    BY <1>1, <2>1 DEF Visited
<1>3. \A j \in Visited(t) : j < i => j < i + NumThreads
  BY <1>1 DEF Visited
<1>4. i < i + NumThreads /\ ~(i < i)
  BY <1>1
<1>5. \A j : j \in Taken(m, i + NumThreads, t) <=> j \in Taken(m, i, t) \union {i}
  BY <1>2, <1>3, <1>4 DEF Taken
<1>6. i \notin Taken(m, i, t)
  BY <1>4 DEF Taken
<1>7. QED
  BY <1>1, <1>5, <1>6

LEMMA TakenLast ==
    ASSUME NEW m \in Nat, NEW t \in Threads, NEW i \in Nat, i >= m
    PROVE  Taken(m, i, t) = Mine(m, t)
BY DEF Taken, Mine, Visited

LEMMA TakenWithin ==
    ASSUME NEW m \in Nat, NEW t \in Threads, NEW i \in Nat
    PROVE  Taken(m, i, t) \subseteq 0 .. m - 1 /\ Mine(m, t) \subseteq 0 .. m - 1
BY DEF Taken, Mine, Visited

LEMMA CoveredNext ==
    ASSUME NEW m \in Nat, NEW k \in Threads
    PROVE  /\ Covered(m, k + 1) = Covered(m, k) \union Mine(m, k)
           /\ Covered(m, k) \intersect Mine(m, k) = {}
           /\ m >= NumThreads => Mine(m, k) # {}
<1>1. Threads \subseteq Nat /\ NumThreads \in Nat /\ k < NumThreads
  BY NumThreadsAssumption DEF Threads
<1>2. \A u \in Threads : u < k + 1 <=> u < k \/ u = k
  BY <1>1
<1>3. Mine(m, k) \subseteq 0 .. m - 1
  BY <1>1, TakenWithin
<1>4. Covered(m, k + 1) = Covered(m, k) \union Mine(m, k)
  <2>1. \A j \in 0 .. m - 1 : j \in Mine(m, k) <=> j \in Visited(k)
    BY DEF Mine
  <2>2. QED
    BY <1>2, <1>3, <2>1 DEF Covered
<1>5. Covered(m, k) \intersect Mine(m, k) = {}
  <2>1. SUFFICES ASSUME NEW j \in Covered(m, k), j \in Mine(m, k) PROVE FALSE
    OBVIOUS
  <2>2. PICK u \in Threads : u < k /\ j \in Visited(u)
    BY DEF Covered
  <2>3. u = k
    BY <2>1, <2>2, VisitedOnce DEF Mine
  <2>4. QED
    BY <1>1, <2>2, <2>3
<1>6. ASSUME m >= NumThreads PROVE k \in Mine(m, k)
  <2>1. k \in Visited(k)
    BY FirstVisited
  <2>2. k < m
    BY <1>1, <1>6
  <2>3. QED
    BY <2>1, <2>2 DEF Mine
<1>7. QED
  BY <1>4, <1>5, <1>6

LEMMA CoveredEnds ==
    ASSUME NEW m \in Nat
    PROVE  Covered(m, 0) = {} /\ Covered(m, NumThreads) = 0 .. m - 1
<1>1. Threads \subseteq Nat /\ \A u \in Threads : ~(u < 0) /\ u < NumThreads
  BY NumThreadsAssumption DEF Threads
<1>2. \A j \in 0 .. m - 1 : \E u \in Threads : j \in Visited(u)
  BY VisitedByAll
<1>3. QED
  BY <1>1, <1>2 DEF Covered

-----------------------------------------------------------------------------
(* Reductions.                                                              *)

\* p, i, r, s: where thread t is, its loop variable, register and entry of
\* thread_result
ShareInv(l, p, i, r, s, t) ==
    /\ p = "enter" => i = t
    /\ p = "loop" \/ (p = "enter" /\ l.kernel # "linf") =>
           IsShare(l, IF l.kernel = "dot" THEN r ELSE s, Taken(l.n, i, t))
    /\ p \in {"barrier", "combine", "done"} => IsShare(l, s, Mine(l.n, t))

\* p, i: those of thread 0; v: the result
TotalInv(l, p, i, v) ==
    /\ p = "combine" => i \in 0 .. NumThreads /\ IsShare(l, v, Covered(l.n, i))
    /\ p = "done" => IsShare(l, v, 0 .. l.n - 1)

ReductionInv ==
    kernel \in Reductions =>
        /\ kernel = "linf" => n >= NumThreads
        /\ reg \in [Threads -> Int] /\ scratch \in [Threads -> Int]
        /\ result \in [Slots -> Int]
        /\ \A t \in Threads : ShareInv(launch, pc[t], idx[t], reg[t], scratch[t], t)
        /\ TotalInv(launch, pc[0], idx[0], result[0])

LEMMA ReductionInit ==
    ASSUME "linf_length" \notin Waived, "l1_scratch" \notin Waived, Init
    PROVE  ReductionInv
<1>1. SUFFICES ASSUME kernel \in Reductions PROVE ReductionInv
  BY DEF ReductionInv
<1>2. launch \in Launches /\ n \in Nat /\ launch.out \in [Slots -> Int]
  BY LaunchFacts DEF Init
<1>3. kernel = "linf" => n >= NumThreads
  BY DEF Init
<1>4. reg \in [Threads -> Int] /\ result \in [Slots -> Int]
  BY <1>2 DEF Init
<1>5. scratch \in [Threads -> Int]
  <2>1. PICK V : scratch \in [Threads -> V] /\ V \in {{0}, Junk}
    BY DEF Init, ThreadResult
  <2>2. V \subseteq Int
    BY <2>1, NumbersAssumption
  <2>3. QED
    BY <2>1, <2>2
<1>6. ASSUME NEW t \in Threads
      PROVE  ShareInv(launch, pc[t], idx[t], reg[t], scratch[t], t)
  <2>1. pc[t] = "enter" /\ idx[t] = t /\ reg[t] = 0
    BY DEF Init
  <2>2. kernel # "linf" /\ kernel # "dot" => scratch[t] = 0
    BY <1>1 DEF Init, ThreadResult, Cleared, Reductions
  <2>3. Taken(launch.n, t, t) = {}
    BY <1>2, TakenFirst DEF n
  <2>4. kernel # "linf" => IsShare(launch, 0, {})
    BY <1>2, ShareNone DEF kernel
  <2>5. QED
    BY <2>1, <2>2, <2>3, <2>4 DEF ShareInv, kernel
<1>7. TotalInv(launch, pc[0], idx[0], result[0])
  <2>1. pc[0] = "enter"
    BY NumThreadsAssumption DEF Init, Threads
  <2>2. QED
    BY <2>1 DEF TotalInv
<1>8. QED
  BY <1>3, <1>4, <1>5, <1>6, <1>7 DEF ReductionInv

\* a step of one thread that leaves the shares of the others, and the result unless
\* it is thread 0's
LEMMA OneShare ==
    ASSUME RaceInv, ReductionInv, kernel \in Reductions, NEW t \in Threads, launch' = launch,
           NEW p, pc' = [pc EXCEPT ![t] = p], NEW i, idx' = [idx EXCEPT ![t] = i],
           NEW r \in Int, reg' = [reg EXCEPT ![t] = r],
           NEW s \in Int, scratch' = [scratch EXCEPT ![t] = s],
           ShareInv(launch, p, i, r, s, t),
           NEW v \in Int, result' = [result EXCEPT ![0] = v], t # 0 => v = result[0],
           t = 0 => TotalInv(launch, p, i, v)
    PROVE  ReductionInv'
<1>1. kernel' = kernel /\ n' = n
  BY DEF kernel, n
<1>2. 0 \in Threads /\ 0 \in Slots
  BY NumThreadsAssumption, LaunchFacts DEF Threads, RaceInv, TypeInv
<1>3. reg' \in [Threads -> Int] /\ scratch' \in [Threads -> Int] /\ result' \in [Slots -> Int]
  BY DEF ReductionInv
<1>4. /\ pc'[t] = p /\ idx'[t] = i /\ reg'[t] = r /\ scratch'[t] = s /\ result'[0] = v
      /\ \A u \in Threads : u # t => /\ pc'[u] = pc[u] /\ idx'[u] = idx[u]
                                     /\ reg'[u] = reg[u] /\ scratch'[u] = scratch[u]
  BY <1>2 DEF ReductionInv, RaceInv, TypeInv
<1>5. \A u \in Threads : ShareInv(launch, pc'[u], idx'[u], reg'[u], scratch'[u], u)
  BY <1>4 DEF ReductionInv
<1>6. TotalInv(launch, pc'[0], idx'[0], result'[0])
  BY <1>2, <1>4 DEF ReductionInv
<1>7. QED
  BY <1>1, <1>3, <1>5, <1>6 DEF ReductionInv

LEMMA SameLaunch ==
    ASSUME [Next]_vars
    PROVE  launch' = launch
BY DEF Next, Step, Synchronized, vars, Enter, Accumulate, Arrive, SyncThreads, Combine,
       WriteElement, AtomicAdd, AtomicSub, LoadOld, CasMax, CasMin, Return

LEMMA ReductionStep == RaceInv /\ ReductionInv /\ [Next]_vars => ReductionInv'
<1> SUFFICES ASSUME RaceInv, ReductionInv, [Next]_vars, kernel \in Reductions PROVE ReductionInv'
  BY SameLaunch DEF kernel, ReductionInv
<1>1. /\ launch \in Launches /\ n \in Nat /\ launch.n = n /\ launch.kernel = kernel
      /\ NumThreads \in Nat /\ 0 \in Threads /\ 0 \in Slots /\ Threads \subseteq Nat
  BY LaunchFacts, NumThreadsAssumption DEF RaceInv, TypeInv, Threads, n, kernel
<1>2. /\ kernel = "linf" => n >= NumThreads
      /\ reg \in [Threads -> Int] /\ scratch \in [Threads -> Int] /\ result \in [Slots -> Int]
      /\ \A t \in Threads : ShareInv(launch, pc[t], idx[t], reg[t], scratch[t], t)
      /\ TotalInv(launch, pc[0], idx[0], result[0])
  BY DEF ReductionInv
<1>3. pc \in [Threads -> PCs] /\ idx \in [Threads -> Nat]
  BY DEF RaceInv, TypeInv
<1>4. /\ pc = [pc EXCEPT ![0] = pc[0]] /\ result = [result EXCEPT ![0] = result[0]]
      /\ \A t \in Threads : /\ idx = [idx EXCEPT ![t] = idx[t]] /\ reg = [reg EXCEPT ![t] = reg[t]]
                            /\ pc = [pc EXCEPT ![t] = pc[t]]
                            /\ scratch = [scratch EXCEPT ![t] = scratch[t]]
                            /\ reg[t] \in Int /\ scratch[t] \in Int /\ result[0] \in Int
  BY <1>1, <1>2, <1>3
<1>5. ASSUME NEW t \in Threads, Enter(t) PROVE ReductionInv'
  <2> DEFINE s == IF kernel = "linf" THEN -Huge ELSE scratch[t]
  <2>1. /\ pc[t] = "enter" /\ launch' = launch /\ pc' = [pc EXCEPT ![t] = "loop"]
        /\ idx' = idx /\ reg' = reg /\ result' = result
        /\ scratch' = [scratch EXCEPT ![t] = s]
    BY <1>4, <1>5 DEF Enter
  <2>2. s \in Int
    BY <1>4, NumbersAssumption
  <2>3. ShareInv(launch, "loop", idx[t], reg[t], s, t)
    <3>1. ShareInv(launch, pc[t], idx[t], reg[t], scratch[t], t)
      BY <1>2
    <3>2. CASE kernel = "linf"
      <4>1. IsShare(launch, -Huge, {}) /\ Taken(n, t, t) = {} /\ idx[t] = t
        BY <1>1, <2>1, <3>1, <3>2, ShareNone, TakenFirst DEF ShareInv
      <4>2. QED
        BY <1>1, <3>2, <4>1 DEF ShareInv
    <3>3. CASE kernel # "linf"
      BY <1>1, <2>1, <3>1, <3>3 DEF ShareInv
    <3>4. QED
      BY <3>2, <3>3
  <2>4. TotalInv(launch, "loop", idx[t], result[0])
    BY DEF TotalInv
  <2> HIDE DEF s
  <2>5. QED
    BY <1>4, <2>1, <2>2, <2>3, <2>4, OneShare
<1>6. ASSUME NEW t \in Threads, Accumulate(t) PROVE ReductionInv'
  <2> DEFINE a == IF kernel = "dot" THEN reg[t] ELSE scratch[t]
             b == Gathered(a, idx[t])
             r == IF kernel = "dot" THEN b ELSE reg[t]
             s == IF kernel = "dot" THEN scratch[t] ELSE b
             i == idx[t] + NumThreads
  <2>1. /\ pc[t] = "loop" /\ idx[t] < n /\ launch' = launch /\ pc' = [pc EXCEPT ![t] = "loop"]
        /\ idx' = [idx EXCEPT ![t] = i] /\ result' = result
        /\ reg' = [reg EXCEPT ![t] = r] /\ scratch' = [scratch EXCEPT ![t] = s]
    <3>1. pc[t] = "loop"
      BY <1>6 DEF Accumulate, InLoop
    <3>2. pc = [pc EXCEPT ![t] = "loop"]
      BY <1>4, <3>1
    <3>3. reg' = [reg EXCEPT ![t] = r] /\ scratch' = [scratch EXCEPT ![t] = s]
      BY <1>2, <1>4, <1>6 DEF Accumulate
    <3>4. QED
      BY <1>3, <1>6, <3>1, <3>2, <3>3 DEF Accumulate, InLoop, Strided
  <2>2. idx[t] \in Visited(t) /\ idx[t] \in Nat
    BY <1>3, <2>1 DEF RaceInv, StrideInv
  <2>3. /\ Taken(n, i, t) = Taken(n, idx[t], t) \union {idx[t]}
        /\ idx[t] \in (0 .. n - 1) \ Taken(n, idx[t], t) /\ Taken(n, idx[t], t) \subseteq 0 .. n - 1
        /\ Taken(n, i, t) \subseteq 0 .. n - 1
    <3>1. Taken(n, idx[t], t) \subseteq 0 .. n - 1
      BY <1>1, <2>2, TakenWithin
    <3>2. QED
      BY <1>1, <2>1, <2>2, <3>1, TakenNext
  <2>4. IsShare(launch, a, Taken(n, idx[t], t))
    BY <1>1, <1>2, <2>1 DEF ShareInv
  <2>5. IsShare(launch, b, Taken(n, i, t))
    <3> HIDE DEF a, i
    <3>1. QED
      BY <1>1, <2>3, <2>4, ShareGathered
  <2>6. b \in Int
    <3> HIDE DEF b, i
    <3>1. QED
      BY <1>1, <2>3, <2>5, ShareInt
  <2>7. r \in Int /\ s \in Int
    <3> HIDE DEF b
    <3>1. QED
      BY <1>4, <2>6
  <2>8. ShareInv(launch, "loop", i, r, s, t)
    <3> HIDE DEF b, i
    <3>1. QED
      BY <1>1, <2>5 DEF ShareInv
  <2>9. TotalInv(launch, "loop", i, result[0])
    BY DEF TotalInv
  <2> HIDE DEF a, b, r, s, i
  <2>10. QED
    BY <1>4, <2>1, <2>7, <2>8, <2>9, OneShare
<1>7. ASSUME NEW t \in Threads, Arrive(t) PROVE ReductionInv'
  <2> DEFINE s == IF kernel = "dot" THEN reg[t] ELSE scratch[t]
  <2>1. /\ pc[t] = "loop" /\ idx[t] >= n /\ launch' = launch /\ pc' = [pc EXCEPT ![t] = "barrier"]
        /\ idx' = idx /\ reg' = reg /\ result' = result
        /\ scratch' = [scratch EXCEPT ![t] = s]
    BY <1>4, <1>7 DEF Arrive
  <2>2. s \in Int
    BY <1>4
  <2>3. ShareInv(launch, "barrier", idx[t], reg[t], s, t)
    <3>1. ShareInv(launch, pc[t], idx[t], reg[t], scratch[t], t)
      BY <1>2
    <3>2. Taken(n, idx[t], t) = Mine(n, t)
      BY <1>1, <1>3, <2>1, TakenLast
    <3>3. QED
      BY <1>1, <2>1, <3>1, <3>2 DEF ShareInv
  <2>4. TotalInv(launch, "barrier", idx[t], result[0])
    BY DEF TotalInv
  <2> HIDE DEF s
  <2>5. QED
    BY <1>4, <2>1, <2>2, <2>3, <2>4, OneShare
<1>8. ASSUME NEW t \in Threads, SyncThreads(t) PROVE ReductionInv'
  <2>1. /\ pc[t] = "barrier" /\ launch' = launch /\ reg' = reg /\ scratch' = scratch
    BY <1>8 DEF SyncThreads, BarrierOpen
  <2>2. \A i : \A p \in {"combine", "done"} : ShareInv(launch, p, i, reg[t], scratch[t], t)
    <3>1. ShareInv(launch, pc[t], idx[t], reg[t], scratch[t], t)
      BY <1>2
    <3>2. QED
      BY <2>1, <3>1 DEF ShareInv
  <2>3. CASE t = 0
    <3>1. /\ pc' = [pc EXCEPT ![t] = "combine"] /\ idx' = [idx EXCEPT ![t] = 0]
          /\ result' = [result EXCEPT ![0] = Neutral]
      BY <1>8, <2>3 DEF SyncThreads
    <3>2. Neutral \in Int
      BY NumbersAssumption DEF Neutral
    <3>3. TotalInv(launch, "combine", 0, Neutral)
      <4>1. IsShare(launch, Neutral, {})
        BY <1>1, ShareNone DEF Neutral
      <4>2. Covered(n, 0) = {}
        BY <1>1, CoveredEnds
      <4>3. QED
        BY <1>1, <4>1, <4>2 DEF TotalInv
    <3>4. ShareInv(launch, "combine", 0, reg[t], scratch[t], t)
      BY <2>2
    <3>5. QED
      BY <1>4, <2>1, <2>3, <3>1, <3>2, <3>3, <3>4, OneShare
  <2>4. CASE t # 0
    <3>1. pc' = [pc EXCEPT ![t] = "done"] /\ idx' = idx /\ result' = result
      BY <1>8, <2>4 DEF SyncThreads
    <3>2. ShareInv(launch, "done", idx[t], reg[t], scratch[t], t)
      BY <2>2
    <3>3. QED
      BY <1>4, <2>1, <2>4, <3>1, <3>2, OneShare
  <2>5. QED
    BY <2>3, <2>4
<1>9. ASSUME NEW t \in Threads, Combine(t) PROVE ReductionInv'
  <2>1. /\ pc[t] = "combine" /\ idx[t] < NumThreads /\ launch' = launch /\ reg' = reg
        /\ scratch' = scratch /\ pc' = pc
        /\ result' = [result EXCEPT ![0] = Combined(@, scratch[idx[t]])]
        /\ idx' = [idx EXCEPT ![t] = @ + 1]
    BY <1>9 DEF Combine
  <2>2. t = 0 /\ \A u \in Threads : pc[u] \notin {"enter", "loop"}
    BY <2>1 DEF RaceInv, BarrierInv
  <2>3. PICK k \in Threads : k = idx[t]
    BY <1>1, <1>3, <2>1 DEF Threads
  <2>4. /\ pc = [pc EXCEPT ![t] = "combine"] /\ idx' = [idx EXCEPT ![t] = k + 1]
        /\ result' = [result EXCEPT ![0] = Combined(result[0], scratch[k])]
    BY <1>1, <1>2, <1>3, <2>1, <2>3
  <2>5. IsShare(launch, scratch[k], Mine(n, k))
    <3>1. pc[k] \in {"barrier", "combine", "done"}
      BY <1>3, <2>2 DEF PCs, RaceInv, FamilyInv, Reductions
    <3>2. QED
      BY <1>1, <1>2, <3>1 DEF ShareInv
  <2>6. IsShare(launch, result[0], Covered(n, k))
    BY <1>1, <1>2, <2>1, <2>2, <2>3 DEF TotalInv
  <2>7. PICK v : v = Combined(result[0], scratch[k])
    OBVIOUS
  <2>8. Mine(n, k) \subseteq 0 .. n - 1 /\ Covered(n, k) \subseteq 0 .. n - 1
    BY <1>1, TakenWithin DEF Covered
  <2>9. IsShare(launch, v, Covered(n, k + 1)) /\ Covered(n, k + 1) \subseteq 0 .. n - 1
    BY <1>1, <1>2, <2>5, <2>6, <2>7, <2>8, CoveredNext, ShareCombined
  <2>10. v \in Int
    BY <1>1, <2>9, ShareInt
  <2>11. TotalInv(launch, "combine", k + 1, v)
    <3>1. k + 1 \in 0 .. NumThreads
      BY <1>1, <2>1, <2>3
    <3>2. QED
      BY <1>1, <2>9, <3>1 DEF TotalInv
  <2>12. ShareInv(launch, "combine", k + 1, reg[t], scratch[t], t)
    BY <1>2, <2>1 DEF ShareInv
  <2>13. PICK i : i = k + 1
    OBVIOUS
  <2>14. /\ pc' = [pc EXCEPT ![t] = "combine"] /\ idx' = [idx EXCEPT ![t] = i]
         /\ result' = [result EXCEPT ![0] = v] /\ launch' = launch
         /\ TotalInv(launch, "combine", i, v)
         /\ ShareInv(launch, "combine", i, reg[t], scratch[t], t)
    BY <2>1, <2>4, <2>7, <2>11, <2>12, <2>13
  <2>15. /\ reg' = [reg EXCEPT ![t] = reg[t]] /\ scratch' = [scratch EXCEPT ![t] = scratch[t]]
         /\ reg[t] \in Int /\ scratch[t] \in Int
    BY <1>4, <2>1
  <2>16. QED
    BY <2>2, <2>10, <2>14, <2>15, OneShare
<1>10. ASSUME NEW t \in Threads, Return(t) PROVE ReductionInv'
  <2>1. /\ pc[t] = "combine" /\ idx[t] = NumThreads /\ pc' = [pc EXCEPT ![t] = "done"]
        /\ launch' = launch /\ reg' = reg /\ scratch' = scratch /\ idx' = idx /\ result' = result
    BY <1>10 DEF Return
  <2>2. t = 0
    BY <2>1 DEF RaceInv, BarrierInv
  <2>3. TotalInv(launch, "done", idx[t], result[0])
    <3>1. IsShare(launch, result[0], Covered(n, NumThreads))
      BY <1>1, <1>2, <2>1, <2>2 DEF TotalInv
    <3>2. QED
      BY <1>1, <3>1, CoveredEnds DEF TotalInv
  <2>4. ShareInv(launch, "done", idx[t], reg[t], scratch[t], t)
    BY <1>2, <2>1 DEF ShareInv
  <2>5. PICK i : i = idx[t]
    OBVIOUS
  <2>6. /\ TotalInv(launch, "done", i, result[0]) /\ idx' = [idx EXCEPT ![t] = i]
        /\ ShareInv(launch, "done", i, reg[t], scratch[t], t)
    BY <1>4, <2>1, <2>3, <2>4, <2>5
  <2>7. /\ reg' = [reg EXCEPT ![t] = reg[t]] /\ scratch' = [scratch EXCEPT ![t] = scratch[t]]
        /\ result' = [result EXCEPT ![0] = result[0]]
        /\ reg[t] \in Int /\ scratch[t] \in Int /\ result[0] \in Int
    BY <1>4, <2>1
  <2>8. QED
    BY <2>1, <2>2, <2>6, <2>7, OneShare
<1>11. CASE UNCHANGED vars
  BY <1>2, <1>11 DEF vars, ReductionInv, kernel, n
<1>12. ASSUME NEW t \in Threads
       PROVE  ~(\/ WriteElement(t) \/ AtomicAdd(t) \/ AtomicSub(t) \/ LoadOld(t)
                \/ CasMax(t) \/ CasMin(t))
  BY DEF WriteElement, AtomicAdd, AtomicSub, LoadOld, CasMax, CasMin, RaceInv, FamilyInv,
         Reductions, BeforeMax, AfterMax
<1>13. QED
  BY <1>5, <1>6, <1>7, <1>8, <1>9, <1>10, <1>11, <1>12 DEF Next, Step, Synchronized

-----------------------------------------------------------------------------
(* Kernels over the grid.                                                   *)

RowOf(l, i) ==
    MapThenSumSet(LAMBDA j : l.mat.val[j] * l.x[l.mat.ja[j]], l.mat.ia[i] .. l.mat.ia[i + 1] - 1)

Written(l, i) == IF l.kernel = "axpy" THEN l.alpha * l.x[i] + l.out[i] ELSE RowOf(l, i)

\* the entries of a thread: new up to its loop variable, as they were from there on
EntriesInv(l, p, i, res, t) ==
    /\ p = "done" => i >= l.n
    /\ \A j \in Mine(l.n, t) : res[j] = IF j < i THEN Written(l, j) ELSE l.out[j]

GridInv ==
    kernel \in {"axpy", "matvec"} =>
        /\ result = [i \in Slots |-> result[i]]
        /\ \A t \in Threads : EntriesInv(launch, pc[t], idx[t], result, t)

LEMMA GridInit == Init => GridInv
<1> SUFFICES ASSUME Init PROVE GridInv
  OBVIOUS
<1>1. launch.out \in [Slots -> Int] /\ n \in Nat
  BY LaunchFacts DEF Init
<1>2. ASSUME NEW t \in Threads PROVE EntriesInv(launch, pc[t], idx[t], result, t)
  <2>1. pc[t] = "enter" /\ idx[t] = t /\ result = launch.out
    BY DEF Init
  <2>2. \A j \in Mine(launch.n, t) : ~(j < t)
    BY <1>1, TakenFirst DEF Taken, Mine, n
  <2>3. QED
    BY <2>1, <2>2 DEF EntriesInv
<1>3. QED
  BY <1>1, <1>2 DEF GridInv, Init

LEMMA GridStep == RaceInv /\ GridInv /\ [Next]_vars => GridInv'
<1> SUFFICES ASSUME RaceInv, GridInv, [Next]_vars, kernel \in {"axpy", "matvec"} PROVE GridInv'
  BY SameLaunch DEF kernel, GridInv
<1>1. /\ launch' = launch /\ kernel' = kernel /\ n \in Nat /\ launch.n = n
      /\ launch.kernel = kernel /\ launch.x = x
      /\ NumThreads \in Nat /\ NumThreads > 0
      /\ pc \in [Threads -> PCs] /\ idx \in [Threads -> Nat] /\ launch \in Launches
  BY SameLaunch, LaunchFacts, NumThreadsAssumption DEF RaceInv, TypeInv, n, kernel, x
<1>2. /\ result = [i \in Slots |-> result[i]]
      /\ \A t \in Threads : EntriesInv(launch, pc[t], idx[t], result, t)
  BY DEF GridInv
<1>3. ASSUME NEW t \in Threads, NEW p, pc' = [pc EXCEPT ![t] = p],
             UNCHANGED <<idx, result>>, p = "done" => idx[t] >= n
      PROVE  GridInv'
  <2>1. \A u \in Threads : EntriesInv(launch, pc'[u], idx'[u], result', u)
    BY <1>1, <1>2, <1>3 DEF EntriesInv
  <2>2. QED
    BY <1>1, <1>2, <1>3, <2>1 DEF GridInv
<1>4. ASSUME NEW t \in Threads, Enter(t) PROVE GridInv'
  BY <1>3, <1>4 DEF Enter
<1>5. ASSUME NEW t \in Threads, Return(t) PROVE GridInv'
  <2>1. pc[t] = "loop" /\ idx[t] >= n
    BY <1>5 DEF Return, RaceInv, FamilyInv, Reductions
  <2>2. QED
    BY <1>3, <1>5, <2>1 DEF Return
<1>6. ASSUME NEW t \in Threads, WriteElement(t) PROVE GridInv'
  <2>1. PICK i \in Visited(t) : i = idx[t]
    BY <1>1 DEF RaceInv, StrideInv, Reductions
  <2>2. /\ pc[t] = "loop" /\ i \in Nat /\ i < n /\ i \in Mine(n, t) /\ i \in Slots
        /\ pc' = pc /\ idx' = [idx EXCEPT ![t] = i + NumThreads]
    <3>1. pc[t] = "loop" /\ i < n /\ pc' = pc /\ idx' = [idx EXCEPT ![t] = i + NumThreads]
      BY <1>1, <1>6, <2>1 DEF WriteElement, InLoop, Strided
    <3>2. i \in Nat /\ n \in 0 .. MaxElements
      BY <1>1, <2>1, LaunchesAssumption DEF n
    <3>3. QED
      BY <1>1, <3>1, <3>2, MaxElementsAssumption DEF Mine, Slots
  <2>3. result'[i] = Written(launch, i)
    <3>1. result[i] = launch.out[i]
      BY <1>1, <1>2, <2>1, <2>2 DEF EntriesInv
    <3>2. RowProduct(i) = RowOf(launch, i)
      BY DEF RowProduct, RowOf, MapThenSumSet, MapThenFoldSet, x
    <3>3. result'[i] = IF kernel = "axpy" THEN launch.alpha * x[i] + result[i] ELSE RowProduct(i)
      BY <1>2, <1>6, <2>1, <2>2 DEF WriteElement
    <3>4. QED
      BY <1>1, <3>1, <3>2, <3>3 DEF Written
  <2>4. result' = [j \in Slots |-> result'[j]] /\ \A j : j # i => result'[j] = result[j]
    BY <1>2, <1>6, <2>1 DEF WriteElement
  <2>5. EntriesInv(launch, pc'[t], idx'[t], result', t)
    <3>1. ASSUME NEW j \in Mine(n, t)
          PROVE  result'[j] = IF j < i + NumThreads THEN Written(launch, j) ELSE launch.out[j]
      <4>1. j \in Visited(t) /\ j \in Nat
        BY DEF Mine, Visited
      <4>2. j < i + NumThreads <=> j < i \/ j = i
        BY <1>1, <2>2, <4>1, NextVisited
      <4>3. j # i => result'[j] = IF j < i THEN Written(launch, j) ELSE launch.out[j]
        BY <1>1, <1>2, <2>1, <2>4 DEF EntriesInv
      <4>4. QED
        BY <2>3, <4>2, <4>3
    <3>2. pc'[t] = "loop" /\ idx'[t] = i + NumThreads
      BY <1>1, <2>2
    <3>3. QED
      BY <1>1, <3>1, <3>2 DEF EntriesInv
  <2>6. ASSUME NEW u \in Threads, u # t PROVE EntriesInv(launch, pc'[u], idx'[u], result', u)
    <3>1. \A j \in Mine(n, u) : j # i
      BY <2>1, <2>6, VisitedOnce DEF Mine
    <3>2. pc'[u] = pc[u] /\ idx'[u] = idx[u]
      BY <1>1, <2>2, <2>6
    <3>3. EntriesInv(launch, pc[u], idx[u], result, u)
      BY <1>2
    <3>4. QED
      BY <1>1, <2>4, <3>1, <3>2, <3>3 DEF EntriesInv
  <2>7. QED
    BY <1>1, <2>4, <2>5, <2>6 DEF GridInv
<1>7. CASE UNCHANGED vars
  BY <1>2, <1>7 DEF vars, GridInv
<1>8. ASSUME NEW t \in Threads
      PROVE  ~(\/ Accumulate(t) \/ Arrive(t) \/ SyncThreads(t) \/ Combine(t)
               \/ AtomicAdd(t) \/ AtomicSub(t) \/ LoadOld(t) \/ CasMax(t) \/ CasMin(t))
  BY DEF Accumulate, Arrive, SyncThreads, BarrierOpen, Combine, AtomicAdd, AtomicSub, LoadOld,
         CasMax, CasMin, RaceInv, FamilyInv, Reductions, BeforeMax, AfterMax
<1>9. QED
  BY <1>4, <1>5, <1>6, <1>7, <1>8 DEF Next, Step, Synchronized

LEMMA GridIsExact ==
    ASSUME RaceInv, GridInv, AllDone, kernel \in {"axpy", "matvec"}, NEW i \in 0 .. n - 1
    PROVE  /\ kernel = "axpy" => result[i] = launch.alpha * x[i] + launch.out[i]
           /\ kernel = "matvec" => result[i] = RowProduct(i)
<1>1. n \in Nat /\ i \in Nat /\ i < n
  BY LaunchFacts DEF RaceInv, TypeInv
<1>2. PICK t \in Threads : i \in Visited(t)
  BY <1>1, VisitedByAll
<1>3. i \in Mine(n, t) /\ idx[t] \in Nat /\ EntriesInv(launch, "done", idx[t], result, t)
  BY <1>1, <1>2 DEF Mine, RaceInv, TypeInv, GridInv, AllDone
<1>4. idx[t] >= n /\ i < idx[t]
  BY <1>1, <1>3 DEF EntriesInv, n
<1>5. result[i] = Written(launch, i)
  BY <1>3, <1>4 DEF EntriesInv, n
<1>6. RowProduct(i) = RowOf(launch, i)
  BY DEF RowProduct, RowOf, MapThenSumSet, MapThenFoldSet, x
<1>7. QED
  BY <1>5, <1>6 DEF Written, kernel, x

-----------------------------------------------------------------------------
(* Atomic additions and subtractions.                                       *)

\* with an element past its addition, past its subtraction
AddDone == BeforeMax \union AfterMax
SubDone == AddDone \ {"sub"}

\* of m elements the ones a thread, all threads, are done with: after the points W
\* of the loop body the element at the loop variable counts too
Past(m, p, i, t, W) == {j \in Visited(t) : j < m /\ (j < i \/ (j = i /\ p \in W))}
AllPast(m, pcs, ids, W) ==
    {j \in 0 .. m - 1 : \E t \in Threads : j \in Past(m, pcs[t], ids[t], t, W)}

SumInv ==
    kernel = "atomics" =>
        /\ result[0] = launch.out[0] + Total(x, AllPast(n, pc, idx, AddDone))
        /\ result[1] = launch.out[1] - Total(x, AllPast(n, pc, idx, SubDone))

LEMMA PastFinite ==
    ASSUME NEW m \in Nat, NEW f, NEW g, NEW W
    PROVE  AllPast(m, f, g, W) \subseteq 0 .. m - 1 /\ IsFiniteSet(AllPast(m, f, g, W))
<1>1. 0 \in Int /\ m - 1 \in Int
  OBVIOUS
<1>2. IsFiniteSet(0 .. m - 1)
  BY <1>1, FS_Interval
<1>3. QED
  BY <1>2, FS_Subset DEF AllPast

\* a step that leaves every thread done with the same elements
LEMMA PastKept ==
    ASSUME NEW m, NEW W, NEW f, NEW g, NEW h, NEW k,
           \A u \in Threads : Past(m, h[u], k[u], u, W) = Past(m, f[u], g[u], u, W)
    PROVE  AllPast(m, h, k, W) = AllPast(m, f, g, W)
BY DEF AllPast

\* the point of the loop body after which the element counts
LEMMA PastMore ==
    ASSUME NEW m \in Nat, NEW t \in Threads, NEW W,
           NEW f \in [Threads -> PCs], NEW g \in [Threads -> Nat], NEW p \in W, f[t] \notin W,
           g[t] \in Visited(t), g[t] < m
    PROVE  /\ AllPast(m, [f EXCEPT ![t] = p], g, W) = AllPast(m, f, g, W) \union {g[t]}
           /\ g[t] \notin AllPast(m, f, g, W) /\ g[t] \in 0 .. m - 1
<1> DEFINE h == [f EXCEPT ![t] = p]
<1>1. PICK i \in Visited(t) : i = g[t]
  OBVIOUS
<1>2. i \in Nat /\ i < m /\ i \in 0 .. m - 1 /\ ~(i < i)
  BY <1>1
<1>3. Past(m, h[t], i, t, W) = Past(m, f[t], i, t, W) \union {i}
  BY <1>1, <1>2 DEF Past
<1>4. \A u \in Threads : u # t => h[u] = f[u]
  OBVIOUS
<1>5. AllPast(m, h, g, W) = AllPast(m, f, g, W) \union {i}
  <2>1. \A u \in Threads : u # t => Past(m, h[u], g[u], u, W) = Past(m, f[u], g[u], u, W)
    BY <1>4
  <2> HIDE DEF h
  <2>2. QED
    BY <1>1, <1>2, <1>3, <2>1 DEF AllPast
<1>6. i \notin AllPast(m, f, g, W)
  <2>1. SUFFICES ASSUME NEW u \in Threads, i \in Past(m, f[u], g[u], u, W) PROVE FALSE
    BY DEF AllPast
  <2>2. u = t
    BY <2>1, VisitedOnce DEF Past
  <2>3. QED
    BY <1>1, <1>2, <2>1, <2>2 DEF Past
<1>7. QED
  BY <1>1, <1>2, <1>5, <1>6

LEMMA SumInit == Init => SumInv
<1> SUFFICES ASSUME Init PROVE SumInv
  OBVIOUS
<1>1. launch.out \in [Slots -> Int] /\ {0, 1, 2, 3} \subseteq Slots /\ n \in Nat
  BY LaunchFacts DEF Init
<1>2. ASSUME NEW W, "enter" \notin W PROVE AllPast(n, pc, idx, W) = {}
  <2>1. ASSUME NEW t \in Threads PROVE Past(n, pc[t], idx[t], t, W) = {}
    <3>1. pc[t] = "enter" /\ idx[t] = t
      BY DEF Init
    <3>2. Past(n, "enter", t, t, W) = Taken(n, t, t)
      BY <1>2 DEF Past, Taken
    <3>3. QED
      BY <1>1, <3>1, <3>2, TakenFirst
  <2>2. QED
    BY <2>1 DEF AllPast
<1>3. "enter" \notin AddDone /\ "enter" \notin SubDone
  BY DEF AddDone, SubDone, BeforeMax, AfterMax
<1>4. Total(x, AllPast(n, pc, idx, AddDone)) = 0 /\ Total(x, AllPast(n, pc, idx, SubDone)) = 0
  BY <1>2, <1>3, TotalEmpty
<1>5. result[0] = launch.out[0] /\ launch.out[0] \in Int
      /\ result[1] = launch.out[1] /\ launch.out[1] \in Int
  BY <1>1 DEF Init
<1>6. QED
  BY <1>4, <1>5 DEF SumInv

LEMMA SumStep == RaceInv /\ AtomicInv /\ SumInv /\ [Next]_vars => SumInv'
<1> SUFFICES ASSUME RaceInv, AtomicInv, SumInv, [Next]_vars, kernel = "atomics" PROVE SumInv'
  BY SameLaunch DEF kernel, SumInv
<1> DEFINE Sum0(f, g) == Total(x, AllPast(n, f, g, AddDone))
           Sum1(f, g) == Total(x, AllPast(n, f, g, SubDone))
<1>1. /\ launch' = launch /\ kernel' = kernel /\ n' = n /\ x' = x
      /\ n \in Nat /\ launch \in Launches /\ x \in [0 .. n - 1 -> Int]
      /\ launch.out \in [Slots -> Int] /\ {0, 1, 2, 3} \subseteq Slots
      /\ pc \in [Threads -> PCs] /\ idx \in [Threads -> Nat]
  BY SameLaunch, LaunchFacts DEF RaceInv, TypeInv, n, kernel, x
<1>2. /\ result \in [Slots -> Int]
      /\ \A t \in Threads : pc[t] \in BeforeMax \union AfterMax => idx[t] < n
  BY DEF AtomicInv, AtomicTypeInv
<1>3. /\ result[0] = launch.out[0] + Sum0(pc, idx) /\ result[1] = launch.out[1] - Sum1(pc, idx)
  BY DEF SumInv
<1>4. \A t \in Threads : idx[t] \in Visited(t)
  BY DEF RaceInv, StrideInv, Reductions
<1>5. SUFFICES /\ result'[0] = launch.out[0] + Sum0(pc', idx')
               /\ result'[1] = launch.out[1] - Sum1(pc', idx')
  BY <1>1 DEF SumInv
<1>6. ASSUME NEW W PROVE Total(x, AllPast(n, pc, idx, W)) \in Int
  <2>1. PICK S : S = AllPast(n, pc, idx, W)
    OBVIOUS
  <2>2. IsFiniteSet(S) /\ \A j \in S : x[j] \in Int
    BY <1>1, <2>1, PastFinite
  <2>3. QED
    BY <2>1, <2>2, TotalInt
\* the points of the loop body that do not count an element, or have counted it
<1>7. ASSUME NEW t \in Threads, NEW p, pc' = [pc EXCEPT ![t] = p], idx' = idx,
             NEW W, p \in W <=> pc[t] \in W
      PROVE  AllPast(n, pc', idx', W) = AllPast(n, pc, idx, W)
  <2>1. Past(n, p, idx[t], t, W) = Past(n, pc[t], idx[t], t, W)
    BY <1>7 DEF Past
  <2>2. \A u \in Threads : Past(n, pc'[u], idx'[u], u, W) = Past(n, pc[u], idx[u], u, W)
    BY <1>1, <1>7, <2>1
  <2>3. QED
    BY <2>2, PastKept
\* an element is counted
<1>8. ASSUME NEW t \in Threads, NEW W, NEW p \in W, pc' = [pc EXCEPT ![t] = p], idx' = idx,
             pc[t] \notin W, idx[t] < n
      PROVE  Total(x, AllPast(n, pc', idx', W)) = x[idx[t]] + Total(x, AllPast(n, pc, idx, W))
  <2>1. PICK S : S = AllPast(n, pc, idx, W)
    OBVIOUS
  <2>2. /\ AllPast(n, pc', idx', W) = S \union {idx[t]} /\ idx[t] \notin S
        /\ idx[t] \in 0 .. n - 1 /\ IsFiniteSet(S) /\ S \subseteq 0 .. n - 1
    <3>1. /\ AllPast(n, [pc EXCEPT ![t] = p], idx, W) = AllPast(n, pc, idx, W) \union {idx[t]}
          /\ idx[t] \notin AllPast(n, pc, idx, W) /\ idx[t] \in 0 .. n - 1
      BY <1>1, <1>4, <1>8, PastMore
    <3>2. IsFiniteSet(S) /\ S \subseteq 0 .. n - 1
      BY <1>1, <2>1, PastFinite
    <3>3. QED
      BY <1>8, <2>1, <3>1, <3>2
  <2>3. \A j \in S \union {idx[t]} : x[j] \in Int
    BY <1>1, <2>2
  <2>4. QED
    BY <2>1, <2>2, <2>3, TotalAdds
<1>9. ASSUME NEW t \in Threads, NEW p, pc' = [pc EXCEPT ![t] = p], idx' = idx,
             result'[0] = result[0], result'[1] = result[1],
             p \in AddDone <=> pc[t] \in AddDone, p \in SubDone <=> pc[t] \in SubDone
      PROVE  /\ result'[0] = launch.out[0] + Sum0(pc', idx')
             /\ result'[1] = launch.out[1] - Sum1(pc', idx')
  BY <1>3, <1>7, <1>9
<1>10. ASSUME NEW t \in Threads, AtomicAdd(t)
       PROVE  /\ result'[0] = launch.out[0] + Sum0(pc', idx')
              /\ result'[1] = launch.out[1] - Sum1(pc', idx')
  <2>1. PICK d \in Int : d = x[idx[t]]
    BY <1>1, <1>10 DEF AtomicAdd, InLoop
  <2>2. /\ pc[t] = "loop" /\ idx[t] < n /\ pc' = [pc EXCEPT ![t] = "sub"] /\ idx' = idx
        /\ result'[0] = result[0] + d /\ result'[1] = result[1]
    BY <1>1, <1>2, <1>10, <2>1 DEF AtomicAdd, InLoop
  <2>3. /\ "sub" \in AddDone /\ "loop" \notin AddDone
        /\ "sub" \notin SubDone /\ "loop" \notin SubDone
    BY DEF AddDone, SubDone, BeforeMax, AfterMax
  <2>4. Sum0(pc', idx') = d + Sum0(pc, idx)
    BY <1>8, <2>1, <2>2, <2>3
  <2>5. Sum1(pc', idx') = Sum1(pc, idx)
    BY <1>7, <2>2, <2>3
  <2>6. Sum0(pc, idx) \in Int /\ launch.out[0] \in Int
    BY <1>1, <1>6
  <2> HIDE DEF Sum0, Sum1
  <2>7. QED
    BY <1>3, <2>2, <2>4, <2>5, <2>6
<1>11. ASSUME NEW t \in Threads, AtomicSub(t)
       PROVE  /\ result'[0] = launch.out[0] + Sum0(pc', idx')
              /\ result'[1] = launch.out[1] - Sum1(pc', idx')
  <2>1. pc[t] = "sub" /\ idx[t] < n /\ pc' = [pc EXCEPT ![t] = "max"] /\ idx' = idx
    BY <1>2, <1>11 DEF AtomicSub, BeforeMax
  <2>2. PICK d \in Int : d = x[idx[t]]
    BY <1>1, <2>1
  <2>3. result'[0] = result[0] /\ result'[1] = result[1] - d
    BY <1>1, <1>2, <1>11, <2>2 DEF AtomicSub
  <2>4. /\ "sub" \in AddDone /\ "max" \in AddDone
        /\ "sub" \notin SubDone /\ "max" \in SubDone
    BY DEF AddDone, SubDone, BeforeMax, AfterMax
  <2>5. Sum0(pc', idx') = Sum0(pc, idx)
    BY <1>7, <2>1, <2>4
  <2>6. Sum1(pc', idx') = d + Sum1(pc, idx)
    BY <1>8, <2>1, <2>2, <2>4
  <2>7. Sum1(pc, idx) \in Int /\ launch.out[1] \in Int
    BY <1>1, <1>6
  <2> HIDE DEF Sum0, Sum1
  <2>8. QED
    BY <1>3, <2>2, <2>3, <2>5, <2>6, <2>7
<1>12. ASSUME NEW t \in Threads, Enter(t) \/ LoadOld(t) \/ CasMax(t) \/ Return(t)
       PROVE  /\ result'[0] = launch.out[0] + Sum0(pc', idx')
              /\ result'[1] = launch.out[1] - Sum1(pc', idx')
  <2>1. idx' = idx /\ result'[0] = result[0] /\ result'[1] = result[1]
    BY <1>1, <1>2, <1>12 DEF Enter, LoadOld, CasMax, Return
  <2>2. PICK p \in PCs : /\ pc' = [pc EXCEPT ![t] = p]
                         /\ \/ pc[t] \in {"enter", "loop"} /\ p \in {"loop", "done"}
                            \/ /\ pc[t] \in {"max", "min", "cas_max"}
                               /\ p \in {"cas_max", "cas_min", "min"}
    <3>1. pc = [pc EXCEPT ![t] = pc[t]]
      BY <1>1
    <3>2. CASE Enter(t)
      BY <3>2 DEF Enter, PCs
    <3>3. CASE LoadOld(t)
      BY <3>3 DEF LoadOld, PCs, BeforeMax, AfterMax
    <3>4. CASE CasMax(t)
      BY <3>1, <3>4 DEF CasMax, PCs, BeforeMax, AfterMax
    <3>5. CASE Return(t)
      BY <3>5 DEF Return, PCs, RaceInv, FamilyInv, Reductions
    <3>6. QED
      BY <1>12, <3>2, <3>3, <3>4, <3>5
  <2>3. p \in AddDone <=> pc[t] \in AddDone
    BY <2>2 DEF AddDone, BeforeMax, AfterMax
  <2>4. p \in SubDone <=> pc[t] \in SubDone
    BY <2>2 DEF AddDone, SubDone, BeforeMax, AfterMax
  <2>5. QED
    BY <1>9, <2>1, <2>2, <2>3, <2>4
<1>13. ASSUME NEW t \in Threads, CasMin(t)
       PROVE  /\ result'[0] = launch.out[0] + Sum0(pc', idx')
              /\ result'[1] = launch.out[1] - Sum1(pc', idx')
  <2>1. pc[t] = "cas_min" /\ idx[t] < n /\ result'[0] = result[0] /\ result'[1] = result[1]
    BY <1>1, <1>2, <1>13 DEF CasMin, AfterMax
  <2>2. CASE UNCHANGED <<pc, idx>>
    BY <1>3, <2>1, <2>2
  <2>3. CASE pc' = [pc EXCEPT ![t] = "loop"] /\ idx' = Strided(t)
    <3>1. PICK i \in Visited(t) : i = idx[t]
      BY <1>4
    <3>2. i < n /\ i \in Nat /\ idx' = [idx EXCEPT ![t] = i + NumThreads]
      BY <1>1, <2>1, <2>3, <3>1 DEF Strided, Visited
    <3>3. ASSUME NEW W, "cas_min" \in W, "loop" \notin W
          PROVE  AllPast(n, pc', idx', W) = AllPast(n, pc, idx, W)
      <4>1. Taken(n, i + NumThreads, t) = Taken(n, i, t) \union {i}
        BY <1>1, <3>2, TakenNext
      <4>2. Past(n, "loop", i + NumThreads, t, W) = Taken(n, i + NumThreads, t)
        BY <3>3 DEF Past, Taken
      <4>3. Past(n, "cas_min", i, t, W) = Taken(n, i, t) \union {i}
        BY <3>2, <3>3 DEF Past, Taken
      <4>4. Past(n, "loop", i + NumThreads, t, W) = Past(n, pc[t], idx[t], t, W)
        BY <2>1, <3>1, <4>1, <4>2, <4>3
      <4>5. \A u \in Threads : Past(n, pc'[u], idx'[u], u, W) = Past(n, pc[u], idx[u], u, W)
        BY <1>1, <2>3, <3>2, <4>4
      <4>6. QED
        BY <4>5, PastKept
    <3>4. /\ "cas_min" \in AddDone /\ "loop" \notin AddDone
          /\ "cas_min" \in SubDone /\ "loop" \notin SubDone
      BY DEF AddDone, SubDone, BeforeMax, AfterMax
    <3>5. QED
      BY <1>3, <2>1, <3>3, <3>4
  <2>4. QED
    BY <1>13, <2>2, <2>3 DEF CasMin
<1>14. CASE UNCHANGED vars
  BY <1>3, <1>14 DEF vars
<1>15. ASSUME NEW t \in Threads
       PROVE  ~Accumulate(t) /\ ~Arrive(t) /\ ~SyncThreads(t) /\ ~Combine(t) /\ ~WriteElement(t)
  BY DEF Accumulate, Arrive, SyncThreads, BarrierOpen, Combine, WriteElement,
         RaceInv, FamilyInv, Reductions
<1>16. QED
  <2> HIDE DEF Sum0, Sum1
  <2>1. QED
    BY <1>10, <1>11, <1>12, <1>13, <1>14, <1>15 DEF Next, Step, Synchronized

LEMMA SumIsExact ==
    ASSUME RaceInv, AtomicInv, SumInv, AllDone, kernel = "atomics"
    PROVE  /\ result[0] = launch.out[0] + Total(x, 0 .. n - 1)
           /\ result[1] = launch.out[1] - Total(x, 0 .. n - 1)
<1>1. n \in Nat /\ idx \in [Threads -> Nat] /\ \A t \in Threads : idx[t] >= n
  BY LaunchFacts DEF RaceInv, TypeInv, AtomicInv, AtomicTypeInv, AllDone
<1>2. ASSUME NEW W PROVE AllPast(n, pc, idx, W) = 0 .. n - 1
  <2>1. ASSUME NEW j \in 0 .. n - 1 PROVE j \in AllPast(n, pc, idx, W)
    <3>1. j \in Nat /\ j < n
      BY <1>1
    <3>2. PICK t \in Threads : j \in Visited(t)
      BY <3>1, VisitedByAll
    <3>3. j < idx[t]
      BY <1>1, <3>1
    <3>4. QED
      BY <3>1, <3>2, <3>3 DEF AllPast, Past
  <2>2. QED
    BY <2>1 DEF AllPast
<1>3. QED
  BY <1>2 DEF SumInv

-----------------------------------------------------------------------------
(* The theorem.                                                             *)

ExactInv == RaceInv /\ AtomicInv /\ ReductionInv /\ GridInv /\ SumInv

LEMMA ExactInvImplies == ExactInv => ResultIsExact
<1> SUFFICES ASSUME ExactInv, AllDone
             PROVE  /\ kernel \in Reductions => result[0] = Expected
                    /\ kernel = "axpy" =>
                           \A i \in 0 .. n - 1 : result[i] = launch.alpha * x[i] + launch.out[i]
                    /\ kernel = "matvec" =>
                           \A i \in 0 .. n - 1 :
                               result[i] = MapThenSumSet(LAMBDA j : Dense(i, j) * x[j], 0 .. n - 1)
                    /\ kernel = "atomics" =>
                           LET total == MapThenSumSet(LAMBDA i : x[i], 0 .. n - 1)
                           IN  /\ result[0] = launch.out[0] + total
                               /\ result[1] = launch.out[1] - total
  BY DEF ResultIsExact
<1>1. /\ RaceInv /\ AtomicInv /\ ReductionInv /\ GridInv /\ SumInv
      /\ launch \in Launches /\ n \in Nat
  BY LaunchFacts DEF ExactInv, RaceInv, TypeInv
<1>2. ASSUME kernel \in Reductions PROVE result[0] = Expected
  <2>1. /\ kernel = "linf" => n >= NumThreads
        /\ TotalInv(launch, pc[0], idx[0], result[0])
    BY <1>1, <1>2 DEF ReductionInv
  <2>2. pc[0] = "done" /\ NumThreads > 0 /\ NumThreads \in Nat
    BY NumThreadsAssumption DEF AllDone, Threads
  <2>3. IsShare(launch, result[0], 0 .. n - 1)
    BY <2>1, <2>2 DEF TotalInv, n
  <2>4. QED
    BY <1>1, <1>2, <2>1, <2>2, <2>3, ShareOfAll
<1>3. ASSUME kernel = "axpy", NEW i \in 0 .. n - 1
      PROVE  result[i] = launch.alpha * x[i] + launch.out[i]
  BY <1>1, <1>3, GridIsExact
<1>4. ASSUME kernel = "matvec", NEW i \in 0 .. n - 1
      PROVE  result[i] = MapThenSumSet(LAMBDA j : Dense(i, j) * x[j], 0 .. n - 1)
  <2>1. result[i] = RowProduct(i)
    BY <1>1, <1>4, GridIsExact
  <2>2. RowProduct(i) = MapThenSumSet(LAMBDA j : Dense(i, j) * x[j], 0 .. n - 1)
    BY <1>1, <1>4, RowIsDense
  <2>3. QED
    BY <2>1, <2>2
<1>5. ASSUME kernel = "atomics"
      PROVE  LET total == MapThenSumSet(LAMBDA i : x[i], 0 .. n - 1)
             IN  result[0] = launch.out[0] + total /\ result[1] = launch.out[1] - total
  <2>1. Total(x, 0 .. n - 1) = MapThenSumSet(LAMBDA i : x[i], 0 .. n - 1)
    BY DEF Total, MapThenSumSet, MapThenFoldSet
  <2>2. QED
    BY <1>1, <1>5, <2>1, SumIsExact
<1>6. QED
  BY <1>2, <1>3, <1>4, <1>5

\* Every kernel computes what its sequential loop would, for any number of threads,
\* any vectors and any schedule: the norms and products of a single block, the
\* entries of axpy and of the sparse product, and the sums of the atomics.  The two
\* obligations of the callers are needed: linf wants an element for every thread,
\* variant 1 of l1 a cleared thread_result.
THEOREM ResultsAlwaysExact ==
    ASSUME "linf_length" \notin Waived, "l1_scratch" \notin Waived
    PROVE  Spec => []ResultIsExact
<1>1. Init => ExactInv
  BY RaceInit, AtomicInit, ReductionInit, GridInit, SumInit DEF ExactInv
<1>2. ExactInv /\ [Next]_vars => ExactInv'
  BY RaceStep, AtomicStep, ReductionStep, GridStep, SumStep DEF ExactInv
<1>3. QED
  BY <1>1, <1>2, ExactInvImplies, PTL DEF Spec
=============================================================================
