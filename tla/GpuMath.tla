------------------------------ MODULE GpuMath ------------------------------
(***************************************************************************)
(* The kernels of gpu_math_api_functions.cpp and the atomics of             *)
(* gpu_atomics.h, thread by thread.  A launch runs one functor on every     *)
(* thread; a thread visits the elements tid, tid + stride, ... and all      *)
(* threads share device memory.  The reductions run in a single block:      *)
(* each thread leaves its share in thread_result, the block meets at        *)
(* sync_threads, and thread 0 adds the shares up.                           *)
(*                                                                         *)
(* Numbers are integers, so that a result does not depend on the order of   *)
(* the additions.  The variants that call cuBLAS or cuSPARSE are external.  *)
(***************************************************************************)
EXTENDS Integers, FiniteSetsExt

CONSTANTS
    NumThreads,   \* gridDim * blockDim, SINGLE_WG_SIZE for a single block
    MaxElements,  \* bound on the number of elements of a vector
    Huge,         \* numeric_limits::max()
    Junk,         \* what malloc_gpu_var may leave in thread_result
    Launches,     \* the kernels and their arguments to consider
    Waived        \* obligations of the callers that this instance ignores

Obligations == {"l1_scratch", "linf_length"}

Threads == 0 .. NumThreads - 1
Elements == 0 .. MaxElements - 1

\* the entries of the result that kernels write; atomics use four of them
Slots == 0 .. (IF MaxElements < 4 THEN 3 ELSE MaxElements - 1)

Reductions == {"dot", "linf", "l0", "l1", "sum"}
Kernels == Reductions \union {"axpy", "matvec", "atomics"}

ASSUME NumThreadsAssumption == NumThreads \in Nat \ {0}
ASSUME MaxElementsAssumption == MaxElements \in Nat
ASSUME NumbersAssumption == Huge \in Nat /\ Junk \subseteq Int
ASSUME WaivedAssumption == Waived \subseteq Obligations

\* num_elements, the vectors x and y, the sparse matrix, whose entries lie in
\* the columns of x, and what the result holds at the launch (y itself for
\* axpy, the first extrema for atomics)
ASSUME LaunchesAssumption ==
    \A l \in Launches :
        /\ l.kernel \in Kernels
        /\ l.n \in 0..MaxElements
        /\ l.x \in [0 .. l.n - 1 -> Int]
        /\ l.kernel = "dot" => l.y \in [0 .. l.n - 1 -> Int]
        /\ l.kernel = "matvec" =>
               \A i \in 0 .. l.n - 1 :
                   /\ l.mat.ia[i] \in Int /\ l.mat.ia[i + 1] \in Int
                   /\ \A k \in l.mat.ia[i] .. l.mat.ia[i + 1] - 1 :
                          l.mat.ja[k] \in 0 .. l.n - 1 /\ l.mat.val[k] \in Int
        /\ l.out \in [Slots -> Int]

VARIABLES
    launch,   \* the kernel and its arguments
    pc,       \* where each thread is
    idx,      \* the loop variable of each thread
    reg,      \* local_result, or old of a compare-and-swap loop
    scratch,  \* thread_result
    result    \* the memory the kernel writes

vars == <<launch, pc, idx, reg, scratch, result>>

kernel == launch.kernel
n == launch.n
x == launch.x
y == launch.y

-----------------------------------------------------------------------------
(* One element, one share.                                                  *)

Larger(a, b) == IF a >= b THEN a ELSE b
Abs(a) == IF a >= 0 THEN a ELSE -a

\* where a share and the result begin
Neutral == IF kernel = "linf" THEN -Huge ELSE 0

\* a share with element i taken in
Gathered(share, i) ==
    CASE kernel = "dot"  -> share + x[i] * y[i]
      [] kernel = "linf" -> Larger(share, Abs(x[i]))
      [] kernel = "l0"   -> share + (IF x[i] # 0 THEN 1 ELSE 0)
      [] kernel = "l1"   -> share + Abs(x[i])
      [] kernel = "sum"  -> share + x[i]

\* the result with a share taken in
Combined(value, share) ==
    IF kernel = "linf" THEN Larger(value, Abs(share)) ELSE value + share

\* a row of the product with a matrix in compressed row storage
RowProduct(i) ==
    LET m == launch.mat
    IN  MapThenSumSet(LAMBDA j : m.val[j] * x[m.ja[j]], m.ia[i] .. m.ia[i + 1] - 1)

-----------------------------------------------------------------------------
(* Launch.                                                                  *)

\* memset_gpu_var between malloc_gpu_var and the launch; dot and linf write a
\* share before they read it, variant 1 of l1 does neither
SumNotCleared == {"linf", "l0"}                        \* mutant
Cleared == {"linf", "l0", "sum"}

ThreadResult ==
    [Threads -> IF kernel \in Cleared
                THEN {0}
                ELSE IF kernel = "l1" /\ "l1_scratch" \notin Waived THEN {0}
                ELSE IF kernel \in Reductions THEN Junk
                ELSE {0}]

Init ==
    /\ launch \in Launches
    /\ kernel = "linf" /\ "linf_length" \notin Waived => n >= NumThreads
    /\ pc = [t \in Threads |-> "enter"]
    /\ idx = [t \in Threads |-> t]
    /\ reg = [t \in Threads |-> 0]
    /\ scratch \in ThreadResult
    /\ result = launch.out

Enter(t) ==
    /\ pc[t] = "enter"
    /\ pc' = [pc EXCEPT ![t] = "loop"]
    /\ scratch' = IF kernel = "linf" THEN [scratch EXCEPT ![t] = -Huge] ELSE scratch
    /\ UNCHANGED <<launch, idx, reg, result>>

InLoop(t) == pc[t] = "loop" /\ idx[t] < n

Strided(t) == [idx EXCEPT ![t] = @ + NumThreads]

-----------------------------------------------------------------------------
(* Reductions in a single block.                                            *)

\* dot_product adds up in a register, the others in their share
Accumulate(t) ==
    /\ InLoop(t)
    /\ kernel \in Reductions
    /\ IF kernel = "dot"
       THEN /\ reg' = [reg EXCEPT ![t] = Gathered(@, idx[t])]
            /\ UNCHANGED scratch
       ELSE /\ scratch' = [scratch EXCEPT ![t] = Gathered(@, idx[t])]
            /\ UNCHANGED reg
    /\ idx' = Strided(t)
    /\ UNCHANGED <<launch, pc, result>>

Arrive(t) ==
    /\ pc[t] = "loop" /\ idx[t] >= n
    /\ kernel \in Reductions
    /\ pc' = [pc EXCEPT ![t] = "barrier"]
    /\ scratch' = IF kernel = "dot" THEN [scratch EXCEPT ![t] = reg[t]] ELSE scratch
    /\ UNCHANGED <<launch, idx, reg, result>>

\* __syncthreads: nobody leaves before everybody is there
NoBarrier(t) == pc[t] = "barrier"                      \* mutant
BarrierOpen(t) ==
    /\ pc[t] = "barrier"
    /\ \A u \in Threads : pc[u] \notin {"enter", "loop"}

SyncThreads(t) ==
    /\ BarrierOpen(t)
    /\ IF t = 0
       THEN /\ pc' = [pc EXCEPT ![t] = "combine"]
            /\ idx' = [idx EXCEPT ![t] = 0]
            /\ result' = [result EXCEPT ![0] = Neutral]
       ELSE /\ pc' = [pc EXCEPT ![t] = "done"]
            /\ UNCHANGED <<idx, result>>
    /\ UNCHANGED <<launch, reg, scratch>>

Combine(t) ==
    /\ pc[t] = "combine" /\ idx[t] < NumThreads
    /\ result' = [result EXCEPT ![0] = Combined(@, scratch[idx[t]])]
    /\ idx' = [idx EXCEPT ![t] = @ + 1]
    /\ UNCHANGED <<launch, pc, reg, scratch>>

-----------------------------------------------------------------------------
(* Kernels over the grid.                                                   *)

\* kg_axpby with b = 1 and result = y, and kg_csr_matvec: one entry each
WriteElement(t) ==
    /\ InLoop(t)
    /\ kernel \in {"axpy", "matvec"}
    /\ result' = [result EXCEPT ![idx[t]] =
                      IF kernel = "axpy" THEN launch.alpha * x[idx[t]] + @
                                         ELSE RowProduct(idx[t])]
    /\ idx' = Strided(t)
    /\ UNCHANGED <<launch, pc, reg, scratch>>

\* atomicAdd: the hardware adds in one step
AtomicAdd(t) ==
    /\ InLoop(t)
    /\ kernel = "atomics"
    /\ result' = [result EXCEPT ![0] = @ + x[idx[t]]]
    /\ pc' = [pc EXCEPT ![t] = "sub"]
    /\ UNCHANGED <<launch, idx, reg, scratch>>

AtomicSub(t) ==
    /\ pc[t] = "sub"
    /\ result' = [result EXCEPT ![1] = @ - x[idx[t]]]
    /\ pc' = [pc EXCEPT ![t] = "max"]
    /\ UNCHANGED <<launch, idx, reg, scratch>>

\* atomic_max and atomic_min on doubles: a plain load, then compare-and-swap
\* until the value is in or a better one is
LoadOld(t) ==
    /\ pc[t] \in {"max", "min"}
    /\ reg' = [reg EXCEPT ![t] = IF pc[t] = "max" THEN result[2] ELSE result[3]]
    /\ pc' = [pc EXCEPT ![t] = IF pc[t] = "max" THEN "cas_max" ELSE "cas_min"]
    /\ UNCHANGED <<launch, idx, scratch, result>>

\* atomicCAS stores the value if the memory still holds what was assumed
BlindStore(cell, assumed, value) == value              \* mutant
Swapped(cell, assumed, value) == IF cell = assumed THEN value ELSE cell

\* atomicCAS returns what it found: old for the next round
OldKept(cell, assumed) == assumed                      \* mutant
Refreshed(cell, assumed) == cell

\* the outcome of one round of the loop: again when the swap failed
RoundsEnd(cell, assumed, beaten) == beaten \/ cell = assumed

CasMax(t) ==
    LET v == x[idx[t]]
        beaten == reg[t] >= v
    IN  /\ pc[t] = "cas_max"
        /\ result' = IF beaten THEN result
                     ELSE [result EXCEPT ![2] = Swapped(@, reg[t], v)]
        /\ reg' = IF beaten THEN reg ELSE [reg EXCEPT ![t] = Refreshed(result[2], @)]
        /\ pc' = IF RoundsEnd(result[2], reg[t], beaten)
                 THEN [pc EXCEPT ![t] = "min"] ELSE pc
        /\ UNCHANGED <<launch, idx, scratch>>

CasMin(t) ==
    LET v == x[idx[t]]
        beaten == reg[t] <= v
    IN  /\ pc[t] = "cas_min"
        /\ result' = IF beaten THEN result
                     ELSE [result EXCEPT ![3] = Swapped(@, reg[t], v)]
        /\ reg' = IF beaten THEN reg ELSE [reg EXCEPT ![t] = Refreshed(result[3], @)]
        /\ IF RoundsEnd(result[3], reg[t], beaten)
           THEN pc' = [pc EXCEPT ![t] = "loop"] /\ idx' = Strided(t)
           ELSE UNCHANGED <<pc, idx>>
        /\ UNCHANGED <<launch, scratch>>

\* operator() returns
Return(t) ==
    /\ \/ pc[t] = "loop" /\ idx[t] >= n /\ kernel \notin Reductions
       \/ pc[t] = "combine" /\ idx[t] = NumThreads
    /\ pc' = [pc EXCEPT ![t] = "done"]
    /\ UNCHANGED <<launch, idx, reg, scratch, result>>

AllDone == \A t \in Threads : pc[t] = "done"

\* cudaDeviceSynchronize returns
Synchronized == AllDone /\ UNCHANGED vars

Step(t) ==
    \/ Enter(t) \/ Accumulate(t) \/ Arrive(t) \/ SyncThreads(t) \/ Combine(t)
    \/ WriteElement(t)
    \/ AtomicAdd(t) \/ AtomicSub(t) \/ LoadOld(t) \/ CasMax(t) \/ CasMin(t)
    \/ Return(t)

Next == (\E t \in Threads : Step(t)) \/ Synchronized

Spec == Init /\ [][Next]_vars

\* the threads of a launch are all given time to run
FairSpec == Spec /\ \A t \in Threads : WF_vars(Step(t))

-----------------------------------------------------------------------------
(* Properties.                                                              *)

\* the memory a thread is about to write, or read, by a plain access
Writes(t) ==
    IF pc[t] = "enter" /\ kernel = "linf" THEN {<<"scratch", t>>}
    ELSE IF InLoop(t) /\ kernel \in Reductions \ {"dot"} THEN {<<"scratch", t>>}
    ELSE IF pc[t] = "loop" /\ idx[t] >= n /\ kernel = "dot" THEN {<<"scratch", t>>}
    ELSE IF InLoop(t) /\ kernel \in {"axpy", "matvec"} THEN {<<"result", idx[t]>>}
    ELSE IF pc[t] = "combine" THEN {<<"result", 0>>}
    ELSE {}
Reads(t) ==
    IF pc[t] = "combine" /\ idx[t] < NumThreads THEN {<<"scratch", idx[t]>>} ELSE {}

\* No data race: no thread is about to write an entry by a plain access while
\* another is about to read or write the same entry, neither in the scratch
\* memory of a reduction, where only sync_threads keeps thread 0 from a share
\* that is still being added to, nor in the vector a grid of threads writes.
RaceFree ==
    \A t, u \in Threads : t # u => Writes(t) \intersect (Writes(u) \union Reads(u)) = {}

\* the reductions and products over the whole vector
Expected ==
    CASE kernel = "linf" -> Max({Abs(x[i]) : i \in 0 .. n - 1})
      [] kernel = "dot"  -> MapThenSumSet(LAMBDA i : x[i] * y[i], 0 .. n - 1)
      [] kernel = "l0"   -> Cardinality({i \in 0 .. n - 1 : x[i] # 0})
      [] kernel = "l1"   -> MapThenSumSet(LAMBDA i : Abs(x[i]), 0 .. n - 1)
      [] kernel = "sum"  -> MapThenSumSet(LAMBDA i : x[i], 0 .. n - 1)

\* an entry of the matrix as a table: entries of the same place add up
Dense(i, j) ==
    LET m == launch.mat
        at == {k \in m.ia[i] .. m.ia[i + 1] - 1 : m.ja[k] = j}
    IN  MapThenSumSet(LAMBDA k : m.val[k], at)

\* When the kernel has ended the result is that of the sequential loop over the
\* elements, however the threads ran: each element counts once, in whatever
\* share it fell and however many threads had none.
ResultIsExact ==
    AllDone =>
        /\ kernel \in Reductions => result[0] = Expected
        /\ kernel = "axpy" =>
               \A i \in 0 .. n - 1 : result[i] = launch.alpha * x[i] + launch.out[i]
        /\ kernel = "matvec" =>
               \A i \in 0 .. n - 1 :
                   result[i] = MapThenSumSet(LAMBDA j : Dense(i, j) * x[j], 0 .. n - 1)
        /\ kernel = "atomics" =>
               LET total == MapThenSumSet(LAMBDA i : x[i], 0 .. n - 1)
               IN  result[0] = launch.out[0] + total /\ result[1] = launch.out[1] - total

\* The extrema found by compare-and-swap are those of the elements and of the
\* value the memory held before: no update of another thread is lost between
\* the load of the old value and the swap.
ExtremaAreExact ==
    AllDone /\ kernel = "atomics" =>
        LET candidates(c) == {launch.out[c]} \union {x[i] : i \in 0 .. n - 1}
        IN  /\ result[2] \in candidates(2) /\ \A v \in candidates(2) : result[2] >= v
            /\ result[3] \in candidates(3) /\ \A v \in candidates(3) : result[3] <= v

\* Every kernel ends: no thread waits at the barrier for ever, and the loops of
\* failed swaps are bounded by the updates of the others.
KernelEnds == <>AllDone
=============================================================================
