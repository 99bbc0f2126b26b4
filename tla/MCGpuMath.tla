----------------------------- MODULE MCGpuMath -----------------------------
(* Instances of GpuMath for TLC.                                           *)
EXTENDS GpuMath

Numbers == {-2, 0, 1}

NoMatrix == [ia |-> <<>>, ja |-> <<>>, val |-> <<>>]
Blank == [i \in Slots |-> 7]

Launch(k, num, v, w, m, o) ==
    [kernel |-> k, n |-> num, x |-> v, y |-> w, mat |-> m, alpha |-> 3, out |-> o]

\* every vector of up to MaxElements elements, with or without threads that
\* have none
ReductionLaunches ==
    UNION {{Launch(k, num, v, [i \in 0 .. num - 1 |-> v[num - 1 - i] + 1], NoMatrix, Blank) :
               k \in Reductions, v \in [0 .. num - 1 -> Numbers]} : num \in 0..MaxElements}

AxpyLaunches ==
    {Launch("axpy", num, [i \in 0 .. num - 1 |-> i - 2], <<>>, NoMatrix,
            [i \in Slots |-> 5 - i]) : num \in 0..MaxElements}

\* rows with no entry, with one, with all and with two of the same column
Matrices ==
    {[ia |-> [i \in 0..3 |-> <<0, 0, 2, 3>>[i + 1]],
      ja |-> [j \in 0..2 |-> <<2, 2, 0>>[j + 1]],
      val |-> [j \in 0..2 |-> <<4, -1, 5>>[j + 1]]],
     [ia |-> [i \in 0..3 |-> <<0, 3, 4, 4>>[i + 1]],
      ja |-> [j \in 0..3 |-> <<0, 1, 2, 1>>[j + 1]],
      val |-> [j \in 0..3 |-> <<1, 2, 3, -2>>[j + 1]]]}
MatvecLaunches ==
    {Launch("matvec", 3, v, <<>>, m, Blank) : v \in [0..2 -> {-1, 2}], m \in Matrices}

\* first extrema worse than every element, as the test sets them, and better
AtomicLaunches ==
    {Launch("atomics", num, v, <<>>, NoMatrix, [i \in Slots |-> <<0, 9, o[1], o[2]>>[(i % 4) + 1]]) :
        num \in {4}, v \in [0..3 -> Numbers], o \in {<<-3, 2>>, <<0, 0>>}}

AllLaunches == ReductionLaunches \union AxpyLaunches \union MatvecLaunches \union AtomicLaunches
=============================================================================
