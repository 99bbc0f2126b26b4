---------------------------- MODULE MCGpuManager ----------------------------
(* Instances of GpuManager for TLC.                                        *)
EXTENDS GpuManagerRefinement, TLC

CONSTANTS d1, d2  \* two data sets

\* every argument list of at most two arguments, aliased or not
KernelsUpToTwo ==
    {<<x>> : x \in Argument} \union {<<x, y>> : x, y \in Argument}

\* one operand, or a statement that loads one data set and stores another
Loads  == {[var |-> v, store |-> FALSE, via |-> k] : v \in Vars, k \in {"const", "mutable", "raw"}}
Stores == {[var |-> v, store |-> TRUE, via |-> k] : v \in Vars, k \in {"mutable", "raw"}}
Statements == {<<l>> : l \in Loads} \union {<<s>> : s \in Stores}
                 \union {<<l, s>> : l \in Loads, s \in Stores}

\* for two data sets: kernels d2 = f(d1) and f(d1, d2), statements d2[i] = d1[i]
\* with a const and with a mutable d1
PairKernels ==
    {<<[var |-> d1, mutable |-> m], [var |-> d2, mutable |-> TRUE]>> : m \in BOOLEAN}
PairStatements ==
    {<<[var |-> d1, store |-> FALSE, via |-> k],
       [var |-> d2, store |-> TRUE, via |-> "mutable"]>> : k \in {"const", "mutable"}}
=============================================================================
