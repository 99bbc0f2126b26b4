----------------------------- MODULE TimeMarch -----------------------------
(***************************************************************************)
(* What the time loop of main promises, whatever the number of ranks: the   *)
(* residual is computed, and as long as it is above the tolerance the whole *)
(* solution goes one step further; then it is written, every cell once and  *)
(* every cell of the last step.                                            *)
(***************************************************************************)
EXTENDS Integers, Sequences

CONSTANTS
    Norms,        \* the residuals there may be
    AllCells      \* the cells of the mesh, in the order of the solution file

VARIABLES
    tol,          \* the tolerance
    history,      \* the residual after each step
    file          \* the rows of the solution file, empty until it is written

marchVars == <<tol, history, file>>

Above(h) == h = <<>> \/ h[Len(h)] > tol

Init ==
    /\ tol \in Int
    /\ history = <<>>
    /\ file = <<>>

March ==
    /\ Above(history)
    /\ \E norm \in Norms : history' = Append(history, norm)
    /\ UNCHANGED <<tol, file>>

\* a row is the centre of a cell and its value after the last step
Write ==
    /\ ~Above(history)
    /\ file = <<>>
    /\ file' = [k \in DOMAIN AllCells |->
                   LET cell == AllCells[k]
                   IN  [x |-> <<cell, "x">>, y |-> <<cell, "y">>,
                        Q |-> <<cell, Len(history) - 1>>]]
    /\ UNCHANGED <<tol, history>>

Next == March \/ Write

Spec == Init /\ [][Next]_marchVars
=============================================================================
