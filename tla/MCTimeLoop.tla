---------------------------- MODULE MCTimeLoop ----------------------------
(***************************************************************************)
(* Small instances of TimeLoop, with every solver: four ranks, of which one *)
(* has ghosts on both sides and the last has no cell.                      *)
(***************************************************************************)
EXTENDS TimeLoop

File(implicit, solver, iters) ==
    [implicit_solver |-> implicit, solver_type |-> solver, num_iter |-> iters, tol |-> 0]

Explicit == File(FALSE, 0, 1)
Jacobi == File(TRUE, 0, 2)
Bicgstab == File(TRUE, 1, 2)

\* num_iter 0, and less
JacobiNone == File(TRUE, 0, 0)
BicgstabNone == File(TRUE, 1, -1)

AllSolvers == {Explicit, Jacobi, Bicgstab, JacobiNone, BicgstabNone}

EmptyEnd == (0 :> 1) @@ (1 :> 2) @@ (2 :> 1) @@ (3 :> 0)
=============================================================================
