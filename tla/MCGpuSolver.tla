---------------------------- MODULE MCGpuSolver ----------------------------
(* GpuSolver with every solver.                                             *)
EXTENDS GpuSolver

EverySolver ==
    {[implicit_solver |-> FALSE, solver_type |-> 0],
     [implicit_solver |-> TRUE, solver_type |-> 0],
     [implicit_solver |-> TRUE, solver_type |-> 1]}
=============================================================================
