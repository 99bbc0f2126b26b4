--------------------------- MODULE MCSolverSetup ---------------------------
(***************************************************************************)
(* Small meshes for SolverSetup: two cells in a row up to four, so that a   *)
(* stripe is one column, a rank has ghosts on both sides, the columns do    *)
(* not divide evenly, and with more ranks than columns one has no cell.     *)
(***************************************************************************)
EXTENDS SolverSetup

SmallMeshes ==
    [Nx : 2 .. 4, Ny : 2 .. 3, numprocs : 1 .. 3]
=============================================================================
