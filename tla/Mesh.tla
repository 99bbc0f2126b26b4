-------------------------------- MODULE Mesh --------------------------------
(***************************************************************************)
(* The global mesh of Grid: Nx by Ny cells, numbered row by row, with the   *)
(* compressed list of their neighbours, and the stripes in which            *)
(* distribute_grid hands the cells to the MPI ranks.  Every rank computes   *)
(* all of this for itself and arrives at the same arrays.                   *)
(*                                                                         *)
(* m is a mesh, a record with Nx, Ny and numprocs.  An array of the code is *)
(* a sequence, so a[k] of the code is a[k+1] here; the numbers of cells,    *)
(* ranks and slots it holds start at 0 as they do in the code.              *)
(***************************************************************************)
EXTENDS Integers, Sequences, SequencesExt

Cells(m) == 0 .. m.Nx * m.Ny - 1
Ranks(m) == 0 .. m.numprocs - 1

CellAt(m, i, j) == j * m.Nx + i
Column(m, cell) == cell % m.Nx
Row(m, cell)    == cell \div m.Nx

-----------------------------------------------------------------------------
(* cell_neighbors and number_of_neighbors.                                 *)

\* the length given to cell_neighbors: four entries for an interior cell,
\* three for one on a side, two in a corner
NumNeighbors(m) ==
    4 * (m.Nx - 2) * (m.Ny - 2) + 3 * (2 * (m.Nx - 2) + 2 * (m.Ny - 2)) + 2 * 4

\* the neighbours of a cell, left, right, bottom, top
Stencil(m, i, j) ==
    LET cell == CellAt(m, i, j)
        If(there, nbr) == IF there THEN <<nbr>> ELSE <<>>
    IN  If(i > 0, cell - 1) \o If(i < m.Nx - 1, cell + 1)
           \o If(j > 0, cell - m.Nx) \o If(j < m.Ny - 1, cell + m.Nx)

\* "index", where generate_grid puts the neighbours of a cell: one formula for
\* each kind of cell
Slot(m, i, j) ==
    LET X == m.Nx - 2
        Y == m.Ny - 2
    IN  CASE i = 0 /\ j = 0                     -> 0
          [] i = m.Nx - 1 /\ j = 0              -> 2 + 3 * X
          [] i = 0 /\ j = m.Ny - 1              -> 4 + 3 * X + 4 * X * Y + 6 * Y
          [] i = m.Nx - 1 /\ j = m.Ny - 1       -> 6 + 4 * X * Y + 6 * Y + 6 * X
          [] i \in 1 .. X /\ j = 0              -> 2 + 3 * (i - 1)
          [] i \in 1 .. X /\ j = m.Ny - 1       -> 6 + 3 * X + 4 * X * Y + 6 * Y + 3 * (i - 1)
          [] i = 0 /\ j \in 1 .. Y              -> 4 + 3 * X + 6 * (j - 1) + 4 * (j - 1) * X
          [] i = m.Nx - 1 /\ j \in 1 .. Y       -> 4 + 3 * X + 3 * (2 * (j - 1) + 1) + 4 * X * j
          [] OTHER -> 4 + 3 * X + 3 * (1 + 2 * (j - 1)) + 4 * (j - 1) * X + 4 * (i - 1)

\* number_of_neighbors: where the neighbours of each cell begin, and at the end
\* where those of the last one end
NumberOfNeighbors(m) ==
    [k \in 1 .. m.Nx * m.Ny + 1 |->
        IF k = 1 THEN 0
        ELSE LET i == Column(m, k - 2)
                 j == Row(m, k - 2)
             IN  Slot(m, i, j) + Len(Stencil(m, i, j))]

\* the cell whose neighbours cover a slot of cell_neighbors
Covers(m, cell, slot) ==
    LET i == Column(m, cell)
        j == Row(m, cell)
    IN  slot \in Slot(m, i, j) .. Slot(m, i, j) + Len(Stencil(m, i, j)) - 1

\* cell_neighbors; a slot that no cell covers keeps the 0 of fresh pages
CellNeighbors(m) ==
    [k \in 1 .. NumNeighbors(m) |->
        IF \E c \in Cells(m) : Covers(m, c, k - 1)
        THEN LET c == CHOOSE c \in Cells(m) : Covers(m, c, k - 1)
                 i == Column(m, c)
                 j == Row(m, c)
             IN  Stencil(m, i, j)[k - Slot(m, i, j)]
        ELSE 0]

-----------------------------------------------------------------------------
(* distribute_grid.                                                        *)

SizeRank(m, p) ==
    (m.Nx \div m.numprocs) + (IF p < m.Nx % m.numprocs THEN 1 ELSE 0)

\* the rank of each column
Assign1dRank(m) ==
    FlattenSeq([k \in 1 .. m.numprocs |-> [x \in 1 .. SizeRank(m, k - 1) |-> k - 1]])

ByRows(m) ==                                           \* mutant
    [k \in 1 .. m.Nx * m.Ny |-> Assign1dRank(m)[((k - 1) \div m.Ny) + 1]]
RanksList(m) ==
    [k \in 1 .. m.Nx * m.Ny |-> Assign1dRank(m)[Column(m, k - 1) + 1]]
=============================================================================
