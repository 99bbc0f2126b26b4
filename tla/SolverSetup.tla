---------------------------- MODULE SolverSetup ----------------------------
(***************************************************************************)
(* The set up that main runs on every rank, as far as the time loop: the    *)
(* grid, then setup_matrix_struct, set_boundary_conditions,                 *)
(* initialize_solution, compute_time_step, compute_rdist and                *)
(* compute_system of Solver_base.                                           *)
(*                                                                         *)
(* A coefficient of the matrix is a vector of three multiplicities: of      *)
(* volume/delta_t, of dy/dx (a face across x) and of dx/dy (a face across   *)
(* y).  The sum of the areas around a cell counts dy and dx.                *)
(***************************************************************************)
EXTENDS GridSetup

VARIABLE solver           \* the members of Solver_base and its arrays

vars == <<gridVars, solver>>

NewSolver ==
    [ia_local |-> <<>>, ja_local |-> <<>>, csr_idx_local |-> <<>>,
     Q_cell_local |-> <<>>, Q_boundary_local |-> <<>>, A_data_local |-> <<>>,
     rdista_local |-> <<>>, boundary_rdista_local |-> <<>>, delta_t |-> <<>>]

Zero == <<0, 0, 0>>
Plus(a, b) == [k \in 1 .. 3 |-> a[k] + b[k]]
Minus(a) == [k \in 1 .. 3 |-> -a[k]]
Total(f, S) == FoldFunctionOnSet(Plus, Zero, f, S)

Solved(r) == 0 .. grid[r].num_solved - 1
Attached(r) == DOMAIN grid[r].boundary
Nbrs(r, i) == grid[r].cell_neighbors_local[i]

-----------------------------------------------------------------------------
(* setup_matrix_struct.                                                    *)

\* ia_local: one entry for the cell and one for each neighbour.  ia_local[0] is
\* never assigned and is the 0 of a fresh data set.
Ia(r) ==
    [i \in 0 .. grid[r].num_solved |->
        SumFunctionOnSet([d \in Solved(r) |-> Len(Nbrs(r, d)) + 1], 0 .. i - 1)]

\* ja_local: the cell itself first, then its neighbours
Ja(r) ==
    FlattenSeq([k \in 1 .. grid[r].num_solved |-> <<k - 1>> \o Nbrs(r, k - 1)])

\* csr_idx_local: the slots of row i that hold its k-th neighbour; the last one
\* found stays
LastMissed(ia, ja, i, nbr) ==                          \* mutant
    {n \in ia[i] + 1 .. ia[i + 1] - 2 : ja[n + 1] = nbr} \union {0}
SlotsOf(ia, ja, i, nbr) ==
    {n \in ia[i] + 1 .. ia[i + 1] - 1 : ja[n + 1] = nbr}
CsrIdx(r, ia, ja) ==
    [i \in Solved(r) |->
        [k \in DOMAIN Nbrs(r, i) |->
            CHOOSE n \in SlotsOf(ia, ja, i, Nbrs(r, i)[k]) :
                \A o \in SlotsOf(ia, ja, i, Nbrs(r, i)[k]) : o <= n]]

(* set_boundary_conditions(0, 0, 1e2, 0).                                  *)

InArgumentOrder == [b \in 0 .. 3 |-> IF b = 2 THEN 100 ELSE 0]    \* mutant
SideValue == [b \in 0 .. 3 |-> IF b = 0 THEN 100 ELSE 0]
SideOf(r, k) ==
    CHOOSE b \in 0 .. 3 : k - 1 \in grid[r].boundary_type_start_and_end_index[b]
                                   .. grid[r].boundary_type_start_and_end_index[b + 1] - 1

(* compute_rdist.                                                          *)

AbsValue(d) == IF d < 0 THEN -d ELSE d

\* area / distance: the normal says along which axis the distance is, the area is
\* the one stored.  Distances are in half cells, so 2 \div d of them make a cell.
\* An area along its own normal gives a bare number, counted in the first place.
Rdista(face, from, to) ==
    LET axis == IF AbsValue(face.normal[1]) > 0 THEN 1 ELSE 2
        times == 2 \div AbsValue(to[axis] - from[axis])
    IN  IF face.area = "dy" /\ axis = 1 THEN <<0, times, 0>>
        ELSE IF face.area = "dx" /\ axis = 2 THEN <<0, 0, times>>
        ELSE <<times, 0, 0>>
InnerRdista(r) ==
    [i \in Solved(r) |->
        [k \in DOMAIN Nbrs(r, i) |->
            Rdista(grid[r].face_local[i][k],
                   grid[r].xcen_local[i], grid[r].xcen_local[Nbrs(r, i)[k]])]]
BoundaryRdista(r) ==
    [k \in Attached(r) |->
        LET face == grid[r].boundary[k]
        IN  Rdista(face, grid[r].xcen_local[face.cell], face.xcen)]

(* compute_time_step.                                                      *)

\* the areas around a cell: how many dy, how many dx
Areas(r, i) ==
    LET inner == {k \in DOMAIN Nbrs(r, i) : grid[r].face_local[i][k].area = "dy"}
        outer == {k \in Attached(r) : grid[r].boundary[k].cell = i}
        side  == {k \in outer : grid[r].boundary[k].area = "dy"}
    IN  <<Cardinality(inner) + Cardinality(side),
          Len(Nbrs(r, i)) - Cardinality(inner) + Cardinality(outer) - Cardinality(side)>>

\* 1.e30, above every sum of areas, is what a rank without cells gives
NoCell == <<1000, 1000>>
Smaller(a, b) == a[1] + a[2] < b[1] + b[2]
Smallest(S) == CHOOSE a \in S : \A b \in S : ~Smaller(b, a)
MinValue(r) == Smallest({Areas(r, i) : i \in Solved(r)} \union {NoCell})

\* the limits are fixed when the Allreduce has returned
Reduced(r, given) == Smallest({given[p] : p \in DOMAIN given})

(* compute_system.                                                         *)

Coefficient(r, n, s, rdista, brdista) ==
    LET i == CHOOSE i \in Solved(r) : n \in s.ia_local[i] .. s.ia_local[i + 1] - 1
        faces == DOMAIN Nbrs(r, i)
        off == {k \in faces : s.csr_idx_local[i][k] = n}
        attached == {k \in Attached(r) : grid[r].boundary[k].cell = i}
        diagonal == Plus(<<1, 0, 0>>, Plus(Total(rdista[i], faces), Total(brdista, attached)))
    IN  Plus(IF n = s.ia_local[i] THEN diagonal ELSE Zero, Minus(Total(rdista[i], off)))

-----------------------------------------------------------------------------
StartSolver(r) ==
    LET ia == Ia(r)
        ja == Ja(r)
    IN  /\ stage[r] = "grid"
        /\ solver' = [solver EXCEPT
               ![r].ia_local = ia,
               ![r].ja_local = ja,
               ![r].csr_idx_local = CsrIdx(r, ia, ja),
               ![r].Q_boundary_local = [k \in Attached(r) |-> SideValue[SideOf(r, k)]]]
        /\ SendGhosts(r, mpiparams[r].slist, [i \in Solved(r) |-> 1], "Q_cell_local")
        /\ stage' = [stage EXCEPT ![r] = "Q_cell_local"]
        /\ UNCHANGED <<globalVars, grid, mpiparams>>

LimitTimeStep(r) ==
    /\ stage[r] = "Q_cell_local"
    /\ Entered(r, Owners(r))
    /\ solver' = [solver EXCEPT ![r].Q_cell_local = Unpack(r, [i \in Solved(r) |-> 1])]
    /\ Post(r, "min_value", ToAll(MinValue(r)))
    /\ stage' = [stage EXCEPT ![r] = "min_value"]
    /\ UNCHANGED <<globalVars, grid, mpiparams>>

ComputeSystem(r) ==
    LET rdista == InnerRdista(r)
        brdista == BoundaryRdista(r)
    IN  /\ stage[r] = "min_value"
        /\ Entered(r, Procs)
        /\ solver' = [solver EXCEPT
               ![r].delta_t = Reduced(r, Received(r, Procs)),
               ![r].rdista_local = rdista,
               ![r].boundary_rdista_local = brdista,
               ![r].A_data_local = [n \in 0 .. Len(solver[r].ja_local) - 1 |->
                                       Coefficient(r, n, solver[r], rdista, brdista)]]
        /\ stage' = [stage EXCEPT ![r] = "ready"]
        /\ UNCHANGED <<globalVars, posted, grid, mpiparams>>

-----------------------------------------------------------------------------
Init ==
    /\ GridInit
    /\ solver = [r \in Procs |-> NewSolver]

SolverStep(r) == StartSolver(r) \/ LimitTimeStep(r) \/ ComputeSystem(r)

EmptyRankReturns(r) ==                                 \* mutant
    OwnCells(r) # <<>> /\ ((GridStep(r) /\ UNCHANGED solver) \/ SolverStep(r))
Step(r) == (GridStep(r) /\ UNCHANGED solver) \/ SolverStep(r)

Next == \E r \in Procs : Step(r)

\* each rank is a process of its own, and runs on unless it waits in a call
Spec ==
    /\ Init /\ [][Next]_vars
    /\ \A r \in UNION {Ranks(m) : m \in Meshes} : WF_vars(r \in Procs /\ Step(r))

-----------------------------------------------------------------------------
(* Properties.                                                             *)

CollectiveCalls == <<"start", "num_solved", "num_involved", "rcounts", "rlist", "ghosts",
                     "loc_x", "loc_y", "grid", "Q_cell_local", "min_value", "ready">>
Past(r, call) ==
    \E a, b \in DOMAIN CollectiveCalls :
        a < b /\ CollectiveCalls[a] = call /\ CollectiveCalls[b] = stage[r]

Adjacent(c, d) ==
    AbsValue(Column(mesh, c) - Column(mesh, d)) + AbsValue(Row(mesh, c) - Row(mesh, d)) = 1

\* The ranks make the same collective calls in the same order, and each gives
\* every other as many items as that one has counted on.
CollectivesMatch ==
    \A p, q \in Procs : \A k \in DOMAIN posted[p] \intersect DOMAIN posted[q] :
        /\ posted[p][k].call = posted[q][k].call
        /\ posted[p][k].call = "rlist" =>
               Len(posted[p][k].to[q]) = mpiparams[q].scounts[p]
        /\ posted[p][k].call \in {"ghosts", "loc_x", "loc_y", "Q_cell_local"} =>
               Len(posted[p][k].to[q]) = mpiparams[q].rcounts[p]

\* slist is allocated for as many ghosts as the rank has, and filled with as
\* many cells as the others ask it for; mpi_nbnb_transfer then reads these cells
\* of the vector it is given.
SendListsFit ==
    \A r \in Procs :
        Past(r, "rlist") =>
            /\ mpiparams[r].ssize <= mpiparams[r].involved_node
            /\ \A p \in Procs : ToSet(mpiparams[r].slist[p]) \subseteq Solved(r)

\* What an mpi_nbnb_transfer leaves in a ghost is the value its owner has for
\* that very cell: the centres of a rank's cells and ghosts are those of the mesh.
GhostsAreTheirOwners ==
    \A r \in Procs :
        Past(r, "loc_y") =>
            \A i \in 0 .. grid[r].num_involved - 1 :
                LET c == grid[r].local_global[i]
                IN  grid[r].xcen_local[i] = <<2 * Column(mesh, c) + 1, 2 * Row(mesh, c) + 1>>

\* The faces of a cell, inner and boundary, are one to each side: those across x
\* have area dy and those across y area dx.
Closed(r, i) ==
    LET inner == {<<grid[r].face_local[i][k].normal, grid[r].face_local[i][k].area>> :
                     k \in DOMAIN Nbrs(r, i)}
        attached == {k \in Attached(r) : grid[r].boundary[k].cell = i}
        outer == {<<grid[r].boundary[k].normal, grid[r].boundary[k].area>> : k \in attached}
    IN  /\ inner \union outer = {<<<<0, -1>>, "dx">>, <<<<0, 1>>, "dx">>,
                                 <<<<-1, 0>>, "dy">>, <<<<1, 0>>, "dy">>}
        /\ Len(Nbrs(r, i)) + Cardinality(attached) = 4

\* Every cell is closed by its faces, and a face between two ranks is laid out by
\* both, once by each, with the same area and opposite normals: what flows out of
\* one rank flows into the other.
FacesMeet ==
    \A r, p \in Procs : Past(r, "loc_y") /\ Past(p, "loc_y") =>
        \A i \in Solved(r) :
            /\ Closed(r, i)
            /\ \A k \in DOMAIN Nbrs(r, i) :
                  LET a == grid[r].local_global[i]
                      b == grid[r].local_global[Nbrs(r, i)[k]]
                      face == grid[r].face_local[i][k]
                  IN  RankOf(b) = p =>
                          LET j == grid[p].global_local[b]
                              back == {l \in DOMAIN Nbrs(p, j) :
                                          grid[p].local_global[Nbrs(p, j)[l]] = a}
                          IN  /\ Cardinality(back) = 1
                              /\ \A l \in back :
                                   LET other == grid[p].face_local[j][l]
                                   IN  /\ other.area = face.area
                                       /\ \A x \in 1 .. 2 : other.normal[x] = -face.normal[x]

\* Bottom faces have the value 1e2 and those of the other sides 0: the order of
\* the boundary lists in generate_grid is that of set_boundary_conditions.
SidesHaveTheirValues ==
    \A r \in Procs : Past(r, "grid") =>
        \A k \in Attached(r) :
            solver[r].Q_boundary_local[k] = IF grid[r].boundary[k].xcen[2] = 0 THEN 100 ELSE 0

\* the entry of the global matrix in the row of cell a and the column of cell b
Entry(r, a, b) ==
    LET i == grid[r].global_local[a]
        row == solver[r].ia_local[i] .. solver[r].ia_local[i + 1] - 1
        slots == {n \in row : grid[r].local_global[solver[r].ja_local[n + 1]] = b}
    IN  Total(solver[r].A_data_local, slots)

\* The rows of the ranks make one matrix: symmetric, also across ranks, and a
\* row sums to the time term and twice the faces on the sides of the mesh, as
\* the Laplacian with fixed boundary values does.
MatrixIsTheLaplacian ==
    (\A r \in Procs : Past(r, "min_value")) =>
        \A a \in Cells(mesh) :
            LET r == RankOf(a)
                i == grid[r].global_local[a]
                row == solver[r].ia_local[i] .. solver[r].ia_local[i + 1] - 1
                OnSide(c, n) == IF c \in {0, n - 1} THEN 2 ELSE 0
            IN  /\ Total(solver[r].A_data_local, row)
                     = <<1, OnSide(Column(mesh, a), mesh.Nx), OnSide(Row(mesh, a), mesh.Ny)>>
                /\ \A b \in Cells(mesh) : Entry(r, a, b) = Entry(RankOf(b), b, a)
                /\ \A b \in Cells(mesh) : Entry(r, a, b) # Zero <=> a = b \/ Adjacent(a, b)

\* No rank is left waiting in a collective call: the set up ends.
SetupEnds == <>(\A r \in Procs : stage[r] = "ready")
=============================================================================
