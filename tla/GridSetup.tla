----------------------------- MODULE GridSetup -----------------------------
(***************************************************************************)
(* Grid::generate_grid and Grid::assign_mpi_grid as every MPI rank runs     *)
(* them: each rank numbers the cells it owns, finds the ghosts it needs,    *)
(* asks their owners for them, and lays out its part of the mesh with the   *)
(* values the owners send.                                                  *)
(*                                                                         *)
(* The ranks share nothing and meet only in collective calls, so an action  *)
(* is the code between two of them.  posted[r] is what rank r has given to  *)
(* its collective calls so far.  An Allgather or an Alltoall returns when   *)
(* every rank has entered it; an Alltoallv may return as soon as the ranks  *)
(* it receives from have.                                                   *)
(*                                                                         *)
(* Lengths are counted in half cells: dx and dy are 2, the centre of cell   *)
(* (i, j) is at <<2i + 1, 2j + 1>>, the far sides at 2 Nx and 2 Ny.  A      *)
(* local array is a function from 0.                                        *)
(***************************************************************************)
EXTENDS Mesh

CONSTANT Meshes          \* the meshes and numbers of ranks a program is run with

ASSUME MeshesAssumption ==
    /\ Meshes \subseteq [Nx : Nat, Ny : Nat, numprocs : Nat]
    /\ \A m \in Meshes : m.Nx >= 2 /\ m.Ny >= 2 /\ m.numprocs >= 1

VARIABLES
    mesh,                 \* Nx, Ny and numprocs
    number_of_neighbors,  \* the arrays that every rank computes alike
    cell_neighbors,
    ranks_list,
    stage,                \* the collective call each rank is in
    posted,               \* what each rank has given to its collective calls
    grid,                 \* the members of Grid and the local arrays of a rank
    mpiparams             \* the lists of MpiClass of a rank

globalVars == <<mesh, number_of_neighbors, cell_neighbors, ranks_list>>
gridVars == <<mesh, number_of_neighbors, cell_neighbors, ranks_list,
              stage, posted, grid, mpiparams>>

Procs == Ranks(mesh)
RankOf(cell) == ranks_list[cell + 1]
Neighbors(cell) ==
    SubSeq(cell_neighbors, number_of_neighbors[cell + 1] + 1, number_of_neighbors[cell + 2])

\* the "arbitrary initialization" of the two maps, and of what has no value yet
Unset == -1000

\* before anything is assigned: arrays are empty
NewGrid ==
    [num_solved |-> Unset, num_involved |-> Unset, offset |-> Unset,
     gcnum |-> <<>>, local_global |-> <<>>, global_local |-> <<>>,
     num_faces |-> Unset, num_attached |-> Unset, cell_neighbors_local |-> <<>>,
     loc_x |-> <<>>, loc_y |-> <<>>, xcen_local |-> <<>>, face_local |-> <<>>,
     boundary |-> <<>>, boundary_type_start_and_end_index |-> <<>>]
NewMpiClass ==
    [involved_node |-> Unset, ssize |-> Unset, rsize |-> Unset,
     rcounts |-> <<>>, scounts |-> <<>>, rlist |-> <<>>, slist |-> <<>>]

-----------------------------------------------------------------------------
(* Collective calls.                                                       *)

OnlyIfAny(r, call, to) ==                              \* mutant
    posted' = IF call = "rlist" /\ \A p \in Procs : to[p] = <<>> THEN posted
              ELSE [posted EXCEPT ![r] = Append(@, [call |-> call, to |-> to])]
Post(r, call, to) ==
    posted' = [posted EXCEPT ![r] = Append(@, [call |-> call, to |-> to])]
ToAll(value) == [p \in Procs |-> value]

\* rank r may leave the call it is in: these ranks have entered it too
Entered(r, from) == \A p \in from : Len(posted[p]) >= Len(posted[r])

\* what each of these ranks gave rank r in the call r is in
Received(r, from) == [p \in from |-> posted[p][Len(posted[r])].to[r]]

\* segments of an Alltoallv, one after the other in the order of the ranks
Packed(segments, from) == FlattenSeq([k \in 1 .. mesh.numprocs |->
                              IF k - 1 \in from THEN segments[k - 1] ELSE <<>>])

\* the ranks that rank r receives ghosts from
Owners(r) == {p \in Procs : mpiparams[r].rcounts[p] > 0}

\* the two halves of mpi_nbnb_transfer, before the call and after it
SendGhosts(r, lists, vec, call) ==
    Post(r, call, [p \in Procs |-> [k \in 1 .. Len(lists[p]) |-> vec[lists[p][k]]]])
GhostValue(r, i) ==
    Packed(Received(r, Owners(r)), Owners(r))[i + 1]
Unpack(r, vec) ==
    [i \in 0 .. grid[r].num_involved - 1 |->
        IF i < grid[r].num_solved THEN vec[i] ELSE GhostValue(r, i - grid[r].num_solved)]

-----------------------------------------------------------------------------
(* assign_mpi_grid.                                                        *)


\* the elements of a set of numbers, as std::set keeps them
Ascending(S) ==
    [k \in 1 .. Cardinality(S) |-> CHOOSE c \in S : Cardinality({d \in S : d < c}) = k - 1]

Own(r) == {c \in Cells(mesh) : RankOf(c) = r}
OwnCells(r) == Ascending(Own(r))

\* the cells of this rank get its first local numbers
NumberCells(r) ==
    LET own == OwnCells(r)
    IN  /\ stage[r] = "start"
        /\ grid' = [grid EXCEPT
               ![r].num_solved = Len(own),
               ![r].local_global = [i \in Cells(mesh) |->
                                       IF i < Len(own) THEN own[i + 1] ELSE Unset],
               ![r].global_local = [c \in Cells(mesh) |->
                                       IF RankOf(c) = r
                                       THEN Cardinality({d \in 0 .. c - 1 : RankOf(d) = r})
                                       ELSE Unset]]
        /\ Post(r, "num_solved", ToAll(Len(own)))
        /\ stage' = [stage EXCEPT ![r] = "num_solved"]
        /\ UNCHANGED <<globalVars, mpiparams>>

\* offsets_array, and gcnum: the cells numbered rank by rank
Offset(num_solved_array, r) ==
    SumFunctionOnSet(num_solved_array, 0 .. r - 1)
Gcnum(num_solved_array, cell) ==
    Offset(num_solved_array, RankOf(cell))
        + Cardinality({d \in 0 .. cell - 1 : RankOf(d) = RankOf(cell)})

\* involved_nodes_set, as cells: the foreign neighbours of the cells of a rank
Involved(r) ==
    {c \in UNION {ToSet(Neighbors(d)) : d \in Own(r)} : RankOf(c) # r}

\* the numbers of the ghosts, in the order of the set: sorted, so that those of
\* one owner are together
GhostList(r, array) ==
    Ascending({Gcnum(array, c) : c \in Involved(r)})

FindGhosts(r) ==
    LET array == Received(r, Procs)
    IN  /\ stage[r] = "num_solved"
        /\ Entered(r, Procs)
        /\ grid' = [grid EXCEPT
               ![r].num_involved = grid[r].num_solved + Cardinality(Involved(r)),
               ![r].offset = Offset(array, r),
               ![r].gcnum = [c \in Cells(mesh) |-> Gcnum(array, c)]]
        /\ mpiparams' = [mpiparams EXCEPT
               ![r].involved_node = Cardinality(Involved(r)),
               ![r].rcounts = [p \in Procs |->
                                  Cardinality({c \in Involved(r) : RankOf(c) = p})],
               ![r].rlist = GhostList(r, array)]
        /\ Post(r, "num_involved", ToAll(grid[r].num_solved + Cardinality(Involved(r))))
        /\ stage' = [stage EXCEPT ![r] = "num_involved"]
        /\ UNCHANGED globalVars

CountGhosts(r) ==
    /\ stage[r] = "num_involved"
    /\ Entered(r, Procs)
    /\ Post(r, "rcounts", mpiparams[r].rcounts)
    /\ stage' = [stage EXCEPT ![r] = "rcounts"]
    /\ UNCHANGED <<globalVars, grid, mpiparams>>

\* the part of rlist for each owner
Segment(list, counts, p) ==
    LET rdisp == Offset(counts, p) IN SubSeq(list, rdisp + 1, rdisp + counts[p])

AskOwners(r) ==
    LET params == mpiparams[r]
        scounts == Received(r, Procs)
    IN  /\ stage[r] = "rcounts"
        /\ Entered(r, Procs)
        /\ mpiparams' = [mpiparams EXCEPT
               ![r].scounts = scounts,
               ![r].ssize = SumFunction(scounts),
               ![r].rsize = SumFunction(params.rcounts)]
        /\ Post(r, "rlist", [p \in Procs |-> Segment(params.rlist, params.rcounts, p)])
        /\ stage' = [stage EXCEPT ![r] = "rlist"]
        /\ UNCHANGED <<globalVars, grid>>

\* the lists asked of this rank become local numbers; the ranks that ask are
\* those scounts counts
Askers(r) == {p \in Procs : mpiparams[r].scounts[p] > 0}
Renumbered(segments, offset) ==
    [p \in DOMAIN segments |-> [k \in 1 .. Len(segments[p]) |-> segments[p][k] - offset]]

MakeLists(r) ==
    LET asked == [p \in Procs |-> IF p \in Askers(r) THEN Received(r, Askers(r))[p] ELSE <<>>]
        lists == Renumbered(asked, grid[r].offset)
        gcinvnum == AntiFunction(grid[r].gcnum)
    IN  /\ stage[r] = "rlist"
        /\ Entered(r, Askers(r))
        /\ mpiparams' = [mpiparams EXCEPT
               ![r].slist = lists,
               ![r].rlist = [k \in 1 .. mpiparams[r].rsize |-> grid[r].num_solved + k - 1]]
        /\ SendGhosts(r, lists,
                      [i \in 0 .. grid[r].num_solved - 1 |-> gcinvnum[i + grid[r].offset]],
                      "ghosts")
        /\ stage' = [stage EXCEPT ![r] = "ghosts"]
        /\ UNCHANGED <<globalVars, grid>>

-----------------------------------------------------------------------------
(* generate_grid, from the return of assign_mpi_grid.                      *)

\* the four sides in the order of the boundary lists, and the faces on each
Bottom(m) == [x \in 1 .. m.Nx |-> CellAt(m, x - 1, 0)]
Top(m)    == [x \in 1 .. m.Nx |-> CellAt(m, x - 1, m.Ny - 1)]
Left(m)   == [y \in 1 .. m.Ny |-> CellAt(m, 0, y - 1)]
Right(m)  == [y \in 1 .. m.Ny |-> CellAt(m, m.Nx - 1, y - 1)]
Sides(m)  == <<Bottom(m), Top(m), Left(m), Right(m)>>

OwnFaces(r) ==
    [b \in 1 .. 4 |-> Ascending({c \in ToSet(Sides(mesh)[b]) : RankOf(c) = r})]

\* the ghosts get the local numbers after those of the cells; then the lengths
\* of the arrays, the local neighbours, and the x of the rank's own cells
PlaceGhosts(r) ==
    LET g == grid[r]
        gcinvnum == AntiFunction(g.gcnum)
        vec == Unpack(r, [i \in 0 .. g.num_solved - 1 |-> gcinvnum[i + g.offset]])
        ghosts == g.num_solved .. g.num_involved - 1
        local_global == [i \in Cells(mesh) |-> IF i \in ghosts THEN vec[i] ELSE g.local_global[i]]
        global_local ==
            [c \in Cells(mesh) |-> IF \E i \in ghosts : vec[i] = c
                                   THEN CHOOSE i \in ghosts : vec[i] = c
                                   ELSE g.global_local[c]]
        nbrs == [i \in 0 .. g.num_solved - 1 |-> Neighbors(local_global[i])]
    IN  /\ stage[r] = "ghosts"
        /\ Entered(r, Owners(r))
        /\ grid' = [grid EXCEPT
               ![r].local_global = local_global,
               ![r].global_local = global_local,
               ![r].num_faces = NumNeighbors(mesh)
                                   + SumFunction([i \in DOMAIN nbrs |-> Len(nbrs[i])]),
               ![r].num_attached = Len(FlattenSeq(OwnFaces(r))),
               ![r].cell_neighbors_local =
                   [i \in DOMAIN nbrs |->
                       [k \in DOMAIN nbrs[i] |-> global_local[nbrs[i][k]]]],
               ![r].loc_x = [i \in 0 .. g.num_solved - 1 |->
                                2 * Column(mesh, local_global[i]) + 1]]
        /\ SendGhosts(r, mpiparams[r].slist,
                      [i \in 0 .. g.num_solved - 1 |-> 2 * Column(mesh, local_global[i]) + 1],
                      "loc_x")
        /\ stage' = [stage EXCEPT ![r] = "loc_x"]
        /\ UNCHANGED <<globalVars, mpiparams>>

XTwice(r) ==                                           \* mutant
    LET loc_y == [i \in 0 .. grid[r].num_solved - 1 |->
                     2 * Row(mesh, grid[r].local_global[i]) + 1]
    IN  /\ stage[r] = "loc_x"
        /\ Entered(r, Owners(r))
        /\ grid' = [grid EXCEPT ![r].loc_x = Unpack(r, @), ![r].loc_y = loc_y]
        /\ SendGhosts(r, mpiparams[r].slist, grid[r].loc_x, "loc_y")
        /\ stage' = [stage EXCEPT ![r] = "loc_y"]
        /\ UNCHANGED <<globalVars, mpiparams>>
LocateGhosts(r) ==
    LET loc_y == [i \in 0 .. grid[r].num_solved - 1 |->
                     2 * Row(mesh, grid[r].local_global[i]) + 1]
    IN  /\ stage[r] = "loc_x"
        /\ Entered(r, Owners(r))
        /\ grid' = [grid EXCEPT ![r].loc_x = Unpack(r, @), ![r].loc_y = loc_y]
        /\ SendGhosts(r, mpiparams[r].slist, loc_y, "loc_y")
        /\ stage' = [stage EXCEPT ![r] = "loc_y"]
        /\ UNCHANGED <<globalVars, mpiparams>>

\* a boundary face: its cell, area, centre and outward normal
BoundaryFace(r, b, cell, x, y) ==
    [cell   |-> grid[r].global_local[cell],
     area   |-> IF b \in {1, 2} THEN "dx" ELSE "dy",
     xcen   |-> CASE b = 1 -> <<x, 0>> [] b = 2 -> <<x, 2 * mesh.Ny>>
                  [] b = 3 -> <<0, y>> [] b = 4 -> <<2 * mesh.Nx, y>>,
     normal |-> CASE b = 1 -> <<0, -1>> [] b = 2 -> <<0, 1>>
                  [] b = 3 -> <<-1, 0>> [] b = 4 -> <<1, 0>>]
BoundaryList(r, b, xcen) ==
    LET faces == OwnFaces(r)[b]
    IN  [k \in DOMAIN faces |->
            LET at == xcen[grid[r].global_local[faces[k]]]
            IN  BoundaryFace(r, b, faces[k], at[1], at[2])]

\* boundary_type_start_and_end_index
StartAndEnd(lists) ==
    [b \in 0 .. 4 |-> Len(FlattenSeq(SubSeq(lists, 1, b)))]

\* a face between two cells whose centres are apart by delta: delta / length
\* along an axis, and the area that goes with it
Sign(d) == CASE d > 0 -> 1 [] d < 0 -> -1 [] OTHER -> 0
Unsigned(delta) ==                                     \* mutant
    [area   |-> IF delta[1] # 0 /\ delta[2] = 0 THEN "dy" ELSE "dx",
     normal |-> <<Sign(delta[1]) * Sign(delta[1]), Sign(delta[2]) * Sign(delta[2])>>]
InnerFace(delta) ==
    [area   |-> IF delta[1] # 0 /\ delta[2] = 0 THEN "dy" ELSE "dx",
     normal |-> <<Sign(delta[1]), Sign(delta[2])>>]

LayOutFaces(r) ==
    LET g == grid[r]
        loc_y == Unpack(r, g.loc_y)
        xcen == [i \in 0 .. g.num_involved - 1 |-> <<g.loc_x[i], loc_y[i]>>]
        lists == [b \in 1 .. 4 |-> BoundaryList(r, b, xcen)]
    IN  /\ stage[r] = "loc_y"
        /\ Entered(r, Owners(r))
        /\ grid' = [grid EXCEPT
               ![r].xcen_local = xcen,
               ![r].boundary = FlattenSeq(lists),
               ![r].boundary_type_start_and_end_index = StartAndEnd(lists),
               ![r].face_local =
                   [i \in 0 .. g.num_solved - 1 |->
                       [k \in DOMAIN g.cell_neighbors_local[i] |->
                           LET right == g.cell_neighbors_local[i][k]
                           IN  InnerFace(<<xcen[right][1] - xcen[i][1],
                                           xcen[right][2] - xcen[i][2]>>)]]]
        /\ stage' = [stage EXCEPT ![r] = "grid"]
        /\ UNCHANGED <<globalVars, posted, mpiparams>>

-----------------------------------------------------------------------------
GridInit ==
    /\ mesh \in Meshes
    /\ number_of_neighbors = NumberOfNeighbors(mesh)
    /\ cell_neighbors = CellNeighbors(mesh)
    /\ ranks_list = RanksList(mesh)
    /\ stage = [r \in Procs |-> "start"]
    /\ posted = [r \in Procs |-> <<>>]
    /\ grid = [r \in Procs |-> NewGrid]
    /\ mpiparams = [r \in Procs |-> NewMpiClass]

GridStep(r) ==
    \/ NumberCells(r) \/ FindGhosts(r) \/ CountGhosts(r) \/ AskOwners(r)
    \/ MakeLists(r) \/ PlaceGhosts(r) \/ LocateGhosts(r) \/ LayOutFaces(r)
=============================================================================
