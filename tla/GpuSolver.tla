----------------------------- MODULE GpuSolver -----------------------------
(***************************************************************************)
(* The GPU path of main on one MPI rank: Solver_base_gpu and its sparse     *)
(* matrix system, as a client of the data sets of XpuDataSet.               *)
(*                                                                         *)
(* A function of the solver is the sequence of its operations.  Kernels     *)
(* that are given data sets have them transferred; the linear solvers, the  *)
(* halo exchange and the norm are given gpu_data(), a bare device pointer   *)
(* that the framework knows nothing of.  The contents of a vector say       *)
(* whether its cells and its ghosts are those of the latest write.          *)
(***************************************************************************)
EXTENDS Naturals, Sequences, SequencesExt, FiniteSets

CONSTANTS
    SolverOptions,  \* the options implicit_solver and solver_type to consider
    num_iter,       \* the inner iterations of a linear solver
    MaxSteps        \* bound: the solution converges in so many steps

ASSUME GpuSolverAssumption ==
    /\ SolverOptions \subseteq [implicit_solver : BOOLEAN, solver_type : Nat]
    /\ num_iter \in Nat
    /\ MaxSteps \in Nat

\* what a copy holds: cells of the latest write or of an earlier one; ghosts
\* that came with the latest write, before it, or never (the zeros of the
\* registration); junk is what cudaMalloc leaves
Contents == [own : {"new", "old", "junk"}, ghosts : {"new", "old", "zero", "junk"}]
Blank == [own |-> "new", ghosts |-> "zero"]
Garbage == [own |-> "junk", ghosts |-> "junk"]

INSTANCE XpuDataSet WITH
    Values <- Contents \ {Garbage}, Zero <- Blank, Junk <- Garbage, MaxSize <- 1

MeshVars ==
    {"number_of_neighbors", "cell_neighbors", "area", "normal", "xcen", "volume",
     "boundary_face_to_cell", "boundary_area", "boundary_normal", "boundary_xcen",
     "boundary_type_start_and_end_index"}
MatrixVars == {"ia", "ja", "A_data"}
SolverVars ==
    {"rhs", "dQ", "dQ_old", "Q_cell", "residual", "csr_diag_idx", "rdista",
     "csr_idx", "boundary_rdista", "Q_boundary"}
Vars == MeshVars \union MatrixVars \union SolverVars

\* device memory of malloc_gpu_var, the scalars in managed memory included
Vectors == {"r0", "r", "p", "Ap", "s", "As", "p1", "s1"}
Scalars == {"alpha1", "omega1", "alpha", "beta", "temp"}
Buffers == Vectors \union Scalars \union {"Ax", "data", "min_value", "workspace"}

VARIABLES
    options,  \* implicit_solver and solver_type
    cells,    \* the rank has cells
    ds,       \* the data sets
    scratch,  \* the contents of the live buffers
    spmv,     \* m_spmv_sys->is_setup()
    todo,     \* the operations left of the function calls at hand
    phase,    \* "loop" until main has left its time loop
    count     \* the steps begun

vars == <<options, cells, ds, scratch, spmv, todo, phase, count>>

-----------------------------------------------------------------------------
(* Operations: what they are about, and what they read and write.           *)

Kinds == {"kernel", "raw", "norm", "exchange", "host", "gather", "resize",
          "transfer_to_gpu_noinit", "transfer_to_gpu_move", "transfer_to_cpu_move",
          "malloc", "free", "init_system", "compute", "release_system"}

Operation == [kind   : Kinds,
              reads  : SUBSET (Vars \union Buffers),  \* whose cells are read
              ghosts : SUBSET (Vars \union Buffers),  \* whose ghosts are read too
              writes : SUBSET (Vars \union Buffers)]  \* whose cells are written

Op(kind, reads, ghosts, writes) ==
    [kind |-> kind, reads |-> reads, ghosts |-> ghosts, writes |-> writes]

\* submit_to_gpu with data sets as arguments, mutable where it writes
Kernel(reads, ghosts, writes) == Op("kernel", reads, ghosts, writes)
\* a kernel, memset, memcpy or dot product on bare device pointers
Raw(reads, writes) == Op("raw", reads, {}, writes)
\* l1_norm over the whole vector, its ghosts included
L1Norm(x) == Op("norm", {x}, {}, {})
\* mpi_nbnb_transfer_gpu: the cells the other ranks need go out through a
\* buffer, the ghosts come in
Exchange(x) == Op("exchange", {x}, {}, {})
Host(reads, writes) == Op("host", reads, {}, writes)
\* MPI_Gatherv from the pages of host memory
Gather(x) == Op("gather", {x}, {}, {})
About(kind, xs) == Op(kind, {}, {}, xs)

\* sparse_matvec: a product of the matrix set up and any two vectors
MatVec(x, y) ==
    <<Exchange(x), Op("compute", {"ia", "ja", "A_data", "workspace", x}, {x}, {y})>>
Dot(x, y, result) == Raw({x, y}, {result})

-----------------------------------------------------------------------------
(* The functions of Solver_base_gpu.                                        *)

SetupMatrixStruct ==
    IF ~options.implicit_solver THEN <<>>
    ELSE <<About("resize", {"ia"}),
           Host({"number_of_neighbors", "ia"}, {"ia"}),
           About("resize", {"ja"}), About("resize", {"A_data"}),
           Host({"ia", "number_of_neighbors", "cell_neighbors"}, {"ja"}),
           Host({"ia", "ja", "number_of_neighbors", "cell_neighbors"},
                {"csr_diag_idx", "csr_idx"})>>

SetBoundaryConditions ==
    FlattenSeq([side \in 1 .. 4 |-> <<Host({"boundary_type_start_and_end_index"}, {}),
                                      Kernel({}, {}, {"Q_boundary"})>>])

InitializeSolution == <<Kernel({}, {}, {"Q_cell"}), Exchange("Q_cell")>>

ComputeTimeStep ==
    <<About("malloc", {"data"}),
      Raw({}, {"data"}),
      Kernel({"number_of_neighbors", "area", "data"}, {}, {"data"}),
      Kernel({"boundary_face_to_cell", "boundary_area", "data"}, {}, {"data"}),
      About("malloc", {"min_value"}),
      Raw({}, {"min_value"}),
      Kernel({"volume", "data", "min_value"}, {}, {"data", "min_value"}),
      Raw({"min_value"}, {"min_value"}),               \* MPI_Allreduce
      About("free", {"data"}), About("free", {"min_value"})>>

ComputeRdist ==
    <<Kernel({"number_of_neighbors", "cell_neighbors", "normal", "xcen", "area"}, {},
             {"rdista"}),
      Kernel({"boundary_face_to_cell", "boundary_area", "boundary_normal",
              "boundary_xcen", "xcen"}, {},
             {"boundary_rdista"})>>

ComputeSystem ==
    IF ~options.implicit_solver THEN <<>>
    ELSE <<About("transfer_to_gpu_noinit", {"A_data"}),
           Raw({}, {"A_data"}),
           Kernel({"csr_diag_idx", "volume", "A_data"}, {}, {"A_data"}),
           Kernel({"number_of_neighbors", "rdista", "csr_diag_idx", "csr_idx", "A_data"},
                  {}, {"A_data"}),
           Kernel({"boundary_face_to_cell", "boundary_rdista", "csr_diag_idx", "A_data"},
                  {}, {"A_data"})>>

\* the residual of the cells, from their neighbours and from the boundary
Diffusion ==
    <<Kernel({"number_of_neighbors", "cell_neighbors", "rdista", "Q_cell"}, {"Q_cell"},
             {"residual"}),
      Kernel({"boundary_face_to_cell", "Q_boundary", "Q_cell", "boundary_rdista",
              "residual"}, {}, {"residual"})>>
NormAndRhs ==
    <<L1Norm("residual")>>
    \o IF options.implicit_solver THEN <<Kernel({"residual"}, {}, {"rhs"})>> ELSE <<>>
ResidualNotInitialized ==                              \* mutant
    <<About("transfer_to_gpu_noinit", {"residual"})>> \o Diffusion \o NormAndRhs
ComputeResidual == Diffusion \o NormAndRhs

NotTransferred == <<Raw({}, {"dQ_old"})>>              \* mutant
ZeroOld == <<About("transfer_to_gpu_noinit", {"dQ_old"}), Raw({}, {"dQ_old"})>>
JacobiLinearSolver ==
    ZeroOld
    \o FlattenSeq([iter \in 1 .. num_iter |->
          <<Exchange("dQ_old"),
            Kernel({"rhs", "A_data", "ia", "ja", "dQ_old"}, {"dQ_old"}, {"dQ"}),
            Raw({"dQ"}, {"dQ_old"})>>])

NotReleased == <<>>                                    \* mutant
ReleaseOld == <<About("release_system", {})>>
SetupSpmvSystem ==
    ReleaseOld
    \o <<About("transfer_to_gpu_noinit", {"dQ"}), About("transfer_to_gpu_move", MatrixVars),
         Op("init_system", MatrixVars, {}, {"workspace"})>>

BicgstabIteration ==
    <<Raw({"p"}, {"p1"}), Dot("r", "r0", "alpha1")>> \o MatVec("p1", "Ap")
    \o <<Dot("Ap", "r0", "alpha"),
         Raw({"alpha1", "alpha"}, {"alpha"}),
         Raw({"r", "alpha", "Ap"}, {"s"}),
         Raw({"s"}, {"s1"})>> \o MatVec("s1", "As")
    \o <<Dot("As", "s", "omega1"), Dot("As", "As", "temp"),
         Raw({"omega1", "temp"}, {"omega1"}),
         Raw({"dQ", "alpha", "p1"}, {"dQ"}),
         Raw({"dQ", "omega1", "s1"}, {"dQ"}),
         Raw({"s", "omega1", "As"}, {"r"}),
         Dot("r", "r0", "beta"),
         Raw({"beta", "alpha", "alpha1", "omega1"}, {"beta"}),
         Raw({"r", "beta", "p"}, {"p"}),
         Raw({"p", "beta", "omega1", "Ap"}, {"p"})>>

BicgstabLinearSolver ==
    <<About("transfer_to_gpu_noinit", {"dQ"}), Raw({}, {"dQ"}),
      About("malloc", Vectors \union Scalars), About("malloc", {"Ax"})>>
    \o MatVec("dQ", "Ax")
    \o <<Raw({"rhs", "Ax"}, {"r0"}), About("free", {"Ax"}),
         Raw({"r0"}, {"r"}), Raw({"r0"}, {"p"})>>
    \o FlattenSeq([iter \in 1 .. num_iter |-> BicgstabIteration])
    \o <<About("free", Vectors \union Scalars)>>

\* the correction of the solution, before it is sent round
Correction ==
    IF ~options.implicit_solver
    THEN <<Kernel({"volume", "residual", "Q_cell"}, {}, {"Q_cell"})>>
    ELSE (IF options.solver_type = 0 THEN JacobiLinearSolver
          ELSE SetupSpmvSystem \o BicgstabLinearSolver)
         \o <<Kernel({"dQ", "Q_cell"}, {}, {"Q_cell"})>>
NotSentRound == Correction                             \* mutant
UpdateSolution == Correction \o <<Exchange("Q_cell")>>

WriteSolution ==
    <<About("transfer_to_cpu_move", {"Q_cell"}), Gather("Q_cell"),
      About("transfer_to_cpu_move", {"xcen"}), Gather("xcen")>>

\* ~Solver_base_gpu
Destroy == <<About("release_system", {})>>

-----------------------------------------------------------------------------
(* What an operation does to the copies.                                    *)

\* new cells leave the ghosts behind, and every other copy
NewCells(c) == [own |-> "new", ghosts |-> IF c.ghosts = "new" THEN "old" ELSE c.ghosts]
NewGhosts(c) == [c EXCEPT !.ghosts = "new"]
Superseded(c) ==
    [own    |-> IF c.own = "new" THEN "old" ELSE c.own,
     ghosts |-> IF c.ghosts = "new" THEN "old" ELSE c.ghosts]

OnDevice(d, c) == IF d.size = 0 THEN d ELSE [KernelStore(d, c) EXCEPT !.host = Superseded(@)]
OnHost(d) == [HostStore(d, NewCells(d.host)) EXCEPT !.dev = Superseded(@)]

Head1 == Head(todo)
Is(kind) == todo # <<>> /\ Head1.kind = kind

\* transfer_vars_to_gpu_internal leaves a TEMP_WRITE copy alone
AsArgument(d, mode) ==
    LET s == Setup(d) IN IF s.gpu = "TEMP_WRITE" THEN s ELSE TransferToGpu(s, mode)
ArgumentMode(v) == IF v \in Head1.writes THEN "MOVE" ELSE "READ_ONLY"

\* a host access that faults goes on after the handler's transfer, which keeps
\* the GPU as a reader if the data set was read through a const operator
Accessible(v) ==
    LET stored == v \in Head1.writes
    IN  IF (IF stored THEN Storable(ds[v]) ELSE Loadable(ds[v])) THEN ds[v]
        ELSE FaultTransfer(ds[v], ~stored)

\* the data set once the transfers of the operation are done
Readied(v) ==
    CASE Is("transfer_to_gpu_noinit") /\ v \in Head1.writes ->
            TransferToGpu(Setup(ds[v]), "NOT_INITIALIZE")
      [] Is("transfer_to_gpu_move") /\ v \in Head1.writes ->
            TransferToGpu(Setup(ds[v]), "MOVE")
      [] Is("transfer_to_cpu_move") /\ v \in Head1.writes ->
            TransferToCpu(ds[v], "MOVE")
      [] Is("kernel") /\ v \in Head1.reads \union Head1.writes ->
            AsArgument(ds[v], ArgumentMode(v))
      [] Is("host") /\ v \in Head1.reads \union Head1.writes -> Accessible(v)
      [] OTHER -> ds[v]

-----------------------------------------------------------------------------
(* Actions.                                                                 *)

Advance == todo' = Tail(todo) /\ UNCHANGED <<options, cells, phase, count>>

\* what runs on the device stores into data sets and buffers
DeviceCode(kinds) ==
    /\ \E kind \in kinds : Is(kind)
    /\ ds' = [v \in Vars |-> LET d == Readied(v)
                             IN  IF v \in Head1.writes THEN OnDevice(d, NewCells(d.dev)) ELSE d]
    /\ scratch' = [x \in DOMAIN scratch |->
                     IF x \in Head1.writes THEN NewCells(scratch[x]) ELSE scratch[x]]
    /\ Advance

SubmitToGpu == DeviceCode({"kernel"}) /\ UNCHANGED spmv
UsePointers == DeviceCode({"raw", "norm"}) /\ UNCHANGED spmv
Compute == DeviceCode({"compute"}) /\ UNCHANGED spmv

NbnbTransferGpu ==
    /\ Is("exchange")
    /\ ds' = [v \in Vars |-> IF v \in Head1.reads THEN OnDevice(ds[v], NewGhosts(ds[v].dev))
                             ELSE ds[v]]
    /\ scratch' = [x \in DOMAIN scratch |->
                     IF x \in Head1.reads THEN NewGhosts(scratch[x]) ELSE scratch[x]]
    /\ UNCHANGED spmv
    /\ Advance

Transfer ==
    /\ Is("transfer_to_gpu_noinit") \/ Is("transfer_to_gpu_move") \/ Is("transfer_to_cpu_move")
    /\ ds' = [v \in Vars |-> Readied(v)]
    /\ UNCHANGED <<scratch, spmv>>
    /\ Advance

\* MPI_Gatherv reads where it is told to: nothing changes
HostCode ==
    /\ Is("host") \/ Is("gather")
    /\ ds' = [v \in Vars |-> LET d == Readied(v)
                             IN  IF v \in Head1.writes /\ d.size > 0 THEN OnHost(d) ELSE d]
    /\ UNCHANGED <<scratch, spmv>>
    /\ Advance

\* ia has an entry more than the rank has cells
Entries(v) == IF cells \/ v = "ia" THEN 1 ELSE 0

Resize ==
    /\ Is("resize")
    /\ ds' = [v \in Vars |-> IF v \in Head1.writes THEN ResizeInternal(ds[v], Entries(v), FALSE)
                             ELSE ds[v]]
    /\ UNCHANGED <<scratch, spmv>>
    /\ Advance

Malloc ==
    /\ Is("malloc")
    /\ scratch' = [x \in DOMAIN scratch \union Head1.writes |->
                     IF x \in Head1.writes THEN Garbage ELSE scratch[x]]
    /\ UNCHANGED <<ds, spmv>>
    /\ Advance

Freed(xs) == [x \in DOMAIN scratch \ xs |-> scratch[x]]

Free ==
    /\ Is("free")
    /\ scratch' = Freed(Head1.writes)
    /\ UNCHANGED <<ds, spmv>>
    /\ Advance

\* sparseSPMV::init_system and release_system
InitSystem ==
    /\ Is("init_system")
    /\ spmv' = TRUE
    /\ scratch' = [x \in DOMAIN scratch \union {"workspace"} |->
                     IF x = "workspace" THEN Blank ELSE scratch[x]]
    /\ UNCHANGED ds
    /\ Advance

ReleaseSystem ==
    /\ Is("release_system")
    /\ spmv' = FALSE
    /\ scratch' = IF spmv THEN Freed({"workspace"}) ELSE scratch
    /\ UNCHANGED ds
    /\ Advance

\* the residual is above the tolerance, or it is not
NextStep ==
    /\ todo = <<>> /\ phase = "loop" /\ count < MaxSteps
    /\ todo' = UpdateSolution \o ComputeResidual
    /\ count' = count + 1
    /\ UNCHANGED <<options, cells, ds, scratch, spmv, phase>>

LeaveLoop ==
    /\ todo = <<>> /\ phase = "loop"
    /\ todo' = WriteSolution \o Destroy
    /\ phase' = "end"
    /\ UNCHANGED <<options, cells, ds, scratch, spmv, count>>

\* on a rank without cells these are not empty: num_faces starts from the faces
\* of the whole mesh
NeverEmpty == {"boundary_type_start_and_end_index", "number_of_neighbors", "area",
               "cell_neighbors", "normal", "rdista", "csr_idx"}

\* the grid has filled the mesh; allocate_variables has registered the rest
Init ==
    /\ options \in SolverOptions
    /\ cells \in BOOLEAN
    /\ ds = [v \in Vars |->
               NewDataSet(TRUE, IF v \notin MatrixVars /\ (cells \/ v \in NeverEmpty)
                                THEN 1 ELSE 0)]
    /\ scratch = [x \in {} |-> Garbage]
    /\ spmv = FALSE
    /\ todo = SetupMatrixStruct \o SetBoundaryConditions \o InitializeSolution
              \o ComputeTimeStep \o ComputeRdist \o ComputeSystem \o ComputeResidual
    /\ phase = "loop"
    /\ count = 0

Next ==
    \/ SubmitToGpu \/ UsePointers \/ Compute \/ NbnbTransferGpu \/ Transfer
    \/ HostCode \/ Resize \/ Malloc \/ Free \/ InitSystem \/ ReleaseSystem
    \/ NextStep \/ LeaveLoop

Spec == Init /\ [][Next]_vars

-----------------------------------------------------------------------------
(* Properties.                                                              *)

OnTheDevice == {"kernel", "raw", "norm", "exchange", "compute", "init_system"}
DataSetsOf(xs) == {v \in xs \intersect Vars : ds[v].size > 0}

\* Whatever runs on the device reads the latest cells, and the ghosts that belong
\* to them; it reads no buffer that was freed or never written.
DeviceReadsAreCurrent ==
    todo # <<>> /\ Head1.kind \in OnTheDevice =>
        /\ \A v \in DataSetsOf(Head1.reads) :
              LET d == Readied(v)
              IN  d.dev.own = "new" /\ (v \in Head1.ghosts => d.dev.ghosts = "new")
        /\ \A x \in Head1.reads \ Vars :
              /\ x \in DOMAIN scratch
              /\ scratch[x].own = "new" /\ (x \in Head1.ghosts => scratch[x].ghosts = "new")

\* Memory used behind the framework's back is owned by its user.  A bare device
\* pointer is used only while the GPU owns the data set, and written through only
\* while no host copy counts as up to date: the framework would not notice, and
\* the next reader on the CPU would see the old values.  What MPI is given to send
\* from host memory is readable and current: in a system call no fault handler
\* moves the data set back.
PointersAreOwned ==
    /\ todo # <<>> /\ Head1.kind \in OnTheDevice \ {"kernel"} =>
           /\ \A v \in DataSetsOf(Head1.reads \union Head1.writes) :
                 ds[v].instance /\ ds[v].gpu \in UpToDate
           /\ \A v \in DataSetsOf(Head1.writes \union
                                  IF Is("exchange") THEN Head1.reads ELSE {}) :
                 ds[v].cpu \notin UpToDate
    /\ Is("gather") => \A v \in DataSetsOf(Head1.reads) :
                           Loadable(ds[v]) /\ ds[v].host.own = "new"

\* The norm of the residual sums the entries of its ghosts too: they must be the
\* zeros of the registration for ever, or the ghosts are counted twice.
NormCountsNoGhosts ==
    Is("norm") => \A v \in DataSetsOf(Head1.reads) : ds[v].dev.ghosts = "zero"

\* The matrix system and the device buffers live exactly as long as they are used:
\* a product finds the system set up, it is set up again only after it was released
\* (the asserts of sparse_matvec and init_system), only live buffers are freed and
\* only dead ones allocated, and the end of the program leaves nothing behind.
LifetimesMatch ==
    /\ Is("compute") => spmv
    /\ Is("init_system") => ~spmv
    /\ Is("malloc") => Head1.writes \intersect DOMAIN scratch = {}
    /\ Is("free") => Head1.writes \subseteq DOMAIN scratch
    /\ todo = <<>> => DOMAIN scratch \subseteq {"workspace"}
    /\ todo = <<>> /\ phase = "end" => DOMAIN scratch = {} /\ ~spmv
=============================================================================
