# A TLA+ development for kamtof_cuda

kamtof_cuda solves a Laplace problem on an unstructured mesh, with MPI between
ranks and CUDA within a rank. Its own core is not the solver but the framework
below it: the *SILO*, a registry of named data sets, and *GDF*, which keeps the
host copy and the device copy of every data set coherent without the solver
asking for it. A kernel launch brings its arguments to the GPU; a host access to
pages whose rights were withdrawn raises SIGSEGV, and a signal handler brings
the data set back. This directory models that machinery and the solver on top of it, checks
both with TLC and proves with TLAPS the safety of the framework, up to the promise it
makes its user, the results of the kernels of its math functions, that the ranks set up
one mesh and one matrix between them, make the same calls in the time loop and compute
from fresh ghosts there, and that the GPU solver, which goes behind the framework's
back, reads no stale memory. The build
modelled is the RELEASE build with `ENABLE_GPU`, in which `assert()` expands to
nothing: an assert is a statement of what the authors believe, never a guard.

## Inventory

| Part | Source | State | Operations | Interacts with | What makes it correct |
|---|---|---|---|---|---|
| Data coherence | `gpu_framework/src/gpu_manager_t.cpp`, `GPUInstance_t.cpp`, `datasetbase_gpu_funcs_impl.cpp` | per data set: status of the CPU and of the GPU, device buffer, page rights | transfers in five modes and two directions, allocate, resize, protect | called by launches, by the handler, by resize | one owner; equal copies where both count; rights that follow the status; buffers of the right size |
| Kernel launch, memory API | `gpu_api_functions.{h,cpp}` | none of its own | `submit_to_gpu`, `transfer_to_*`, `memcpy_gpu_var`, `copy_all`/`move_all_silo_vars_to_cpu` | data coherence, one call per argument | all arguments usable when the kernel starts |
| Page fault handler | `cpu_framework/src/pagefault_handler.cpp` | `dsb_addr_set`, `in_const_operator`, `old_handler` | look up the address, transfer, return to the access | data sets, data coherence | a fault inside a data set finds it; it is resolved in finitely many faults; a foreign fault is passed on |
| Data sets | `cpu_framework/src/datasetbase.cpp`, `datasetbase.h`, `dataset.h`, `datasetstorage.h` | `m_data`, sizes, offsets, `gpu_instance` | construct, resize, access, destroy, local memory | SILO, handler, coherence | values survive a resize; set of addresses equals the mapped memory |
| SILO | `silo.cpp`, `silo.hpp` | maps by storage type of registered and unresolved entries, global sizes | register, retrieve, resize, `for_each`, clear | data sets | one entry per name; references taken before registration stay valid; nothing is left at the end |
| Device-side data sets | `datasetbasegpu.cpp`, `datasetgpu.h`, `datasetstoragegpu.h` | device pointer, copied offsets | indexing in kernels | coherence | agree with the host object |
| GPU math, atomics | `gpu_math_api_functions.cpp`, `gpu_atomics.h` | result and scratch in device memory | reductions, CSR product, axpy, atomics | kernels | no data race, no lost update, every element counted once |
| Demonstrations | `gpu_framework/test/demonstrate_temp_write.cpp`, `porting_stage_scenario.cpp`, `test_funcs.cpp` | their data sets | Newton iteration with CPU post-processing; a loop ported kernel by kernel | data coherence, asynchronous kernels | scratch values never flow back; as many copies as the comments count |
| SpMV wrapper | `spraseSPMV.cpp` | cuSPARSE handles and buffer | set up, multiply, destroy | GPU solver | order of calls |
| Mesh and halo | `solver/cpu/src/grid.cpp` | partition, ghost lists | generate, distribute, exchange | MPI | every cell owned once, sends match receives |
| Solvers | `solver_base.cpp`, `solver_base_gpu.cpp` | solution, residual, matrix | iterate, norms, write | everything above | same collectives on all ranks |
| Main program | `main.cpp` | | start, loop, teardown | everything | order of start and teardown |
| Input parser | `input_parser.cpp`, `input_parser.h`, `main.cpp` | the options, one copy per rank | read the file line by line, convert values, count them | solver, mesh | a rank that goes on has what the user wrote |
| Logging, MPI helpers | `logger.hpp`, `mpi_utils.cpp` | | | | |

The hard behaviours of the framework are sequences rather than threads: on a rank
one host thread runs, but any statement of it may fault, and the transfer that answers the fault
depends on a status left by calls long past and on a global flag left by
whichever operator ran last. The ranks add real concurrency: each runs ahead of
the others as far as its collective calls let it, asks its neighbours for ghosts
by number and must find every other rank in the same call. Two more kinds of
concurrency are on the device: the threads of one launch, which share memory, and
the asynchronous kernels of `submit_to_gpu_async`, which run while the host goes
on. The solver starts none of the latter; a demonstration does.

## Modules

| Module | Models | Correspondence |
|---|---|---|
| `XpuDataSet` | one data set: host pages, device buffer, statuses | no variables. Each operator is one function of the code, from a data set (a record) to a data set: `TransferToGpu` is `transfer_to_gpu_internal` with its two switches (`ToGpuPush`, `ToGpuPull` decide the memcpy, `CpuAfterToGpu`, `GpuAfterToGpu` the statuses) and the trailing `protect_m_data`; `ResizeInternal` is `resize_internal` with the fault its memcpy may take |
| `GpuManager` | the host program on a set of data sets | `ds` the data sets; `inConst` is `in_const_operator`; `task`, `todo`, `kernel`, `faults` say where the thread is in a launch or a statement. One action per API call; a launch is `LaunchBegin`, one `TransferArgument` per argument, `RunKernel`; a statement is `Evaluate`, then `Fault` and `Perform` per operand |
| `SingleCopy` | what the framework promises | a store in which each data set has one value and at most one device a private copy (COPY, SYNC_AND_MOVE) |
| `GpuManagerRefinement` | the refinement mapping | the value is the copy whose status is up to date, the private copy the one marked TEMP_WRITE |
| `MCGpuManager` | instances | argument lists and statements |
| `PageFault` | addresses, pages, `dsb_addr_set` and the lookup | bytes are numbers; `prot` is what `mmap`, `mprotect` and `munmap` left; `Candidate` is the `upper_bound` and decrement of the handler; a resize is two steps because its memcpy may fault between them |
| `MCPageFault` | instances | |
| `GpuManagerProofs`, `PageFaultProofs`, `SiloProofs`, `TimeLoopProofs`, `GpuSolverProofs`, `DemonstrationsProofs`, `StartProofs` | proofs | see below |
| `Mesh` | the connectivity of the whole mesh and its partition, as functions | `CellNeighbors` and `NumberOfNeighbors` are the arrays of `generate_grid`, `RanksList` that of `distribute_grid` |
| `GridSetup` | `generate_grid`, `assign_mpi_grid` and `mpi_nbnb_transfer` on every rank | `grid[r]` and `mpiparams[r]` are what rank r has computed, `stage[r]` the collective call it is in. One action is the code between two collective calls |
| `SolverSetup` | the set up of `Solver_base`: CSR structure, boundary values, distances, time step, matrix | extends `GridSetup`: the same ranks run on |
| `MCSolverSetup` | instances | |
| `TimeMarch` | what the program promises: one residual history, one number of steps, one file with every cell in order | abstract, without ranks |
| `TimeLoop` | main's time loop on every rank, the explicit, Jacobi and BiCGSTAB solver, `write_solution` | `own` and `halo` give the age (step, inner iteration) of a vector's cells and ghosts, `residual_norm` the residuals a rank has pushed back; `March` is the refinement mapping to `TimeMarch` |
| `MCTimeLoop` | instances | |
| `GpuSolver` | the GPU path of main on one rank, with the sparse matrix system | instantiates `XpuDataSet`. A function of `Solver_base_gpu` is the sequence of its operations: kernels with data sets as arguments, accesses through bare `gpu_data()` pointers, exchanges, transfers, allocations; one action per kind of operation |
| `MCGpuSolver` | instance | |
| `GpuMath` | the kernels of the math functions, thread by thread | `pc`, `idx` and `reg` are a thread's position, loop variable and local result, `scratch` is `thread_result`, `result` the memory the kernel writes. One action per access to shared memory; `SyncThreads` is the barrier; a compare-and-swap loop is a load and an attempt that may fail |
| `GpuMathProofs` | proofs | see below |
| `MCGpuMath` | instances | vectors, matrices, first extrema |
| `Silo` | the registry, the life of an entry, offsets and byte sizes, local memory, the device-side object | extends `XpuDataSet`. `m_data` and `m_unresolved_data` are the two tables of each storage type, `heap` the objects, `handles` the references a program holds. One action per call of the program; `ClearEntries` is the end |
| `MCSilo` | instances | the entries a program declares |
| `Demonstrations` | `demonstrate_temp_write` and `porting_stage_scenario` | extends `XpuDataSet`. `pc` is the host's next statement, `stream` the kernels submitted and not yet run. A vector is a term (the functions applied to it), so that an output says which iterate it was computed from; `copies` counts memcpys |
| `MCDemonstrations` | instance | |
| `InputParser` | `main` and `InputParser` on every rank | `at` is the line a rank reads; a value is a sequence of digits and letters, because `erase` may eat some of it. `Exit` and the exceptions nobody catches end every rank |
| `MCInputParser` | instance | lines of a file |

In `GridSetup`, `SolverSetup` and `TimeLoop`, `posted[r]` is the sequence of what
rank r has given to its collective calls, so that any rank may be ahead of any
other. `MPI_Allgather`, `MPI_Alltoall` and `MPI_Allreduce` return once all ranks
have entered; `MPI_Alltoallv` needs only the ranks that data is received from;
in `MPI_Gather` and `MPI_Gatherv` only the root waits. This is the weakest
synchronisation the MPI standard allows, and a run that holds under it holds
under a stronger one.

Lengths in `GridSetup` and `SolverSetup` are integers: a cell is two units wide
and high, so that centres and faces have whole coordinates. A coefficient of the
matrix counts the terms volume/dt, dy/dx and dx/dy it is the sum of, which is
exact where floating point is not. `TimeLoop` leaves the numbers out: a rank's
share of a residual is any of a few values.

In `GpuSolver` the contents of a vector say whether its cells are those of the
latest write, and whether its ghosts came with it. A write of the cells makes
the ghosts old, because the other ranks run the same operation.

In the framework's modules data is abstracted to one value per data set: the
framework copies whole data sets and never part of one. The content of fresh
device memory is `Junk`, which is not a value a program stores, so that reading
it is noticed. The size of a data set is a small number because the code
distinguishes empty from non-empty and buffer size from data set size.

`event` in `GpuManager` names the request of the last step and what a load, a
store or a kernel saw and wrote. It is the interface between the program and the
framework and the shared variable of the refinement; no action reads it.

`Waived` lists obligations that a run lets the user of a component ignore. They
are what an assert demands, which no line enforces, or uses that no line forbids
and that go wrong. With `Waived = {}` the caller meets them all; each can be
waived in a configuration to see what it is for.

| Module | Obligation | Without it |
|---|---|---|
| `GpuManager` | `copy`: a COPY is made of a data set the other device owns | the assert at `gpu_manager_t.cpp:330` fails and, in the release build, no copy counts (`OneOwner`) |
| | `copy_all`: the same for `copy_all_silo_vars_to_cpu` | the same |
| | `resize_scratch`: no resize while the CPU has a TEMP_WRITE copy | the scratch values become the values |
| | `resize_unresolved`: no resize of an unregistered entry that has a GPU instance | the next launch ends the program |
| `Silo` | `multi_dim`: an entry with a shape is not resized after its registration | memory for a fraction of its values (`EntriesFit`, run `multi_dim`) |
| | `early_offsets`: an entry with a shape gets no GPU instance before it is registered | its offsets never reach the device (`DeviceFollowsHost`) |
| | `shrink_to_empty`: no entry with a device buffer is resized to nothing | the buffer leaks (`NothingLeft`) |
| | `resize_unresolved` | as above |
| | `allocate_bytes`: `allocate_memory` only for entries of single bytes | the size in bytes is taken for a number of entries (`EntriesFit`) |
| | `memory_first`: an entry without memory is not sent to the GPU | a copy from a null pointer (`CopiesHaveMemory`) |
| | `copy`: as above | a COPY and a SYNC_AND_MOVE to the CPU of an entry resized there leave the device with the old buffer, and the statuses say that it counts (`DeviceFollowsHost`) |
| `GpuMath` | `l1_scratch`: the caller of `l1_norm` clears its scratch memory | variant 1 adds to what malloc left (`ResultIsExact`) |
| | `linf_length`: a vector is not shorter than the block | threads without elements win with the largest number (`ResultIsExact`) |
| `Demonstrations` | `functor_lives`: the stack frame of an asynchronous launch is intact when the kernel runs | the kernel reads another one's captures (`NormIsOfTheLastKernel`) |
| | `own_operator`: the operands of an assignment are evaluated so that a load faults with its own flag | more copies than documented (`CopiesAsDocumented`) |
| `InputParser` | `input_file`: the program is given a file | ranks other than the root read options through an unset pointer (`OptionsAreAsGiven`) |
| | `once`: no option is given twice | a repeated one hides a missing one from the count (`OptionsAreAsGiven`) |
| | `margin`: a name is indented no further than it is away from its value | digits of the value are erased (`OptionsAreAsGiven`) |

A definition marked `mutant` is wrong on purpose: put in place of the definition
below it, it stands for a plausible bug and shows that a property notices it.

## Runs

| Run | Instance | Shows |
|---|---|---|
| `one_data_set` | one data set of at most 2 entries, two values, argument lists of length up to 2 (aliased and not), statements of one or two operands through const, mutable and raw accesses | all invariants, `TaskCompletes`, and that the framework implements `SingleCopy` |
| `two_data_sets` | two data sets of at most one entry, registered or not, one value; kernels and statements that use both | the interplay: transfers of one argument and of another, `in_const_operator` set for one data set and used for the fault of the other, device copies between them. One value and junk show unwritten memory; stale values are the question of `one_data_set` |
| `page_fault` | two data sets of up to 3 bytes, pages of 2 bytes, 5 pages | every layout of two data sets and a resize under way, with and without a gap, data sets that fill their last page and that do not; accesses to every address |
| `solver_setup` | meshes of 2 to 4 by 2 to 3 cells on 1 to 3 ranks | the parts of the mesh that the ranks compute fit together: who sends a cell and who receives it (`SendListsFit`, `GhostsAreTheirOwners`), faces and neighbours (`FacesMeet`), boundary values (`SidesHaveTheirValues`), the matrix (`MatrixIsTheLaplacian`); all ranks make the same calls (`CollectivesMatch`) and reach the end (`SetupEnds`) |
| `time_loop` | four ranks with 1, 2, 1 and 0 cells, each solver, two inner iterations or, of a linear solver, none, at most two steps | ranks that run ahead of each other compute from ghosts of the right iteration (`GhostsAreFresh`), end (`ProgramEnds`) and together march as one program (`MarchesAsOne`) |
| `gpu_solver` | one rank with cells or without, each solver, three steps | bare device pointers meet data sets the GPU owns, and MPI reads pages it may read (`PointersAreOwned`); kernels and products read current cells and ghosts (`DeviceReadsAreCurrent`), the norm's ghosts are zero (`NormCountsNoGhosts`), the matrix system and every buffer live as long as they are used (`LifetimesMatch`) |
| `gpu_math` | three threads, vectors of up to four elements, every kernel | no two threads meet in an entry by plain accesses, one of them writing (`RaceFree`); what a finished kernel leaves is the sequential result (`ResultIsExact`); the compare-and-swap loops lose no update (`ExtremaAreExact`); every kernel ends (`KernelEnds`) |
| `silo` | three declarations (an entry without and one with a shape, a vector that shares a name with the first), sizes up to 2, the modes MOVE, COPY and SYNC_AND_MOVE | a name denotes one object through every handle (`OneEntryPerName`), every index has memory on the host (`EntriesFit`) and the device object agrees (`DeviceFollowsHost`), no copy is from or to nothing (`CopiesHaveMemory`), and clearing leaves neither object nor buffer (`NothingLeft`) |
| `demonstrations` | both demonstrations, synchronous and asynchronous kernel, up to 6 iterations | the error at the loop test is the norm of what the last kernel left, not of the scratch copy (`NormIsOfTheLastKernel`), an output is computed from one iterate (`OutputIsOfOneIterate`), each porting stage makes the copies its comments count (`CopiesAsDocumented`) |
| `input_parser` | two ranks, three options, every file of up to four lines out of ten | whoever goes on to the solver has the options the file gives, on every rank (`OptionsAreAsGiven`) |
| `wild_access`, `multi_dim` | the smallest instance that shows it | a comment and an assert that the code does not bear out; see Findings |

Why the bounds are enough. The statuses of a data set are finite; a run visits
every reachable pair with every mode. Two argument positions are enough for one
transfer to undo another. Two operands are enough for a flag set by one to be
used for the other. Two values tell stale from current. Two sizes besides 0 tell
growing from shrinking. For `page_fault`, two data sets with every relative
position, and a third range while one is resized, cover the neighbours that the
lookup can confuse. The proofs lift these bounds where they matter.

A mesh of two columns has no interior cell, one of three by three has one, and
four columns give a rank a stripe with a neighbour on either side. More ranks
than columns leave a rank without cells. (A mesh of one row or column is out of
the code's reach: it counts four corners.) In `time_loop` the second of four
ranks has neighbours on both sides, the last has no cell and no neighbour and
can run ahead until the next reduction. Two inner iterations tell the first from
the last, two steps tell a fresh ghost from one of the step before. `gpu_solver`
takes three steps because data sets that only the loop uses are first moved in
step one; its program is deterministic apart from its length, so it has few
states.

In `gpu_math` three threads and up to four elements give a thread none, one and two
elements, so that a thread passes its loop without entering it, once and with the
stride. Sizes up to 2 in `silo` tell an element from a byte and growing from shrinking.
Registering a name twice meets the abort of `register_entry`; asking for a name with a
second type of value aborts in the same way, and is modelled (`RegisterEntry`,
`RetrieveEntry`) but not part of this run: it would double the states, and no property
tells the two aborts apart. MOVE takes the pages away before a resize, SYNC_AND_MOVE to
the CPU is the one transfer there that makes a new device buffer, and COPY the one that
could come in between; all five modes are those of `one_data_set` and of the proofs. In
`demonstrations` the first iteration meets fresh buffers, the second the scratch copy of
the one before, and the later ones repeat it. Three options in `input_parser`, one per
kind of value, suffice for a file that lacks one, repeats one or names one in a remark.

`MaxSteps` bounds the steps until convergence, which the code does not: a program
whose residual never falls below the tolerance runs for ever. So does one whose linear
solver makes no iteration, since its solution never changes: `ProgramEnds` says nothing
of it (`Iterates`), the other properties hold for it too. `Shares` are the values a
rank's part of a residual may take. How many iterations a linear solver makes of the
`num_iter` in the input file is `Iterations` in `TimeLoop`; the constant `num_iter` of
`GpuSolver` is that number.

`FaultLimit` (3) caps the counter of faults, which the code does not have: it
measures how often an access faulted, and `FaultsBounded` says 2 is never passed.

Fairness. `GpuManager` assumes weak fairness of a statement or launch that has
begun: the thread executes its next instruction. No fairness makes a program
begin anything. `PageFault` assumes the same of a pending access and of the
second half of a resize. `GridSetup`, `SolverSetup` and `TimeLoop` assume it of
each rank on its own. `GpuMath` assumes it of each thread: the hardware
schedules every thread of a launch until it ends. All are what a scheduler gives a runnable thread or process;
a rank that waits in a collective call is not runnable. Where a run turns the
deadlock check off the program ends, and `SetupEnds` or `ProgramEnds` says that no
rank stops before.

## Findings

- A wild access to the byte after a data set that fills its pages is retried for
  ever instead of being reported (`wild_access`, `pagefault_handler.cpp:92`).
- `resize_internal` leaves the size of a value out of the byte size of an entry
  with a shape (`datasetbase.cpp:67`; `set_offsets`, line 55, multiplies it in), so
  that of two equal entries one gets a fraction of its memory (`multi_dim`).

Seen while modelling, without a run of their own:

- `transfer_to_cpu_syncandmove` (`gpu_manager_t.cpp:429`) leaves the GPU the owner
  and gives the CPU a TEMP_WRITE copy; the comment of SYNC_AND_MOVE
  (`gpu_enums.h:23`) promises the data to the device mentioned. The models follow
  the code.
- `copy_all_silo_vars_to_cpu` (`gpu_api_functions.cpp:135`) makes a TEMP_WRITE copy
  also of a data set the CPU itself owns, against the assert at
  `gpu_manager_t.cpp:330`. No copy then counts; the next fault brings stale device
  memory. The function is not called in the repository.
- Shrinking to empty leaks the device buffer (`gpu_manager_t.cpp:531`).
- Started without an input file, only rank 0 gets a parser (`main.cpp:53`); every
  other rank reads through a pointer it never set.
- `tol_type` is documented as choosing a relative tolerance (`input_parser.h:15`),
  read, and used nowhere (`main.cpp:109`).
- Nothing keeps `num_iter` positive. The loop of Jacobi counts in `unsigned int`
  (`solver_base.cpp:215`), so that a negative number is one of about four thousand
  million iterations, and that of BiCGSTAB in `int` (`:308`), so that it is none.
  Without an iteration the correction stays zero and the time loop never ends.
- `InputParser` calls `erase(pos, pos + len)` (`input_parser.cpp:133`), whose second
  argument is a length. Only the blanks before a value keep an indented name from
  taking digits with it. The name of another option in a remark may be found
  first. A value that is no number ends the program with an exception.
- A resize while the CPU works on a TEMP_WRITE copy makes that copy the values;
  `silo::resize` after an unregistered entry was given to a kernel ends the
  program at the next launch.
- Resolving an entry that was retrieved first ignores `allocate_mem`, and neither
  registering nor retrieving compares the dimensions of an entry, only the type of
  its values.
- A wild access below all data sets decrements `begin()` of `dsb_addr_set`.
- `num_faces` is not reset between the whole mesh and the rank's part of it, so
  FACE data sets are longer than needed.
- `MPI_Allreduce` is given the same buffer to send and to receive
  (`solver_base.cpp:469`, `solver_base_gpu.cpp:449`, `:913`, `:1264`), which MPI
  allows only as MPI_IN_PLACE. The models give it the intended meaning.
- Variant 1 of `l1_norm` adds into device memory it never clears, and `linf_norm`
  of a vector shorter than the block is the largest number; the solver uses
  neither variant.
- `submit_to_gpu_async` passes the functor by reference to a stack frame that may
  be gone when the kernel runs (`gpu_api_functions.h:249`, `:263`).
- In `demonstrate_temp_write` the comment at line 74 says f(x_(n+1)), the kernel
  (line 168) computes f(x_prev); and the last output (line 101) reads the scratch
  copy that was normalised already.
- In `porting_stage_scenario` the number of copies of `update_T` depends on the
  order in which the compiler evaluates the operands, through `in_const_operator`.
- Every memcpy of a transfer is counted twice by the memcpy counters
  (`gpu_api_functions.cpp:61`, `gpu_manager_t.cpp:245`, `:254`, `:471`, `:480`), which
  are only printed.
- `Solver_base_gpu::write_residual` opens the same file on every rank.

## Proofs

`GpuManagerProofs` has three parts. The first shows for each operation of a data set
that it keeps the type and keeps `Coherent`: the pair of statuses is one of eleven, page rights are no
wider than the status of the CPU, copies that both count are equal, the buffer
has the right size. The second proves

- `TypeCorrect`: `Spec => []TypeOK`, for any obligations waived;
- under `Waived = {}`, from one inductive invariant `SafeInv`: `OneOwnerAlways`,
  `SharedCopiesAlwaysAgree`, `PagesAlwaysGuarded`, `BufferAlwaysFits`,
  `KernelArgumentsAlwaysReady`, `FaultsAlwaysBounded`, `AlwaysRuns`

for any set of data sets, values and sizes, and for argument lists and statements
of any length. The assumptions are the named ones of the modules: `Zero` is a
value and `Junk` is not, `MaxSize` is positive, kernels and expressions are
sequences of arguments and operands, nothing is stored through a const access.

The properties are not inductive as they stand. `SharedCopiesAgree` survives a
kernel only because no host copy counts of an argument the kernel writes, which
holds because each argument is ready once transferred *and stays ready while
later ones are transferred*, an alias included (`LaunchInv`, `TransferKeepsReady`);
that needs the statuses to be a pair in `Owned`. `FaultsBounded` needs the flag:
after the first fault of an operand it is false, so the second makes the pages
writable (`ExpressionInv`).

The third part proves `KeepsThePromise`: under `Waived = {}`, `Spec =>
SingleCopyRefinement`. Its first half says what each operation does to one data
set as the user sees it: a transfer that takes a data set over leaves its value
and ends the private copy of its device, COPY and SYNC_AND_MOVE make a private
copy of the value, a fault or the transfer of a kernel argument changes nothing.
The second half turns that, data set by data set, into a step of the single-copy
store, one lemma per action. Beside `SafeInv` the proof needs `SeenInv`: an entry
without memory shows zeros, so that registering it changes no value; a scratch
copy of the CPU is always writable, so that no fault discards it; and the operands
of a statement are not empty.

`PageFaultProofs` proves `AddrSetAlwaysMatchesPages` and `LookupAlwaysFindsOwner`
for any number of pages, bytes in a page and data sets. The invariant `Inv` says that
every element of `dsb_addr_set` starts on a page, occupies mapped pages that no
other element has, the one a resize is copying from included, and that a data set
is listed at most once. The lookup takes the last element that starts at or below the
address. If that were not the owner, it would start above the owner's start and at or
below the address, so that its first page would be one of the owner's.
The assumptions are that a page has bytes and that there is a page.

`GpuMathProofs` proves of `GpuMath`, for any number of threads and elements, any
kernel arguments and any obligations waived,

- `NoDataRace`: `Spec => []RaceFree`. The invariant says where a thread's loop
  variable is: congruent to the thread modulo the number of threads, so that two
  threads are never at the same element, and it says that before the barrier opens
  every thread has left its loop, so that thread 0 alone touches the shares.
- `ExtremaAlwaysExact`: `Spec => []ExtremaAreExact`. The extrema in memory are those
  of the first ones and of all elements already taken in; a thread between its
  load and its compare-and-swap changes nothing unless memory still holds what it
  loaded.

and, unless `linf_length` or `l1_scratch` is waived, without either of which it fails,

- `ResultsAlwaysExact`: `Spec => []ResultIsExact`, for every kernel. A sum over a set
  is what its recursion says whatever element is taken first (`TotalAdds`,
  `TotalUnion`, by induction over the strict subsets of a finite set, which needs no
  operator as a parameter). With that, the invariants follow the loops. Of a
  reduction: a thread's register and, behind its loop, its share is the reduction of
  the elements it has passed, and thread 0's is the reduction of the shares of the
  threads below its own loop variable; the elements of all threads together are all
  elements, each once. Of axpy and the CSR product: the entries of a thread are new
  below its loop variable and old from there on; a row summed entry by entry is the
  sum over its columns (`RowByColumns`). Of the atomics: memory is its first value
  plus or minus the elements past their addition or subtraction.

`SiloProofs` proves of `Silo`, for any declarations, sizes and number of handles,

- `NamesAlwaysDenoteOneEntry`: `Spec => []OneEntryPerName`, any obligations waived;
- `CopiesAlwaysHaveMemory`: `Spec => []CopiesHaveMemory`, unless `memory_first` or
  `resize_unresolved` is waived;
- `DevicesAlwaysFollow`: `Spec => []DeviceFollowsHost`, unless `early_offsets` or `copy`
  is waived, for any mix of transfer modes;
- `EntriesAlwaysFit`: `Spec => []EntriesFit`, unless `multi_dim` or `allocate_bytes` is
  waived, for any number of dimensions;
- `NothingIsEverLeft`: `Spec => []NothingLeft`, unless `shrink_to_empty` is waived.

The invariant has a part for the tables (each name in one table, its address that of
a living object of that name) and parts for each entry, one for each property: what its
object, its layout and its buffer look like between two calls. Every step but the end
leaves an entry alone, does one of a few things to it, or makes a new one, so each part
needs one lemma for each of these.

That an entry fits has two halves. About its layout alone: `set_offsets` multiplies the
dimensions and divides the product again, `indexer::access` adds up the products of
strides and indices. What these loops return is shown by induction over the subsets of
their positions. Then the strides divide each other exactly, the index with one more
component stays within the stride of the one before (`PlaceBound`), and two indices that
differ somewhere are a stride apart from there on (`ApartStep`), so different indices
have different places below the number of values. About the registry: the bytes of an
entry are those of its layout although `resize_internal` computes them otherwise, because
only entries without a shape are resized, or empty ones; and the size of a type is that of
all its entries, also of those only retrieved, because `silo::resize` visits both tables.

`TimeLoopProofs` proves of `TimeLoop`, for any number of ranks and cells, any
neighbours, inner iterations (none and negative numbers included), steps and residuals,

- `CallsAlwaysAgree`: `Spec => []CallsAgree`, the i-th collective call of two ranks is
  the same call;
- `GhostsAlwaysFresh`: `Spec => []GhostsAreFresh`;
- `SomeRankAlwaysGoesOn`: `Spec => []SomeRankGoesOn`: unless all ranks have ended, one
  of them can take a step. This is the safety half of `ProgramEnds`;
- `MarchesAsOneProgram`: `Spec => MarchesAsOne`, the refinement of `TimeMarch`.

No rank can see another, so the invariant has to say why they agree: there is a
script of calls, each with its step and inner iteration, and what every rank has
posted is a beginning of it. A call of the script follows from the one before, the
options and, behind a call that sums a residual, from what the ranks gave to it; a rank goes
on from there only when all have posted it, so that all go on alike. A rank behind
the others can go on because a call waits only for posts, and the rank that has
posted least finds the posts of all others.

For the refinement the invariant also says where the residuals come from: the k-th of a
rank is the sum of what all ranks gave to the script's call of that step. The steps go
up along the script and each has one such call, so two histories never differ where both
have an entry, and the longest one stands for the program's. A rank that adds to a
history either catches up with another (a stutter) or makes the program march. Rank 0
writes when all have given their cells, and a longer history than its own would need its
part of a call that lies ahead of it. That the rows are in order rests on a lemma about
`FlattenSeq`: lists of sequences that are as long as one another stay aligned when they
are put together.

`GpuSolverProofs` proves of `GpuSolver`, for any number of inner iterations, any number
of steps and any options, that `DeviceAlwaysReadsCurrent`, `PointersAreAlwaysOwned`,
`NormNeverCountsGhosts` and `LifetimesAlwaysMatch`: `Spec => []P` for its four
invariants. The state is a program that is partly run, so the invariant is about the rest
of it. A piece of knowledge says which data sets the GPU alone has, which of its copies
were not initialised, whose ghosts are fresh, which buffers live and are written, and
whether the matrix system is set up; `Meets` is when it holds. `Passes(a, op, b)` says
that an operation finds in `a` what it needs and leaves `b`, and `Runs(p, a, b)` that a
program leads from `a` to `b` (as in a proof outline, one assertion between every two
operations). The invariant is that some piece of knowledge holds from which the rest of
the program leads to what the loop starts from, or to nothing held at the end. The proof
has three parts: every operation that passes does to the memories what `Passes` says
(one lemma per kind of operation, on the operators of `XpuDataSet`); every function of the
solver runs from the knowledge before it to that behind it; and a loop body that leads
back to where it started can be repeated any number of times.

`StartProofs` has two parts. The first is about `SolverSetup`, and with it `GridSetup` and
`Mesh`. For every mesh of at least 2 by 2 cells and any number of ranks (more ranks than
cells included, so that some have none), and for any order in which the ranks go on, it
proves `Spec => []P` for every invariant of the run:

- `CollectivesMatchHolds`: ranks in the same call, each giving what the other counts on;
- `SendListsFitHolds` and `GhostsAreTheirOwnersHolds`: the halo exchange brings each ghost
  the value of its owner, through lists that no two ranks have compared;
- `FacesMeetHolds`: cells closed by their faces, faces between ranks laid out alike;
- `SidesHaveTheirValuesHolds`: boundary values on the sides they are meant for;
- `MatrixIsTheLaplacianHolds`: the rows of all ranks are one symmetric matrix with the
  entries and row sums of the discrete Laplacian.

Beyond the run's invariants, `SomeRankAlwaysSetsUp` is the safety half of `SetupEnds`:
the rank that has come the least far is in no call that another has still to make, so
the ranks never wait for one another in a circle.

The proof has four layers. First what the operators return: `FlattenSeq`, sums over a
set and the elements of a set in order are recursive; the recursion is unrolled once and
then taken by induction over the numbers or subsets it runs through, which needs no
operator as a parameter. Then the mesh without ranks: a slot of the neighbour list
belongs to one cell, the stripes partition the cells, local numbers are one to one, and
the cells a rank must send are those another rank must receive, in the same order,
because both go through the cells in the order of their global numbers. Then the
invariants. No rank sees another, so `SetupInv` says of each rank, as far as it has come,
which part of the whole its arrays are and what it has given to its calls; an exchange is
right because what both sides gave is then known. `FacesInv` adds the boundary lists and the
face towards every neighbour, `MatrixInv` the rows, each inductive together with those
before, with one lemma per action. Last, the properties follow; that the
matrix is symmetric across ranks, for instance, because the coefficient of a face depends
on its orientation and on the distances only, and both ranks have laid it out.

The second part is about `InputParser` and proves `OptionsAlwaysAsGiven` under
`Waived = {}`: `ParserSpec => []OptionsAreAsGiven`, for any file and any table of options.
The parser never compares the lines with the table, it counts them. The invariant says
that each line read so far is of an option of the table and has set it; since no option is
given twice, lines as many as the options are of all of them, which is a count of a set
and of its image.

`DemonstrationsProofs` proves, for any number of iterations and contents,

- `NormAlwaysOfTheLastKernel` and `OutputAlwaysOfOneIterate`: `Spec =>
  []NormIsOfTheLastKernel` and `Spec => []OutputIsOfOneIterate`, unless
  `functor_lives` is waived, without which a kernel reads garbage;
- `CopiesAlwaysAsDocumented`: `Spec => []CopiesAsDocumented`, unless `own_operator`
  is waived.

The invariants have one clause per statement of the host. For the Newton iterations it
says in which states the statuses of the four data sets are, which iterate each copy
that counts holds, and that the kernel is in the stream or has run. What makes the
scratch copy safe is in the states: from the copy of `fx` on the CPU has TEMP_WRITE,
which a transfer to the device never pushes, and the next COPY pulls again what the
kernel has left. For the porting scenario the statuses alone decide what is copied, and
a kernel changes none of them, whenever it runs.

Every invariant and every action property that a run finds to hold is proved, up to the
hypotheses named above. Model-checked only: liveness (`TaskCompletes`,
`InBoundsAccessCompletes`, `SetupEnds`, `ProgramEnds`, `KernelEnds`), which is out of the
prover's reach; the safety halves of `SetupEnds` and `ProgramEnds`,
`SomeRankAlwaysSetsUp` and `SomeRankAlwaysGoesOn`, are proved.

## Plan

Done: `XpuDataSet`, `GpuManager`, `SingleCopy`, `PageFault` with type correctness
and safety of the data coherence proved; `Mesh`, `GridSetup`, `SolverSetup`;
`TimeMarch`, `TimeLoop`; `GpuSolver`; `Silo` (with destruction, offsets, local memory
and the device side); `Demonstrations` (asynchronous kernels); `GpuMath`;
`InputParser`; the proofs of the refinement of `SingleCopy`, of the lookup of
`PageFault`, of every property of `GpuMath` but its liveness, of the registry, of
the ranks of the time loop with the refinement of `TimeMarch`, of every property of
`GpuSolver` and of `Demonstrations`, of every invariant of `SolverSetup` and `Silo`, and
of the input parser. Nothing of the plan is left; what the models leave out is listed
next.

## Not modelled

Numerics (floating point: rounding, convergence, breakdown of BiCGSTAB), logging,
the layout of files, build scripts, `print_input_struct` and the other functions
that only print, the memcpy counters. The unit tests of the framework
(`test_funcs.cpp`, the backend tests), apart from `kg_atomics`, whose kernel is
one of `GpuMath`. What happens inside cuBLAS and cuSPARSE: the variants that call
them are external. Opening and closing the GPU globals. The mapping of one rank's
GPU operations to the others' collective calls: `GpuSolver` is one rank, `TimeLoop`
has the ranks, and both follow the same order of calls. Device errors other than
a copy from or to a null pointer. Handlers installed before the framework's: an
unresolved fault ends the program, which is what `SIG_DFL` does. The DEBUG build.
