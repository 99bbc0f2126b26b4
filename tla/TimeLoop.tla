------------------------------ MODULE TimeLoop ------------------------------
(***************************************************************************)
(* The program after its set up, on every MPI rank: main's time loop with   *)
(* Solver_base::compute_residual, update_solution, the Jacobi and the       *)
(* BiCGSTAB solver, and write_solution.                                     *)
(*                                                                         *)
(* As in GridSetup an action is the code between two collective calls, and  *)
(* posted[r] is what rank r has given to them.  Numbers are left out: the   *)
(* cells of a vector carry the step and the inner iteration that they were  *)
(* computed in, and a rank's share of a residual is any of a few values.    *)
(* A dot product is the collective call it makes.                           *)
(***************************************************************************)
EXTENDS Integers, Sequences, SequencesExt

CONSTANTS
    numprocs,
    NumSolved,     \* the number of cells of each rank
    InputFiles,    \* the options the input file may hold
    Shares,        \* the shares of the residual a rank may have
    MaxSteps       \* bound: the solution converges in so many steps

ASSUME TimeLoopAssumption ==
    /\ numprocs \in Nat \ {0}
    /\ NumSolved \in [0 .. numprocs - 1 -> Nat]
    /\ InputFiles \subseteq [implicit_solver : BOOLEAN, solver_type : Int,
                            num_iter : Int, tol : Int]
    /\ 0 \in Shares /\ Shares \subseteq Nat
    /\ MaxSteps \in Nat

VARIABLES
    infile,        \* the options, the same on every rank (InputParser)
    pc,            \* the collective call each rank is in
    count,         \* the steps each rank has done
    iter,          \* the inner iteration of its linear solver
    residual_norm, \* the residuals each rank has pushed back
    own, halo,     \* the age of its cells and of its ghosts, for each vector
    posted,        \* what each rank has given to its collective calls
    gathered,      \* recv_count and Q_cell_total of rank 0
    file           \* the rows of the solution file

vars == <<infile, pc, count, iter, residual_norm, own, halo,
          posted, gathered, file>>

Procs == 0 .. numprocs - 1
Root == 0

\* the cells of the mesh: a rank's own ones behind those of the ranks before it
CellsInOrder ==
    FlattenSeq([k \in 1 .. numprocs |-> [i \in 1 .. NumSolved[k - 1] |-> <<k - 1, i>>]])
num_cells == Len(CellsInOrder)

Vectors == {"Q_cell", "dQ_old", "dQ", "p1", "s1"}
Fresh == <<0, 0>>

\* the owners of a rank's ghosts: the stripes beside its own
Owners(r) ==
    {p \in Procs : (p = r - 1 \/ p = r + 1) /\ NumSolved[p] > 0 /\ NumSolved[r] > 0}

-----------------------------------------------------------------------------
(* Collective calls.                                                       *)

Entered(r, from) == \A p \in from : Len(posted[p]) >= Len(posted[r])
Received(r, from) == [p \in from |-> posted[p][Len(posted[r])].data]

\* a rank gives data to its next call and waits in it
Enter(r, call, data) ==
    /\ posted' = [posted EXCEPT ![r] = Append(@, [call |-> call, data |-> data])]
    /\ pc' = [pc EXCEPT ![r] = call]

\* mpi_nbnb_transfer of a vector: the cells go out, and later the ghosts come in
Age(r) == <<count[r], iter[r]>>
StaleGhosts(r, v) == UNCHANGED halo                    \* mutant
Unpack(r, v) ==
    halo' = [halo EXCEPT ![r][v] = Received(r, Owners(r))]
Renew(r, v, age) == own' = [own EXCEPT ![r][v] = age]

\* MPI_Allreduce: the sum of what all ranks give
OwnShare(r) == posted[r][Len(posted[r])].data          \* mutant
Allreduced(r) == SumFunction(Received(r, Procs))

-----------------------------------------------------------------------------
(* main as far as the time loop.                                           *)

\* compute_residual: the cells and their ghosts give the rank's share.  The
\* bound MaxSteps is that of the program's convergence.
EnterResidual(r, steps) ==
    \E share \in Shares :
        /\ steps >= MaxSteps => share = 0
        /\ NumSolved[r] = 0 => share = 0
        /\ Enter(r, "residual_norm", share)

Start(r) ==
    /\ pc[r] = "main"
    /\ EnterResidual(r, 0)
    /\ UNCHANGED <<infile, count, iter, residual_norm, own, halo, gathered, file>>

\* compute_residual_norm, the rest of compute_residual, and print_residual_norm
NormReduced(r) ==
    /\ pc[r] = "residual_norm"
    /\ Entered(r, Procs)
    /\ residual_norm' = [residual_norm EXCEPT ![r] = Append(@, Allreduced(r))]
    /\ pc' = [pc EXCEPT ![r] = "while"]
    /\ UNCHANGED <<infile, count, iter, own, halo, posted, gathered, file>>

\* the test of the time loop
NotBelow(r) == Last(residual_norm[r]) >= infile.tol   \* mutant
Above(r) == Last(residual_norm[r]) > infile.tol

-----------------------------------------------------------------------------
(* update_solution.                                                        *)

\* the new solution is sent round
SendSolution(r, others) ==
    /\ count' = [count EXCEPT ![r] = @ + 1]
    /\ iter' = [iter EXCEPT ![r] = 0]
    /\ own' = [own EXCEPT ![r] = [others EXCEPT !["Q_cell"] = <<count[r] + 1, 0>>]]
    /\ Enter(r, "Q_cell", <<count[r] + 1, 0>>)

ExplicitUpdate(r) ==
    /\ pc[r] = "while" /\ Above(r) /\ ~infile.implicit_solver
    /\ SendSolution(r, own[r])
    /\ UNCHANGED <<infile, residual_norm, halo, gathered, file>>

SolutionReceived(r) ==
    /\ pc[r] = "Q_cell"
    /\ Entered(r, Owners(r))
    /\ Unpack(r, "Q_cell")
    /\ EnterResidual(r, count[r])
    /\ UNCHANGED <<infile, count, iter, residual_norm, own, gathered, file>>

-----------------------------------------------------------------------------
(* The iterations of a linear solver.  Nothing keeps num_iter positive, and   *)
(* the two loops differ: that of Jacobi counts in unsigned int, which makes   *)
(* a negative num_iter large, and that of BiCGSTAB in int.                    *)

Unsigned(n) == IF n < 0 THEN n + 65536 * 65536 ELSE n
Iterations(opt) == IF opt.solver_type = 0 THEN Unsigned(opt.num_iter) ELSE opt.num_iter

-----------------------------------------------------------------------------
(* jacobi_linear_solver.                                                   *)

StartJacobi(r) ==
    /\ pc[r] = "while" /\ Above(r)
    /\ infile.implicit_solver /\ infile.solver_type = 0
    /\ Iterations(infile) > 0
    /\ Renew(r, "dQ_old", Age(r))
    /\ Enter(r, "dQ_old", Age(r))
    /\ UNCHANGED <<infile, count, iter, residual_norm, halo, gathered, file>>

\* without an iteration dQ stays as it is, and the solution is sent round as ever
NoJacobiIteration(r) ==
    /\ pc[r] = "while" /\ Above(r)
    /\ infile.implicit_solver /\ infile.solver_type = 0
    /\ Iterations(infile) <= 0
    /\ SendSolution(r, [own[r] EXCEPT !["dQ_old"] = Age(r)])
    /\ UNCHANGED <<infile, residual_norm, halo, gathered, file>>

\* an iteration: the ghosts of dQ_old come in, dQ is computed and becomes dQ_old,
\* whose cells go out again
JacobiIteration(r) ==
    LET age == <<count[r], iter[r] + 1>>
    IN  /\ pc[r] = "dQ_old" /\ iter[r] + 1 < Iterations(infile)
        /\ Entered(r, Owners(r))
        /\ Unpack(r, "dQ_old")
        /\ iter' = [iter EXCEPT ![r] = @ + 1]
        /\ own' = [own EXCEPT ![r]["dQ"] = age, ![r]["dQ_old"] = age]
        /\ Enter(r, "dQ_old", age)
        /\ UNCHANGED <<infile, count, residual_norm, gathered, file>>

\* the last iteration, and the correction of the solution
JacobiUpdate(r) ==
    LET age == <<count[r], iter[r] + 1>>
    IN  /\ pc[r] = "dQ_old" /\ iter[r] + 1 >= Iterations(infile)
        /\ Entered(r, Owners(r))
        /\ Unpack(r, "dQ_old")
        /\ SendSolution(r, [own[r] EXCEPT !["dQ"] = age, !["dQ_old"] = age])
        /\ UNCHANGED <<infile, residual_norm, gathered, file>>

-----------------------------------------------------------------------------
(* bicgstab_linear_solver.                                                 *)

\* matrix_vector_multiply first sends its operand round
SendOperand(r, v) ==
    /\ Renew(r, v, Age(r))
    /\ Enter(r, v, Age(r))

StartBicgstab(r) ==
    /\ pc[r] = "while" /\ Above(r)
    /\ infile.implicit_solver /\ infile.solver_type # 0
    /\ SendOperand(r, "dQ")
    /\ UNCHANGED <<infile, count, iter, residual_norm, halo, gathered, file>>

\* a product is computed once the ghosts of its operand are in; then comes the
\* dot product with it
AfterProduct(r, v, dot) ==
    /\ pc[r] = v
    /\ Entered(r, Owners(r))
    /\ Unpack(r, v)
    /\ Enter(r, dot, Age(r))
    /\ UNCHANGED <<infile, count, iter, residual_norm, own, gathered, file>>

\* alpha1 = r.r0 starts an iteration
Ax(r) == Iterations(infile) > 0 /\ AfterProduct(r, "dQ", "r.r0")
Ap(r) == AfterProduct(r, "p1", "Ap.r0")
As(r) == AfterProduct(r, "s1", "As.s")

\* without an iteration the correction stays zero
NoBicgstabIteration(r) ==
    /\ pc[r] = "dQ" /\ Iterations(infile) <= 0
    /\ Entered(r, Owners(r))
    /\ Unpack(r, "dQ")
    /\ SendSolution(r, own[r])
    /\ UNCHANGED <<infile, residual_norm, gathered, file>>

\* a dot product has returned
DotDone(r, dot) == pc[r] = dot /\ Entered(r, Procs)

Alpha1(r) ==
    /\ DotDone(r, "r.r0")
    /\ SendOperand(r, "p1")
    /\ UNCHANGED <<infile, count, iter, residual_norm, halo, gathered, file>>
Alpha(r) ==
    /\ DotDone(r, "Ap.r0")
    /\ SendOperand(r, "s1")
    /\ UNCHANGED <<infile, count, iter, residual_norm, halo, gathered, file>>
Omega1(r) ==
    /\ DotDone(r, "As.s")
    /\ Enter(r, "As.As", Age(r))
    /\ UNCHANGED <<infile, count, iter, residual_norm, own, halo, gathered, file>>
Correct(r) ==
    /\ DotDone(r, "As.As")
    /\ Renew(r, "dQ", <<count[r], iter[r] + 1>>)
    /\ Enter(r, "beta", Age(r))
    /\ UNCHANGED <<infile, count, iter, residual_norm, halo, gathered, file>>
BicgstabIteration(r) ==
    /\ DotDone(r, "beta") /\ iter[r] + 1 < Iterations(infile)
    /\ iter' = [iter EXCEPT ![r] = @ + 1]
    /\ Enter(r, "r.r0", <<count[r], iter[r] + 1>>)
    /\ UNCHANGED <<infile, count, residual_norm, own, halo, gathered, file>>
BicgstabUpdate(r) ==
    /\ DotDone(r, "beta") /\ iter[r] + 1 >= Iterations(infile)
    /\ SendSolution(r, own[r])
    /\ UNCHANGED <<infile, residual_norm, halo, gathered, file>>

-----------------------------------------------------------------------------
(* write_solution, and the end of main.                                    *)

\* MPI_Gather and MPI_Gatherv: only the root has to wait for the others
Collected(r, call) == pc[r] = call /\ (r = Root => Entered(r, Procs))

\* the root puts what rank p gave behind what the ranks before it gave, as many
\* items as it has counted
Placed(data, counts) ==
    FlattenSeq([k \in 1 .. numprocs |-> SubSeq(data[k - 1], 1, counts[k - 1])])

OnlyTheRoot(r) ==                                      \* mutant
    /\ pc[r] = "while" /\ ~Above(r)
    /\ Enter(r, IF r = Root THEN "recv_count" ELSE "mpi_finalize", 0)
    /\ UNCHANGED <<infile, count, iter, residual_norm, own, halo, gathered, file>>
StartWriting(r) ==
    /\ pc[r] = "while" /\ ~Above(r)
    /\ Enter(r, "recv_count", NumSolved[r])
    /\ UNCHANGED <<infile, count, iter, residual_norm, own, halo, gathered, file>>

GatherSolution(r) ==
    /\ Collected(r, "recv_count")
    /\ gathered' = IF r = Root
                   THEN [gathered EXCEPT !.recv_count = Received(r, Procs)]
                   ELSE gathered
    /\ Enter(r, "Q_cell_total",
             [i \in 1 .. NumSolved[r] |-> <<<<r, i>>, own[r]["Q_cell"][1]>>])
    /\ UNCHANGED <<infile, count, iter, residual_norm, own, halo, file>>

\* the counts are doubled for the two coordinates of a centre
Doubled(counts) == [p \in Procs |-> 2 * counts[p]]

GatherCentres(r) ==
    /\ Collected(r, "Q_cell_total")
    /\ gathered' = IF r = Root
                   THEN [recv_count   |-> Doubled(gathered.recv_count),
                         Q_cell_total |-> Placed(Received(r, Procs), gathered.recv_count)]
                   ELSE gathered
    /\ Enter(r, "xcen_total",
             FlattenSeq([i \in 1 .. NumSolved[r] |-> <<<<<<r, i>>, "x">>, <<<<r, i>>, "y">>>>]))
    /\ UNCHANGED <<infile, count, iter, residual_norm, own, halo, file>>

\* rank 0 writes the file; then come the tear down and mpi_finalize
WriteFile(r) ==
    LET xcen_total == Placed(Received(r, Procs), gathered.recv_count)
    IN  /\ Collected(r, "xcen_total")
        /\ file' = IF r = Root
                   THEN [i \in 1 .. num_cells |->
                            [x |-> xcen_total[2 * i - 1], y |-> xcen_total[2 * i],
                             Q |-> gathered.Q_cell_total[i]]]
                   ELSE file
        /\ Enter(r, "mpi_finalize", 0)
        /\ UNCHANGED <<infile, count, iter, residual_norm, own, halo, gathered>>

Finish(r) ==
    /\ pc[r] = "mpi_finalize"
    /\ Entered(r, Procs)
    /\ pc' = [pc EXCEPT ![r] = "done"]
    /\ UNCHANGED <<infile, count, iter, residual_norm, own, halo,
                   posted, gathered, file>>

-----------------------------------------------------------------------------
Init ==
    /\ infile \in InputFiles
    /\ pc = [r \in Procs |-> "main"]
    /\ count = [r \in Procs |-> 0]
    /\ iter = [r \in Procs |-> 0]
    /\ residual_norm = [r \in Procs |-> <<>>]
    /\ own = [r \in Procs |-> [v \in Vectors |-> Fresh]]
    /\ halo = [r \in Procs |-> [v \in Vectors |-> [p \in Owners(r) |-> Fresh]]]
    /\ posted = [r \in Procs |-> <<>>]
    /\ gathered = [recv_count |-> <<>>, Q_cell_total |-> <<>>]
    /\ file = <<>>

Step(r) ==
    \/ Start(r) \/ NormReduced(r) \/ ExplicitUpdate(r) \/ SolutionReceived(r)
    \/ StartJacobi(r) \/ NoJacobiIteration(r) \/ JacobiIteration(r) \/ JacobiUpdate(r)
    \/ StartBicgstab(r) \/ NoBicgstabIteration(r) \/ Ax(r)
    \/ Alpha1(r) \/ Ap(r) \/ Alpha(r) \/ As(r)
    \/ Omega1(r) \/ Correct(r) \/ BicgstabIteration(r) \/ BicgstabUpdate(r)
    \/ StartWriting(r) \/ GatherSolution(r) \/ GatherCentres(r) \/ WriteFile(r)
    \/ Finish(r)

Next == \E r \in Procs : Step(r)

\* each rank is a process of its own, and runs on unless it waits in a call
Spec == Init /\ [][Next]_vars /\ \A r \in Procs : WF_vars(Step(r))

-----------------------------------------------------------------------------
(* Properties.                                                             *)

\* What is computed from the ghosts of a vector is computed from the values their
\* owners have for them in that very iteration, not from those of the one before.
GhostsAreFresh ==
    [][\A r \in Procs : \A v \in Vectors :
        pc[r] = v /\ posted'[r] # posted[r] =>
            \A p \in Owners(r) : halo'[r][v][p] = own[r][v]]_vars

\* the residual history of the rank that is ahead
Longest ==
    LET r == CHOOSE r \in Procs : \A p \in Procs : Len(residual_norm[p]) <= Len(residual_norm[r])
    IN  residual_norm[r]
March == INSTANCE TimeMarch WITH
    Norms <- {SumFunction(given) : given \in [Procs -> Shares]}, AllCells <- CellsInOrder,
    tol <- infile.tol, history <- Longest

\* Together the ranks march as one program does: they go on while the residual is
\* above the tolerance and write every cell once, with its own centre and its
\* value after the last step.
MarchesAsOne == March!Spec

\* The linear solver makes an iteration.  Without one the solution stays what it
\* is, and so does the residual, which MaxSteps then says nothing about.
Iterates == infile.implicit_solver => Iterations(infile) > 0

\* The program ends on every rank: no rank waits for a call that another one does
\* not make.
ProgramEnds == Iterates => <>(\A r \in Procs : pc[r] = "done")
=============================================================================
