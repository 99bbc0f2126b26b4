--------------------------- MODULE Demonstrations ---------------------------
(***************************************************************************)
(* The demonstration programs of gpu_framework/test as users of the data    *)
(* sets of XpuDataSet.  demonstrate_temp_write runs Newton iterations on    *)
(* the GPU and normalises a scratch copy of f(x) on the CPU meanwhile, with *)
(* the kernel submitted synchronously or asynchronously.                    *)
(* porting_stage_scenario alternates between GPU and CPU code.              *)
(*                                                                         *)
(* Kernels wait in the default stream of CUDA, which runs them in order;    *)
(* a cudaMemcpy waits for all of them.  A vector is a term: the functions   *)
(* applied to it, then what it held at first.                               *)
(***************************************************************************)
EXTENDS XpuDataSet, Sequences, FiniteSets

CONSTANTS
    Programs,  \* the demonstrations to consider
    MaxIter,   \* bound on the iterations, max_iter
    Waived     \* obligations that this instance ignores

\* "functor_lives": the frame that holds the functor of an asynchronous launch
\* is still intact when the kernel runs.  "own_operator": a load faults before
\* another operator[] has changed in_const_operator.
Obligations == {"functor_lives", "own_operator"}

ASSUME ProgramsAssumption ==
    Programs \subseteq {"temp_write", "temp_write_async", "porting_stage"}
ASSUME MaxIterAssumption == MaxIter \in Nat
ASSUME WaivedAssumption == Waived \subseteq Obligations

VARIABLES
    program,
    pc,       \* the next statement of the host
    ds,       \* the data sets by name
    stream,   \* kernels submitted and not yet run
    iter,     \* iterations done
    shown,    \* what the last output of the loop was computed from
    copies    \* memcpys between the devices in the current stage

vars == <<program, pc, ds, stream, iter, shown, copies>>

Iterating == program \in {"temp_write", "temp_write_async"}

First(v) == <<v>>
F(term) == <<"f">> \o term
Newton(term) == <<"next">> \o term
Scaled(term) == <<"scaled">> \o term
Norm(term) == <<"norm">> \o term
Sum(term, other) == <<"sum">> \o term \o other

\* setup_problem and setup_cdf_vars_for_gpu_framework_tests
Filled(term) == [NewDataSet(TRUE, 1) EXCEPT !.host = term]

NoCopies == [HtoD |-> 0, DtoH |-> 0]

Init ==
    /\ program \in Programs
    /\ ds = IF Iterating
            THEN [x |-> Filled(First("x")), x_prev |-> NewDataSet(TRUE, 1),
                  fx |-> Filled(F(First("x"))), err_nrm |-> Filled(First("0"))]
            ELSE [P |-> Filled(First("P")), V |-> Filled(First("V")), T |-> Filled(First("T"))]
    /\ pc = IF Iterating THEN "compute_error_norm" ELSE "set_P"
    /\ stream = <<>>
    /\ iter = 0
    /\ shown = <<>>
    /\ copies = NoCopies

-----------------------------------------------------------------------------
(* The framework as these programs use it.                                  *)

\* transfers of the data sets named in mode, a function from names to modes
ToGpu(mode) ==
    [v \in DOMAIN ds |-> IF v \in DOMAIN mode THEN TransferToGpu(Setup(ds[v]), mode[v])
                                              ELSE ds[v]]
HtoD(mode) == {v \in DOMAIN mode : ToGpuPush(Setup(ds[v]), mode[v])}

\* a host access: the handler transfers first when the pages forbid it
Loaded(d, inConst) == IF Loadable(d) THEN d ELSE FaultTransfer(d, inConst)
Stored(d, term) ==
    HostStore(IF Storable(d) THEN d ELSE FaultTransfer(d, FALSE), term)
DtoH(S) == {v \in S : ~Loadable(ds[v]) /\ ToCpuPull(ds[v], "MOVE")}

\* a cudaMemcpy waits for the stream
Copy(to, from) ==
    /\ to # {} \/ from # {} => stream = <<>>
    /\ copies' = [HtoD |-> copies.HtoD + Cardinality(to),
                  DtoH |-> copies.DtoH + Cardinality(from)]

\* submit_to_gpu_impl: transfer_vars_to_gpu moves what the kernel may write
ArgumentModes(writes, reads) ==
    [v \in writes \union reads |-> IF v \in writes THEN "MOVE" ELSE "READ_ONLY"]

Submit(kernel, writes, reads) ==
    LET mode == ArgumentModes(writes, reads)
    IN  /\ ds' = ToGpu(mode)
        /\ Copy(HtoD(mode), {})
        /\ stream' = Append(stream, kernel)

Goto(from, to) == pc = from /\ pc' = to

-----------------------------------------------------------------------------
(* demonstrate_temp_write_impl.                                             *)

\* the kernels of l2_norm wait for those before them in the stream
ComputeErrorNorm ==
    LET mode == [err_nrm |-> "NOT_INITIALIZE", fx |-> "READ_ONLY"]
    IN  /\ Goto("compute_error_norm", "while")
        /\ stream = <<>>
        /\ Copy(HtoD(mode), {})
        /\ ds' = [ToGpu(mode) EXCEPT !.err_nrm.dev = Norm(ToGpu(mode)["fx"].dev)]
        /\ iter' = IF ds["x_prev"].instance THEN iter + 1 ELSE iter
        /\ UNCHANGED <<program, stream, shown>>

\* the loop goes on while the error is large
While ==
    /\ \/ Goto("while", "set_x_prev") /\ iter <= MaxIter
       \/ Goto("while", "write_last")
    /\ ds' = [ds EXCEPT !.err_nrm = Loaded(@, FALSE)]
    /\ Copy({}, DtoH({"err_nrm"}))
    /\ UNCHANGED <<program, stream, iter, shown>>

\* memcpy_gpu_var(x_prev, x)
SetXPrev ==
    LET source == IF ~ds["x"].instance THEN [x |-> "MOVE"]
                  ELSE IF ds["x"].gpu \in UpToDate THEN [v \in {} |-> "MOVE"]
                  ELSE [x |-> "READ_ONLY"]
        ready == [ToGpu(source) EXCEPT !.x_prev = TransferToGpu(Setup(@), "NOT_INITIALIZE")]
    IN  /\ Goto("set_x_prev", "copy_fx")
        /\ stream = <<>>
        /\ Copy(HtoD(source), {})
        /\ ds' = [ready EXCEPT !.x_prev.dev = ready["x"].dev]
        /\ UNCHANGED <<program, stream, iter, shown>>

\* transfer_to_cpu_copy(fx): the CPU gets a scratch copy
CopyFx ==
    /\ Goto("copy_fx", "compute_x_n_plus_1")
    /\ Copy({}, IF ToCpuPull(ds["fx"], "COPY") THEN {"fx"} ELSE {})
    /\ ds' = [ds EXCEPT !.fx = TransferToCpu(@, "COPY")]
    /\ UNCHANGED <<program, stream, iter, shown>>

ComputeXNPlus1 ==
    /\ Goto("compute_x_n_plus_1",
            IF program = "temp_write_async" THEN "write_output" ELSE "submitted")
    /\ Submit("kg_compute_x_n_plus_1", {"x", "fx"}, {"x_prev"})
    /\ UNCHANGED <<program, iter, shown>>

\* cudaDeviceSynchronize of a synchronous launch
Submitted ==
    /\ Goto("submitted", "write_output")
    /\ stream = <<>>
    /\ UNCHANGED <<program, ds, stream, iter, shown, copies>>

\* write_output_on_cpu normalises fx in place
WriteOutput ==
    LET fx == Loaded(ds["fx"], FALSE)
        err == Loaded(ds["err_nrm"], FALSE)
    IN  /\ Goto("write_output", "move_fx") \/ Goto("write_last", "done")
        /\ Copy({}, DtoH({"fx", "err_nrm"}))
        /\ ds' = [ds EXCEPT !.fx = Stored(fx, Scaled(fx.host)), !.err_nrm = err]
        /\ shown' = IF pc = "write_output" THEN <<err.host, fx.host>> ELSE shown
        /\ UNCHANGED <<program, stream, iter>>

\* transfer_to_gpu_move(fx): the scratch copy is not copied back
ScratchCopiedBack(d) == TransferToGpu(HostToDevice(Setup(d)), "MOVE")  \* mutant
MovedBack(d) == TransferToGpu(Setup(d), "MOVE")

MoveFx ==
    /\ Goto("move_fx", "gpu_barrier")
    /\ Copy(HtoD([fx |-> "MOVE"]), {})
    /\ ds' = [ds EXCEPT !.fx = MovedBack(@)]
    /\ UNCHANGED <<program, stream, iter, shown>>

GpuBarrier ==
    /\ Goto("gpu_barrier", "compute_error_norm")
    /\ stream = <<>>
    /\ UNCHANGED <<program, ds, stream, iter, shown, copies>>

-----------------------------------------------------------------------------
(* porting_stage_scenario.                                                  *)

\* every value is overwritten: no copy of the old ones
NoInitForgotten == "MOVE"                              \* mutant
OverwriteMode == "NOT_INITIALIZE"

SetP ==
    LET owned == TransferToGpu(Setup(ds["P"]), OverwriteMode)
        mode == ArgumentModes({"P"}, {"V", "T"})
    IN  /\ Goto("set_P", "set_P_done")
        /\ Copy(HtoD([mode EXCEPT !.P = OverwriteMode]), {})
        /\ ds' = [ToGpu(mode) EXCEPT !.P = TransferToGpu(owned, "MOVE")]
        /\ stream' = Append(stream, "kg_set_P")
        /\ UNCHANGED <<program, iter, shown>>

\* T[kk] = T[kk] + c * P[kk]; all loads of the right hand side come first
UpdateT ==
    /\ Goto("update_T", "update_T_done")
    /\ copies = NoCopies
    /\ Copy({}, DtoH({"P", "T"}))
    /\ \E inConst \in (IF "own_operator" \in Waived THEN BOOLEAN ELSE {TRUE}) :
           LET P == Loaded(ds["P"], inConst)
               T == Loaded(ds["T"], FALSE)
           IN  ds' = [ds EXCEPT !.P = P, !.T = Stored(T, Sum(T.host, P.host))]
    /\ UNCHANGED <<program, stream, iter, shown>>

UpdateV ==
    /\ Goto("update_V", "update_V_done")
    /\ Submit("kg_update_V", {"V"}, {"P", "T"})
    /\ UNCHANGED <<program, iter, shown>>

\* a stage ends with the synchronisation of its launch
StageEnds ==
    /\ \/ Goto("set_P_done", "update_T")
       \/ Goto("update_T_done", "update_V")
       \/ Goto("update_V_done", "done")
    /\ stream = <<>>
    /\ copies' = NoCopies
    /\ UNCHANGED <<program, ds, stream, iter, shown>>

-----------------------------------------------------------------------------
(* The device.                                                              *)

\* what a kernel leaves in the data sets it writes
Written(kernel) ==
    CASE kernel = "kg_compute_x_n_plus_1" ->
             [x |-> Newton(ds["x_prev"].dev), fx |-> F(ds["x_prev"].dev)]
      [] kernel = "kg_set_P" -> [P |-> Sum(ds["V"].dev, ds["T"].dev)]
      [] kernel = "kg_update_V" -> [V |-> Sum(ds["V"].dev, Sum(ds["P"].dev, ds["T"].dev))]

Garbage(term) == <<"garbage">>

\* the functor is passed by reference, to a frame that the host leaves unless
\* it waits for the kernel
RunKernel ==
    /\ stream # <<>>
    /\ \E lives \in (IF "functor_lives" \in Waived /\ program = "temp_write_async"
                     THEN BOOLEAN ELSE {TRUE}) :
           LET new == Written(Head(stream))
           IN  ds' = [v \in DOMAIN ds |->
                         IF v \in DOMAIN new
                         THEN [ds[v] EXCEPT !.dev = IF lives THEN new[v] ELSE Garbage(@)]
                         ELSE ds[v]]
    /\ stream' = Tail(stream)
    /\ UNCHANGED <<program, pc, iter, shown, copies>>

HostStep ==
    \/ ComputeErrorNorm \/ While \/ SetXPrev \/ CopyFx \/ ComputeXNPlus1 \/ Submitted
    \/ WriteOutput \/ MoveFx \/ GpuBarrier
    \/ SetP \/ UpdateT \/ UpdateV \/ StageEnds

Done == pc = "done" /\ UNCHANGED vars

Next == HostStep \/ RunKernel \/ Done

Spec == Init /\ [][Next]_vars

-----------------------------------------------------------------------------
(* Properties.                                                              *)

Iterate(k) == [i \in 1..k |-> "next"] \o First("x")

\* x and f(x) as the kernel of an iteration leaves them: f lags behind by one
LastEvaluated(k) == F(Iterate(IF k = 0 THEN 0 ELSE k - 1))

\* At the loop test the error is the norm of what the last kernel left in fx,
\* neither of the copy that the CPU has normalised meanwhile nor of the values
\* before a kernel that is still running.
NormIsOfTheLastKernel ==
    pc = "while" => ds["err_nrm"].dev = Norm(LastEvaluated(iter))

\* An output of the loop is made from the values of f whose norm it prints, as
\* they were before the CPU normalised them, whether or not the kernel that
\* overwrites them on the device has run already.
OutputIsOfOneIterate ==
    pc = "move_fx" =>
        shown = <<Norm(LastEvaluated(iter)), LastEvaluated(iter)>>

\* The stages of the porting scenario copy what its comments say: two data sets
\* to the device, then one back, then one to the device.
CopiesAsDocumented ==
    /\ pc = "set_P_done" => copies = [HtoD |-> 2, DtoH |-> 0]
    /\ pc = "update_T_done" => copies = [HtoD |-> 0, DtoH |-> 1]
    /\ pc = "update_V_done" => copies = [HtoD |-> 1, DtoH |-> 0]
=============================================================================
