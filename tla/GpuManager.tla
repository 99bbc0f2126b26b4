----------------------------- MODULE GpuManager -----------------------------
(***************************************************************************)
(* The host program and the data sets it shares with the GPU.  The program *)
(* is one thread per MPI rank: it calls the transfer functions of GDF,     *)
(* launches kernels, resizes data sets, and reads and writes host memory.  *)
(* A host access to a page whose protection forbids it raises SIGSEGV; the *)
(* handler moves the data set to the CPU and the access is tried again.    *)
(***************************************************************************)
EXTENDS XpuDataSet, Sequences, FiniteSets

CONSTANTS
    Vars,         \* the data sets of the SILO
    Kernels,      \* argument lists a kernel may be launched with
    Expressions,  \* operand lists a host statement may touch
    Waived        \* obligations of the caller that the program ignores

\* A kernel argument: a data set, read-only unless mutable.
Argument == [var : Vars, mutable : BOOLEAN]

\* A host operand: a load or a store, through the const operator[], the
\* mutable one, or something that leaves in_const_operator alone (a kept
\* reference, operator T&, operator=, memcpy)
Operand == [var : Vars, store : BOOLEAN, via : {"const", "mutable", "raw"}]

\* What assert() demands of a caller in a DEBUG build and the RELEASE build
\* does not enforce, or what no line enforces although the program relies on
\* it.  "copy": a COPY leaves the data with the other device, which must own
\* it.  "copy_all": copy_all_silo_vars_to_cpu is called only when that holds of
\* every registered data set with an instance.  "resize_scratch": no data set
\* is resized while the CPU holds a TEMP_WRITE copy.  "resize_unresolved": no
\* unregistered entry that a kernel was given is resized.
Obligations == {"copy", "copy_all", "resize_scratch", "resize_unresolved"}

ASSUME KernelsAssumption == Kernels \subseteq Seq(Argument)
ASSUME ExpressionsAssumption ==
    /\ Expressions \subseteq Seq(Operand)
    /\ \A e \in Expressions :
          e # <<>> /\ \A i \in DOMAIN e : ~(e[i].store /\ e[i].via = "const")
ASSUME WaivedAssumption == Waived \subseteq Obligations

VARIABLES
    ds,       \* ds[v]: the data set v
    inConst,  \* in_const_operator
    task,     \* what the host thread is in the middle of
    todo,     \* operands or arguments it has still to process
    kernel,   \* the arguments of the kernel being launched
    faults,   \* faults taken by the operand at the head of todo
    aborted,  \* log_error or CHECK_CUDA ended the program
    event     \* what the program asked for in the last step, and what it saw

vars == <<ds, inConst, task, todo, kernel, faults, aborted, event>>

\* An event names the request, the device it is for and its data sets; saw and
\* wrote give the values a load, store or kernel read and stored.  It observes
\* the program and is never read by it.
Nothing == [v \in {} |-> Zero]

Request(op, device, S) ==
    [op |-> op, device |-> device, vars |-> S, saw |-> Nothing, wrote |-> Nothing]

Internal == Request("internal", "none", {})

Operation(mode) ==
    CASE mode \in {"MOVE", "READ_ONLY"} -> "own"
      [] mode = "COPY"                   -> "copy"
      [] mode = "NOT_INITIALIZE"         -> "noinit"
      [] mode = "SYNC_AND_MOVE"          -> "sync"

Init ==
    /\ ds \in [Vars -> {NewDataSet(e, n) : e \in BOOLEAN, n \in 0..MaxSize}]
    /\ inConst = FALSE
    /\ task = "none"
    /\ todo = <<>>
    /\ kernel = <<>>
    /\ faults = 0
    /\ aborted = FALSE
    /\ event = Internal

Idle == task = "none" /\ ~aborted

\* a call that only changes data sets; it ends the program when fails holds
Call(request, new, fails) ==
    /\ Idle
    /\ IF fails
       THEN aborted' = TRUE /\ event' = Internal /\ UNCHANGED ds
       ELSE ds' = new /\ event' = request /\ UNCHANGED aborted
    /\ UNCHANGED <<task, todo, kernel, faults>>

-----------------------------------------------------------------------------
(* Explicit transfers.                                                     *)

\* transfer_to_gpu_move, _readonly, _copy, _noinit and _syncandmove
TransferToGpuCall(v, mode) ==
    LET d == Setup(ds[v])
    IN  /\ mode = "COPY" /\ "copy" \notin Waived
              => d.cpu \in UpToDate \union {"NOT_ALLOCATED"}
        /\ Call(IF d.exists THEN Request(Operation(mode), "gpu", {v}) ELSE Internal,
                [ds EXCEPT ![v] = TransferToGpu(d, mode)], ToGpuFails(d, mode))
        /\ UNCHANGED inConst

\* transfer_to_cpu_move, _readonly, _copy, _noinit and _syncandmove
TransferToCpuCall(v, mode) ==
    /\ mode = "COPY" /\ "copy" \notin Waived /\ ds[v].instance
          => ds[v].gpu \in UpToDate \union {"NOT_ALLOCATED"}
    /\ Call(IF ds[v].exists /\ ds[v].instance
            THEN Request(Operation(mode), "cpu", {v}) ELSE Internal,
            [ds EXCEPT ![v] = TransferToCpu(@, mode)], ToCpuFails(ds[v], mode))
    /\ UNCHANGED inConst

\* copy_all_silo_vars_to_cpu and move_all_silo_vars_to_cpu: for_each visits
\* the registered entries only
TransferAllToCpu(mode) ==
    LET Registered == {v \in Vars : ds[v].exists}
    IN  /\ mode = "COPY" /\ "copy_all" \notin Waived
              => \A v \in Registered : ds[v].instance => ds[v].gpu \in UpToDate
        /\ Call(Request(Operation(mode), "cpu", {v \in Registered : ds[v].instance}),
                [v \in Vars |-> IF v \in Registered THEN TransferToCpu(ds[v], mode) ELSE ds[v]],
                \E v \in Registered : ToCpuFails(ds[v], mode))
        /\ UNCHANGED inConst

\* how GDF::memcpy_gpu_var readies its source
SourcedOnce(d) == IF ~d.instance THEN TransferToGpu(Setup(d), "MOVE") ELSE d  \* mutant
Sourced(d) ==
    IF ~d.instance              THEN TransferToGpu(Setup(d), "MOVE")
    ELSE IF d.gpu \notin UpToDate THEN TransferToGpu(Setup(d), "READ_ONLY")
    ELSE d

\* GDF::memcpy_gpu_var between two data sets of equal size
MemcpyVar(dest, src) ==
    LET ready == [ds EXCEPT ![src] = Sourced(@)]
        owned == [ready EXCEPT ![dest] = TransferToGpu(Setup(@), "NOT_INITIALIZE")]
    IN  /\ ds[dest].exists /\ ds[src].exists
        /\ ds[dest].size = ds[src].size /\ ds[src].size > 0
        /\ Call([Request("memcpy", "gpu", {dest, src}) EXCEPT
                    !.saw = [v \in {src} |-> owned[src].dev],
                    !.wrote = [v \in {dest} |-> owned[src].dev]],
                [owned EXCEPT ![dest].dev = owned[src].dev], FALSE)
        /\ UNCHANGED inConst

-----------------------------------------------------------------------------
(* Kernel launches: submit_to_gpu transfers the arguments one by one, then *)
(* starts the kernel and waits for it.                                     *)

\* extract_gpu_data_for_extractor on every argument
LaunchBegin(args) ==
    /\ Idle
    /\ ds' = [v \in Vars |-> IF \E i \in DOMAIN args : args[i].var = v
                             THEN Setup(ds[v]) ELSE ds[v]]
    /\ task' = "launch"
    /\ todo' = args
    /\ kernel' = args
    /\ event' = Internal
    /\ UNCHANGED <<inConst, faults, aborted>>

\* transfer_vars_to_gpu_internal, which leaves a TEMP_WRITE copy alone
EveryArgumentReadOnly(a) == "READ_ONLY"                \* mutant
ArgumentMode(a) == IF a.mutable THEN "MOVE" ELSE "READ_ONLY"

TransferArgument ==
    /\ task = "launch" /\ todo # <<>> /\ ~aborted
    /\ LET a == Head(todo)
           d == ds[a.var]
       IN  /\ aborted' = (d.gpu # "TEMP_WRITE" /\ ToGpuFails(d, ArgumentMode(a)))
           /\ ds' = IF d.gpu = "TEMP_WRITE" \/ aborted' THEN ds
                    ELSE [ds EXCEPT ![a.var] = TransferToGpu(@, ArgumentMode(a))]
    /\ todo' = Tail(todo)
    /\ event' = Internal
    /\ UNCHANGED <<inConst, task, kernel, faults>>

ArgumentVars == {kernel[i].var : i \in DOMAIN kernel}
MutableVars  == {kernel[i].var : i \in {j \in DOMAIN kernel : kernel[j].mutable}}

\* extract_gpu_data_for_kernel refuses an argument without usable device data
Extractable(d) == d.gpu \notin {"OUT_OF_DATE", "RESIZED_ON_CPU"}

\* the kernel reads its arguments and stores into the mutable ones
RunKernel ==
    /\ task = "launch" /\ todo = <<>> /\ ~aborted
    /\ IF \A v \in ArgumentVars : Extractable(ds[v])
       THEN LET Touched(S) == {v \in S : ds[v].exists /\ ds[v].size > 0}
            IN  \E x \in [Touched(MutableVars) -> Values] :
                   /\ ds' = [v \in Vars |-> IF v \in Touched(MutableVars)
                                           THEN KernelStore(ds[v], x[v]) ELSE ds[v]]
                   /\ event' = [Request("kernel", "gpu", Touched(ArgumentVars)) EXCEPT
                                   !.saw = [v \in Touched(ArgumentVars) |-> ds[v].dev],
                                   !.wrote = x]
                   /\ UNCHANGED aborted
       ELSE aborted' = TRUE /\ event' = Internal /\ UNCHANGED ds
    /\ task' = "none"
    /\ kernel' = <<>>
    /\ UNCHANGED <<inConst, todo, faults>>

-----------------------------------------------------------------------------
(* Resizing and registration.                                              *)

\* dataSetBase::resize_internal, called for a VECTOR entry or by silo::resize
Resize(v, n) ==
    LET d == ds[v]
    IN  /\ "resize_scratch" \notin Waived => d.cpu # "TEMP_WRITE"
        /\ "resize_unresolved" \notin Waived => d.exists \/ ~d.instance
        /\ Call(Request("resize", "cpu", {v}),
                [ds EXCEPT ![v] = ResizeInternal(d, n, inConst)], FALSE)
        /\ inConst' = (inConst /\ ~ResizeFaults(d, n))

\* silo::register_entry on an unresolved entry
Register(v) ==
    /\ ~ds[v].exists
    /\ Call(Internal, [ds EXCEPT ![v] = RegisterUnresolved(@, inConst)], FALSE)
    /\ UNCHANGED inConst

-----------------------------------------------------------------------------
(* Host accesses and page faults.                                          *)

\* The operators of an expression run before its loads and stores; the last
\* one to run, in an order the language leaves open, decides in_const_operator
Evaluate(e) ==
    /\ Idle
    /\ \A i \in DOMAIN e : ds[e[i].var].exists /\ ds[e[i].var].size > 0
    /\ LET setters == {i \in DOMAIN e : e[i].via # "raw"}
       IN  IF setters = {} THEN UNCHANGED inConst
           ELSE \E i \in setters : inConst' = (e[i].via = "const")
    /\ task' = "expression"
    /\ todo' = e
    /\ faults' = 0
    /\ event' = Internal
    /\ UNCHANGED <<ds, kernel, aborted>>

Permitted(o) == IF o.store THEN Storable(ds[o.var]) ELSE Loadable(ds[o.var])

\* pagefault_handler: transfer as in_const_operator says, then forget it
FlagAfterFault == FALSE

\* the number of faults is counted up to this bound
FaultLimit == 3

Fault ==
    /\ task = "expression" /\ todo # <<>> /\ ~aborted
    /\ ~Permitted(Head(todo))
    /\ ds' = [ds EXCEPT ![Head(todo).var] = FaultTransfer(@, inConst)]
    /\ inConst' = FlagAfterFault
    /\ faults' = IF faults < FaultLimit THEN faults + 1 ELSE faults
    /\ event' = Internal
    /\ UNCHANGED <<task, todo, kernel, aborted>>

\* the load or the store goes through
Perform ==
    /\ task = "expression" /\ todo # <<>> /\ ~aborted
    /\ Permitted(Head(todo))
    /\ LET o == Head(todo)
       IN  IF o.store
           THEN \E x \in Values :
                   /\ ds' = [ds EXCEPT ![o.var] = HostStore(@, x)]
                   /\ event' = [Request("store", "cpu", {o.var}) EXCEPT
                                   !.wrote = [v \in {o.var} |-> x]]
           ELSE /\ event' = [Request("load", "cpu", {o.var}) EXCEPT
                                !.saw = [v \in {o.var} |-> ds[v].host]]
                /\ UNCHANGED ds
    /\ todo' = Tail(todo)
    /\ task' = IF Len(todo) = 1 THEN "none" ELSE task
    /\ faults' = 0
    /\ UNCHANGED <<inConst, kernel, aborted>>

-----------------------------------------------------------------------------
Next ==
    \/ \E v \in Vars, mode \in TransferMode :
          TransferToGpuCall(v, mode) \/ TransferToCpuCall(v, mode)
    \/ \E mode \in {"COPY", "MOVE"} : TransferAllToCpu(mode)
    \/ \E dest, src \in Vars : MemcpyVar(dest, src)
    \/ \E args \in Kernels : LaunchBegin(args)
    \/ TransferArgument
    \/ RunKernel
    \/ \E v \in Vars, n \in 0..MaxSize : Resize(v, n)
    \/ \E v \in Vars : Register(v)
    \/ \E e \in Expressions : Evaluate(e)
    \/ Fault
    \/ Perform

Spec == Init /\ [][Next]_vars

\* a statement or a launch once begun is carried on by its thread; the program
\* is never obliged to begin another
FairSpec == Spec /\ WF_vars(TransferArgument \/ RunKernel \/ Fault \/ Perform)

-----------------------------------------------------------------------------
(* Properties.                                                             *)

TypeOK ==
    /\ ds \in [Vars -> DataSet]
    /\ inConst \in BOOLEAN
    /\ task \in {"none", "launch", "expression"}
    /\ todo \in Seq(Argument) \union Seq(Operand)
    /\ kernel \in Seq(Argument)
    /\ faults \in 0..FaultLimit
    /\ aborted \in BOOLEAN

Shared(d) == d.exists /\ d.instance

\* A registered data set with a GPU instance always has a device that owns its
\* values, and while one device may write them no other copy counts as up to
\* date (the asserts at the head of both transfer functions).
OneOwner ==
    \A v \in Vars : Shared(ds[v]) =>
        /\ ds[v].cpu \in UpToDate \/ ds[v].gpu \in UpToDate
        /\ ds[v].cpu = "UP_TO_DATE_WRITE" => ds[v].gpu \notin UpToDate
        /\ ds[v].gpu = "UP_TO_DATE_WRITE" => ds[v].cpu \notin UpToDate

\* Two copies that both count as up to date hold the same values.
SharedCopiesAgree ==
    \A v \in Vars :
        Shared(ds[v]) /\ ds[v].cpu \in UpToDate /\ ds[v].gpu \in UpToDate
            => ds[v].size = 0 \/ ds[v].host = ds[v].dev

\* mprotect never lags behind the statuses: pages the host may write belong to
\* a CPU that may write, pages it may read are not out of date.  Otherwise an
\* access would go through without a fault and miss the device's values.
PagesGuarded ==
    \A v \in Vars : Shared(ds[v]) =>
        /\ Storable(ds[v]) => ds[v].cpu \in {"UP_TO_DATE_WRITE", "TEMP_WRITE"}
        /\ Loadable(ds[v]) => ds[v].cpu # "OUT_OF_DATE"

\* A device buffer has the size of the data set, except between a resize on the
\* CPU and the transfer that notices it, so no kernel or memcpy runs past it.
BufferFits ==
    \A v \in Vars : Shared(ds[v]) /\ ds[v].gpu # "RESIZED_ON_CPU"
                        => ds[v].buffer = ds[v].size

\* When a kernel starts, its arguments can be extracted, and no host copy that
\* counts as up to date is left of a data set it may write: the arguments are
\* transferred one at a time, and a data set may be named twice.
KernelArgumentsReady ==
    task = "launch" /\ todo = <<>> /\ ~aborted =>
        /\ \A v \in ArgumentVars : Extractable(ds[v])
        /\ \A v \in MutableVars : ds[v].exists /\ ds[v].cpu \in UpToDate
                                      => ds[v].gpu = "TEMP_WRITE"

\* The handler acts on in_const_operator, which an operator of another operand
\* may have set: a wrong value costs at most one more fault.
FaultsBounded == faults <= 2

\* A program that meets its obligations is never ended by log_error in
\* extract_gpu_data_for_kernel or by a failing memcpy.
NeverAborted == ~aborted

\* Every statement gets all its operands and every launch starts: the handler
\* never returns to an access that faults for ever.
TaskCompletes == task # "none" ~> task = "none"
=============================================================================
