--------------------------- MODULE GpuSolverProofs ---------------------------
(***************************************************************************)
(* Proofs about GpuSolver, for every number of inner iterations, every     *)
(* number of steps and every choice of options: what runs on the device    *)
(* reads current cells and ghosts, bare pointers are used only by their    *)
(* owner, the norm counts no ghosts, and the buffers and the matrix system *)
(* live as long as they are used.                                          *)
(*                                                                         *)
(* The invariant runs the rest of the program over what is known of the    *)
(* memories: there are pieces of knowledge, one before each operation left,*)
(* such that the first holds now, each operation finds what it needs in the*)
(* one before it and leaves the one after it, and the last is what the loop*)
(* starts from, or what the end of the program must leave.                 *)
(***************************************************************************)
EXTENDS GpuSolver, Integers, WellFoundedInduction, TLAPS

-----------------------------------------------------------------------------
(* What is known of the memories between two operations.                   *)

Names == Vars \union Buffers

\* owned: the data sets the GPU alone has; stale: those whose copy there was not
\* initialised; fresh: whose ghosts on the device came with the latest cells;
\* live and written: the buffers; home: the data sets whose pages can be read;
\* setup: the matrix system is set up
Knowledge == [owned : SUBSET Vars, stale : SUBSET Vars, fresh : SUBSET Names,
              live : SUBSET Buffers, written : SUBSET Buffers,
              home : SUBSET Vars, setup : BOOLEAN]

Known(owned, stale, fresh, live, written, home, setup) ==
    [owned |-> owned, stale |-> stale, fresh |-> fresh, live |-> live,
     written |-> written, home |-> home, setup |-> setup]

Sane(a) ==
    /\ a \in Knowledge
    /\ a.fresh \intersect Vars \subseteq a.owned
    /\ a.stale \subseteq a.owned
    /\ a.written \subseteq a.live
    /\ a.setup <=> "workspace" \in a.live

Touched(op) == (op.reads \union op.writes) \intersect Vars

\* device code finds in a what it reads, and owns what it has bare pointers to
Readable(a, op) ==
    /\ op.reads \ Vars \subseteq a.written
    /\ op.reads \intersect a.stale = {}
    /\ op.reads \intersect op.ghosts \subseteq a.fresh
Pointed(a, op) == Touched(op) \subseteq a.owned

SameData(a, b) == b.owned \subseteq a.owned /\ a.stale \subseteq b.stale
SameBuffers(a, b) == b.live = a.live /\ b.written \subseteq a.written /\ b.setup = a.setup

\* op, found in a what it needs, leaves b
DevicePasses(a, op, b) ==
    /\ Readable(a, op)
    /\ op.kind # "kernel" => Pointed(a, op)
    /\ op.kind = "norm" => op.reads \subseteq {"residual"}
    /\ op.kind = "compute" => a.setup
    /\ b.owned \subseteq a.owned \union op.writes
    /\ a.stale \ op.writes \subseteq b.stale
    /\ b.fresh \subseteq a.fresh \ op.writes
    /\ b.live = a.live /\ b.setup = a.setup
    /\ b.written \subseteq a.written \union (op.writes \intersect a.live)
    /\ b.home = {}
ExchangePasses(a, op, b) ==
    /\ Readable(a, op) /\ Pointed(a, op) /\ "residual" \notin op.reads
    /\ SameData(a, b) /\ SameBuffers(a, b)
    /\ b.fresh \subseteq a.fresh \union op.reads
    /\ b.home = {}
InitPasses(a, op, b) ==
    /\ Readable(a, op) /\ Pointed(a, op) /\ ~a.setup
    /\ SameData(a, b)
    /\ b.fresh \subseteq a.fresh \ {"workspace"}
    /\ b.live = a.live \union {"workspace"} /\ b.setup
    /\ b.written \subseteq a.written \union {"workspace"}
    /\ b.home = {}
NoInitPasses(a, op, b) ==
    /\ "residual" \notin op.writes
    /\ b.owned \subseteq a.owned \union op.writes
    /\ a.stale \union (op.writes \intersect Vars) \subseteq b.stale
    /\ b.fresh \subseteq a.fresh \ op.writes
    /\ SameBuffers(a, b)
    /\ b.home = {}
ToGpuPasses(a, op, b) ==
    /\ op.writes \intersect a.stale = {}
    /\ b.owned \subseteq a.owned \union op.writes
    /\ a.stale \subseteq b.stale
    /\ b.fresh \subseteq a.fresh
    /\ SameBuffers(a, b)
    /\ b.home = {}
\* the transfer to the CPU, a host access and a resize
ToCpuPasses(a, op, b) ==
    /\ Touched(op) \intersect a.stale = {}
    /\ b.owned \subseteq a.owned \ Touched(op)
    /\ a.stale \subseteq b.stale
    /\ b.fresh \subseteq a.fresh \ Touched(op)
    /\ SameBuffers(a, b)
    /\ b.home \subseteq IF op.kind = "transfer_to_cpu_move" THEN a.home \union op.writes ELSE {}
GatherPasses(a, op, b) ==
    /\ op.writes = {} /\ op.reads \intersect Vars \subseteq a.home
    /\ SameData(a, b) /\ SameBuffers(a, b)
    /\ b.fresh \subseteq a.fresh
    /\ b.home \subseteq a.home
MallocPasses(a, op, b) ==
    /\ op.writes \intersect a.live = {}
    /\ SameData(a, b)
    /\ b.fresh \subseteq a.fresh \ op.writes
    /\ b.live = a.live \union op.writes /\ b.written \subseteq a.written
    /\ b.home = {} /\ b.setup = a.setup
FreePasses(a, op, b) ==
    /\ op.writes \subseteq a.live
    /\ SameData(a, b)
    /\ b.fresh \subseteq a.fresh
    /\ b.live = a.live \ op.writes /\ b.written \subseteq a.written \ op.writes
    /\ b.home = {} /\ b.setup = a.setup
ReleasePasses(a, op, b) ==
    /\ SameData(a, b)
    /\ b.fresh \subseteq a.fresh
    /\ b.live = a.live \ {"workspace"} /\ b.written \subseteq a.written \ {"workspace"}
    /\ b.home = {} /\ ~b.setup

DeviceKinds == {"kernel", "raw", "norm", "compute"}
ToCpuKinds == {"host", "resize", "transfer_to_cpu_move"}

Passes(a, op, b) ==
    /\ op \in Operation /\ Sane(b)
    /\ op.kind \in DeviceKinds => DevicePasses(a, op, b)
    /\ op.kind = "exchange" => ExchangePasses(a, op, b)
    /\ op.kind = "init_system" => InitPasses(a, op, b)
    /\ op.kind = "transfer_to_gpu_noinit" => NoInitPasses(a, op, b)
    /\ op.kind = "transfer_to_gpu_move" => ToGpuPasses(a, op, b)
    /\ op.kind \in ToCpuKinds => ToCpuPasses(a, op, b)
    /\ op.kind = "gather" => GatherPasses(a, op, b)
    /\ op.kind = "malloc" => MallocPasses(a, op, b)
    /\ op.kind = "free" => FreePasses(a, op, b)
    /\ op.kind = "release_system" => ReleasePasses(a, op, b)

\* the program p leads from a to b
Runs(p, a, b) ==
    /\ p \in Seq(Operation)
    /\ \E M : /\ M[1] = a /\ M[Len(p) + 1] = b
              /\ \A k \in 1 .. Len(p) : Passes(M[k], p[k], M[k + 1])

-----------------------------------------------------------------------------
(* When what is known holds.                                               *)

\* a data set between two operations is with the CPU, with both as readers, or
\* with the GPU
Coherent(d) ==
    /\ d \in DataSet /\ d.exists
    /\ d.mapped <=> d.size > 0
    /\ \/ ~d.instance /\ d.prot = "rw"
       \/ /\ d.instance /\ d.prot = "rw" /\ d.cpu = "UP_TO_DATE_WRITE"
          /\ d.gpu \in {"OUT_OF_DATE", "RESIZED_ON_CPU"}
       \/ /\ d.instance /\ d.prot = "read"
          /\ d.cpu = "UP_TO_DATE_READ" /\ d.gpu = "UP_TO_DATE_READ"
       \/ d.instance /\ d.prot = "none" /\ d.cpu = "OUT_OF_DATE" /\ d.gpu \in UpToDate

OnGpu(d) == d.instance /\ d.gpu \in UpToDate
Owned(d) == d.instance /\ d.prot = "none"

\* every copy that counts is of the latest write
Current(d) ==
    d.size > 0 => /\ d.prot # "none" => d.host.own = "new"
                  /\ OnGpu(d) => d.dev.own = "new"
\* ... and its ghosts are those of the registration
Zeros(d) ==
    d.size > 0 => /\ d.prot # "none" => d.host.ghosts = "zero"
                  /\ OnGpu(d) => d.dev.ghosts = "zero"

Fitting(a, v, d) ==
    /\ Coherent(d)
    /\ v \notin a.stale => Current(d)
    /\ v = "residual" => Zeros(d)
    /\ v \in a.owned => Owned(d)
    /\ v \in a.fresh /\ d.size > 0 => d.dev.ghosts = "new"
    /\ v \in a.home => d.prot # "none"

Holding(a, x, c) ==
    /\ c \in Contents
    /\ x \in a.written => c.own = "new"
    /\ x \in a.fresh => c.ghosts = "new"

Meets(a) ==
    /\ Sane(a)
    /\ ds \in [Vars -> DataSet] /\ \A v \in Vars : Fitting(a, v, ds[v])
    /\ scratch \in [a.live -> Contents] /\ \A x \in a.live : Holding(a, x, scratch[x])
    /\ spmv = a.setup

\* nothing known and nothing held; and between two steps of the loop
Bare == Known({}, {}, {}, {}, {}, {}, FALSE)
Workspace(setup) == IF setup THEN {"workspace"} ELSE {}
Between(setup) ==
    Known(IF options.implicit_solver THEN {"rhs"} ELSE {}, {}, {}, Workspace(setup), {}, {},
          setup)

Inv ==
    /\ options \in [implicit_solver : BOOLEAN, solver_type : Nat]
    /\ phase \in {"loop", "end"}
    /\ \E a, b : /\ Meets(a) /\ Runs(todo, a, b)
                 /\ phase = "loop" => \E setup \in BOOLEAN : b = Between(setup)
                 /\ phase = "end" => b = Bare

-----------------------------------------------------------------------------
(* What a transfer, a store and a resize leave of a data set.              *)

LEMMA Cells ==
    ASSUME NEW c \in Contents
    PROVE  /\ NewCells(c) \in Contents /\ NewCells(c).own = "new"
           /\ c.ghosts = "zero" => NewCells(c).ghosts = "zero"
           /\ NewGhosts(c) \in Contents /\ NewGhosts(c).own = c.own
           /\ NewGhosts(c).ghosts = "new"
           /\ Superseded(c) \in Contents
           /\ c.ghosts = "zero" => Superseded(c).ghosts = "zero"
BY DEF Contents, NewCells, NewGhosts, Superseded

LEMMA ContentIs ==
    /\ Content = Contents /\ Blank \in Contents /\ Garbage \in Contents
    /\ Blank.own = "new" /\ Blank.ghosts = "zero"
<1>1. Garbage \in Contents /\ Blank \in Contents /\ Blank.own = "new" /\ Blank.ghosts = "zero"
  BY DEF Garbage, Contents, Blank
<1>2. QED
  BY <1>1 DEF Content

LEMMA SetupIs ==
    ASSUME NEW d, Coherent(d), NEW s, s = Setup(d)
    PROVE  /\ Coherent(s) /\ s.instance /\ s.size = d.size /\ s.host = d.host
           /\ s.prot = d.prot /\ (OnGpu(s) <=> OnGpu(d)) /\ (OnGpu(d) => s = d)
<1>1. d \in DataSet /\ d.exists /\ d.host \in Contents
  BY ContentIs DEF Coherent, DataSet
<1>2. CASE d.instance
  <2>1. s = d
    BY <1>1, <1>2 DEF Setup, AllocateGpuInstance, Coherent, UpToDate
  <2>2. QED
    BY <1>2, <2>1
<1>3. CASE ~d.instance
  <2> DEFINE t == AllocateGpuInstance(d)
  <2>1. /\ t \in DataSet /\ t.instance /\ t.exists /\ t.gpu = "NOT_ALLOCATED"
        /\ t.size = d.size /\ t.host = d.host /\ t.prot = d.prot /\ t.mapped = d.mapped
    BY <1>1, <1>3 DEF AllocateGpuInstance, DataSet, XpuDataStatus
  <2>2. s = AllocateGpuDataPtr(t)
    BY <2>1 DEF Setup
  <2> HIDE DEF t
  <2>3. s \in DataSet
    BY <2>1, <2>2, ContentIs DEF AllocateGpuDataPtr, BufferOf, DataSet, XpuDataStatus
  <2>4. /\ s.instance /\ s.exists /\ s.gpu = "OUT_OF_DATE" /\ s.cpu = "UP_TO_DATE_WRITE"
        /\ s.size = d.size /\ s.host = d.host /\ s.prot = d.prot /\ s.mapped = d.mapped
    BY <2>1, <2>2 DEF AllocateGpuDataPtr, DataSet
  <2>5. QED
    BY <1>3, <2>3, <2>4 DEF Coherent, OnGpu, UpToDate
<1>4. QED
  BY <1>2, <1>3

LEMMA ToGpu ==
    ASSUME NEW d, Coherent(d), NEW mode \in {"MOVE", "READ_ONLY", "NOT_INITIALIZE"},
           NEW e, e = TransferToGpu(Setup(d), mode)
    PROVE  /\ Coherent(e) /\ OnGpu(e) /\ e.size = d.size /\ e.host = d.host
           /\ mode # "READ_ONLY" \/ Owned(d) => Owned(e)
           /\ OnGpu(d) => e.dev = d.dev
           /\ e.prot # "none" \/ ~OnGpu(d) => d.prot # "none"
           /\ mode # "NOT_INITIALIZE" /\ ~OnGpu(d) /\ d.size > 0 => e.dev = d.host
<1>1. PICK s : s = Setup(d)
  OBVIOUS
<1>2. /\ Coherent(s) /\ s.instance /\ s.size = d.size /\ s.host = d.host
      /\ s.prot = d.prot /\ (OnGpu(s) <=> OnGpu(d)) /\ (OnGpu(d) => s = d)
  BY <1>1, SetupIs
<1>3. s \in DataSet /\ s.host \in Contents /\ s.exists /\ (s.mapped <=> s.size > 0)
  BY <1>2, ContentIs DEF Coherent, DataSet
<1> DEFINE sized  == IF s.gpu = "RESIZED_ON_CPU" THEN ResizeGpuDataPtr(s) ELSE s
           synced == IF ToGpuPush(s, mode) THEN HostToDevice(sized)
                     ELSE IF ToGpuPull(s, mode) THEN DeviceToHost(sized)
                     ELSE sized
<1>4. s.gpu # "NOT_ALLOCATED" /\ ~ToGpuPull(s, mode)
  BY <1>2 DEF Coherent, ToGpuPull, UpToDate
<1>5. PICK r : r = sized
  OBVIOUS
<1>6. /\ r \in DataSet /\ r.exists /\ r.instance /\ r.host = s.host /\ r.size = s.size
      /\ r.prot = s.prot /\ r.cpu = s.cpu /\ (r.mapped <=> r.size > 0)
      /\ OnGpu(s) => r = s
  <2>1. CASE s.gpu = "RESIZED_ON_CPU"
    <3>1. PICK t : t = DeallocateGpuDataPtr(s)
      OBVIOUS
    <3>2. t \in DataSet
      <4>1. PICK n : n = IF s.size = 0 THEN s.buffer ELSE 0
        OBVIOUS
      <4>2. n \in 0 .. 1
        BY <1>3, <4>1 DEF DataSet
      <4>3. t = [s EXCEPT !.buffer = n, !.gpu = "NOT_ALLOCATED", !.cpu = "UP_TO_DATE_WRITE"]
        BY <3>1, <4>1 DEF DeallocateGpuDataPtr
      <4>4. QED
        BY <1>3, <4>2, <4>3 DEF DataSet, XpuDataStatus
    <3>3. /\ t.exists /\ t.instance /\ t.host = s.host /\ t.size = s.size /\ t.prot = s.prot
          /\ (t.mapped <=> t.size > 0) /\ s.cpu = "UP_TO_DATE_WRITE"
      BY <1>2, <1>3, <2>1, <3>1 DEF DeallocateGpuDataPtr, DataSet, Coherent, UpToDate
    <3>4. r = AllocateGpuDataPtr(t)
      BY <1>5, <2>1, <3>1 DEF ResizeGpuDataPtr
    <3>5. r \in DataSet
      BY <3>2, <3>4, ContentIs DEF AllocateGpuDataPtr, BufferOf, DataSet, XpuDataStatus
    <3>6. QED
      BY <2>1, <3>2, <3>3, <3>4, <3>5 DEF AllocateGpuDataPtr, DataSet, OnGpu, UpToDate
  <2>2. CASE s.gpu # "RESIZED_ON_CPU"
    BY <1>2, <1>3, <1>5, <2>2
  <2>3. QED
    BY <2>1, <2>2
<1>7. PICK c : c = IF ToGpuPush(s, mode) THEN HostToDevice(r) ELSE r
  OBVIOUS
<1>8. c \in DataSet
  BY <1>3, <1>6, <1>7 DEF HostToDevice, DataSet
<1>9. /\ c.exists /\ c.instance /\ c.host = s.host /\ c.size = s.size
      /\ c.prot = s.prot /\ c.cpu = s.cpu /\ (c.mapped <=> c.size > 0)
      /\ OnGpu(s) => c = s
      /\ ToGpuPush(s, mode) /\ s.size > 0 => c.dev = s.host
  BY <1>6, <1>7 DEF HostToDevice, DataSet, ToGpuPush, OnGpu, UpToDate
<1>10. e = ProtectMData(ToGpuStatus(c, mode))
  BY <1>1, <1>4, <1>5, <1>7 DEF TransferToGpu
<1>11. PICK cpu, gpu : cpu = CpuAfterToGpu(c, mode) /\ gpu = GpuAfterToGpu(c, mode)
  OBVIOUS
<1>12. /\ s.prot = "rw" => s.cpu = "UP_TO_DATE_WRITE"
       /\ s.prot = "read" => s.cpu = "UP_TO_DATE_READ"
       /\ s.prot = "none" => s.cpu = "OUT_OF_DATE"
       /\ s.prot \in {"rw", "read", "none"}
  BY <1>2 DEF Coherent
<1>13. /\ mode = "READ_ONLY" => /\ gpu = "UP_TO_DATE_READ"
                                /\ s.prot # "none" => cpu = "UP_TO_DATE_READ"
                                /\ s.prot = "none" => cpu = "OUT_OF_DATE"
       /\ mode # "READ_ONLY" => gpu = "UP_TO_DATE_WRITE" /\ cpu = "OUT_OF_DATE"
  BY <1>9, <1>11, <1>12 DEF CpuAfterToGpu, GpuAfterToGpu
<1>14. PICK f : f = ToGpuStatus(c, mode)
  OBVIOUS
<1>15. f = [c EXCEPT !.cpu = cpu, !.gpu = gpu]
  BY <1>11, <1>14 DEF ToGpuStatus
<1>16. f \in DataSet
  BY <1>8, <1>13, <1>15 DEF DataSet, XpuDataStatus
<1>17. PICK p : p = Rights(f)
  OBVIOUS
<1>18. e = [f EXCEPT !.prot = p]
  BY <1>10, <1>14, <1>17 DEF ProtectMData
<1>19. f.cpu = cpu /\ f.gpu = gpu
  BY <1>8, <1>15 DEF DataSet
<1>20. p = IF cpu = "OUT_OF_DATE" THEN "none" ELSE "read"
  BY <1>13, <1>17, <1>19 DEF Rights
<1>21. e \in DataSet
  BY <1>16, <1>18, <1>20 DEF DataSet
<1>22. /\ e.cpu = cpu /\ e.gpu = gpu /\ e.prot = p /\ e.exists /\ e.instance /\ e.dev = c.dev
       /\ e.host = s.host /\ e.size = s.size /\ (e.mapped <=> e.size > 0)
  BY <1>8, <1>9, <1>15, <1>18 DEF DataSet
<1>23. Coherent(e) /\ OnGpu(e)
  BY <1>13, <1>20, <1>21, <1>22 DEF Coherent, OnGpu, UpToDate
<1>24. mode # "READ_ONLY" \/ Owned(d) => Owned(e)
  BY <1>2, <1>13, <1>20, <1>22 DEF Owned
<1>25. OnGpu(d) => e.dev = d.dev
  BY <1>2, <1>9, <1>22
<1>26. e.prot # "none" \/ ~OnGpu(d) => d.prot # "none"
  BY <1>2, <1>13, <1>20, <1>22 DEF Coherent, OnGpu
<1>27. mode # "NOT_INITIALIZE" /\ ~OnGpu(d) /\ d.size > 0 => e.dev = d.host
  BY <1>2, <1>9, <1>22 DEF ToGpuPush, Coherent, OnGpu, UpToDate
<1>28. QED
  BY <1>2, <1>22, <1>23, <1>24, <1>25, <1>26, <1>27

LEMMA Argument ==
    ASSUME NEW d, Coherent(d), NEW mode
    PROVE  AsArgument(d, mode) = TransferToGpu(Setup(d), mode)
<1>1. Coherent(Setup(d))
  BY SetupIs
<1>2. Setup(d).gpu # "TEMP_WRITE" \/ ~Setup(d).instance
  BY <1>1 DEF Coherent, UpToDate
<1>3. Setup(d).instance
  BY SetupIs
<1>4. QED
  BY <1>2, <1>3 DEF AsArgument

LEMMA ToCpu ==
    ASSUME NEW d, Coherent(d), NEW mode \in {"MOVE", "READ_ONLY"},
           mode = "READ_ONLY" => d.prot = "none", NEW e, e = TransferToCpu(d, mode)
    PROVE  /\ Coherent(e) /\ e.size = d.size /\ e.prot # "none"
           /\ mode = "MOVE" => e.prot = "rw"
           /\ OnGpu(e) => OnGpu(d)
           /\ e.dev = d.dev
           /\ d.prot # "none" => e.host = d.host
           /\ d.prot = "none" => OnGpu(d)
           /\ d.prot = "none" /\ d.size > 0 => e.host = d.dev
<1>1. d \in DataSet /\ d.exists /\ d.host \in Contents /\ d.dev \in Contents
  BY ContentIs DEF Coherent, DataSet
<1>2. CASE ~d.instance
  <2>1. e = d
    BY <1>2 DEF TransferToCpu
  <2>2. QED
    BY <1>2, <2>1 DEF Coherent, OnGpu
<1>3. CASE d.instance
  <2>1. /\ d.cpu # "NOT_ALLOCATED" /\ ~ToCpuPush(d, mode)
        /\ ToCpuPull(d, mode) <=> d.prot = "none"
    BY <1>3 DEF Coherent, ToCpuPush, ToCpuPull
  <2>2. PICK c : c = IF ToCpuPull(d, mode) THEN DeviceToHost(d) ELSE d
    OBVIOUS
  <2>3. c \in DataSet
    BY <1>1, <2>2 DEF DeviceToHost, DataSet
  <2>4. /\ c.exists /\ c.instance /\ c.dev = d.dev /\ c.size = d.size /\ c.prot = d.prot
        /\ c.cpu = d.cpu /\ c.gpu = d.gpu /\ (c.mapped <=> c.size > 0)
        /\ d.prot # "none" => c.host = d.host
        /\ d.prot = "none" /\ d.size > 0 => c.host = d.dev
    BY <1>1, <1>3, <2>1, <2>2 DEF DeviceToHost, DataSet, Coherent
  <2>5. e = ProtectMData(ToCpuStatus(c, mode))
    BY <1>3, <2>1, <2>2 DEF TransferToCpu
  <2>6. PICK cpu, gpu : cpu = CpuAfterToCpu(c, mode) /\ gpu = GpuAfterToCpu(c, mode)
    OBVIOUS
  <2>7. /\ mode = "MOVE" => /\ cpu = "UP_TO_DATE_WRITE"
                            /\ gpu \in {"OUT_OF_DATE", "RESIZED_ON_CPU"}
        /\ mode = "READ_ONLY" => cpu = "UP_TO_DATE_READ" /\ gpu = "UP_TO_DATE_READ"
    BY <1>3, <2>4, <2>6 DEF CpuAfterToCpu, GpuAfterToCpu, Coherent, UpToDate
  <2>8. PICK f : f = ToCpuStatus(c, mode)
    OBVIOUS
  <2>9. f = [c EXCEPT !.cpu = cpu, !.gpu = gpu]
    BY <2>6, <2>8 DEF ToCpuStatus
  <2>10. f \in DataSet /\ f.cpu = cpu /\ f.gpu = gpu
    BY <2>3, <2>7, <2>9 DEF DataSet, XpuDataStatus
  <2>11. PICK p : p = Rights(f)
    OBVIOUS
  <2>12. e = [f EXCEPT !.prot = p]
    BY <2>5, <2>8, <2>11 DEF ProtectMData
  <2>13. p = IF mode = "MOVE" THEN "rw" ELSE "read"
    BY <2>7, <2>10, <2>11 DEF Rights
  <2>14. e \in DataSet
    BY <2>10, <2>12, <2>13 DEF DataSet
  <2>15. /\ e.cpu = cpu /\ e.gpu = gpu /\ e.prot = p /\ e.exists /\ e.instance /\ e.dev = d.dev
         /\ e.host = c.host /\ e.size = d.size /\ (e.mapped <=> e.size > 0)
    BY <2>3, <2>4, <2>9, <2>12 DEF DataSet
  <2>16. Coherent(e)
    BY <2>7, <2>13, <2>14, <2>15 DEF Coherent, UpToDate
  <2>17. OnGpu(e) => OnGpu(d)
    BY <1>3, <2>7, <2>15 DEF OnGpu, UpToDate, Coherent
  <2>18. d.prot = "none" => OnGpu(d)
    BY <1>3 DEF OnGpu, Coherent
  <2>19. QED
    BY <2>4, <2>13, <2>15, <2>16, <2>17, <2>18
<1>4. QED
  BY <1>2, <1>3

LEMMA Resized ==
    ASSUME NEW d, Coherent(d), NEW n \in 0 .. 1, NEW e, e = ResizeInternal(d, n, FALSE)
    PROVE  /\ Coherent(e) /\ e.prot = "rw" /\ ~OnGpu(e)
           /\ \/ e.host = Blank
              \/ d.prot # "none" /\ d.size > 0 /\ e.host = d.host
              \/ OnGpu(d) /\ d.size > 0 /\ e.host = d.dev
<1>1. d \in DataSet /\ d.exists /\ d.host \in Contents /\ d.dev \in Contents
      /\ (d.mapped <=> d.size > 0)
  BY ContentIs DEF Coherent, DataSet
<1>2. PICK old : old = IF ResizeFaults(d, n) THEN FaultTransfer(d, FALSE) ELSE d
  OBVIOUS
<1>3. /\ Coherent(old)
      /\ \/ old.host = d.host /\ d.prot # "none"
         \/ old.host = d.dev /\ OnGpu(d) /\ d.size > 0
         \/ n = 0 \/ ~d.mapped
  <2>1. CASE ResizeFaults(d, n)
    <3>1. old = TransferToCpu(d, "MOVE")
      BY <1>2, <2>1 DEF FaultTransfer
    <3>2. d.prot = "none" /\ d.size > 0
      BY <1>1, <2>1 DEF ResizeFaults
    <3>3. QED
      BY <3>1, <3>2, ToCpu
  <2>2. CASE ~ResizeFaults(d, n)
    <3>1. old = d
      BY <1>2, <2>2
    <3>2. n = 0 \/ n > 0
      OBVIOUS
    <3>3. n = 0 \/ ~d.mapped \/ d.prot # "none"
      BY <1>1, <2>2, <3>2 DEF ResizeFaults
    <3>4. QED
      BY <3>1, <3>3
  <2>3. QED
    BY <2>1, <2>2
<1>4. old \in DataSet /\ old.exists
  BY <1>3 DEF Coherent
<1>5. PICK host : host = IF n > 0 /\ d.mapped THEN old.host ELSE Blank
  OBVIOUS
<1>6. /\ host \in Contents
      /\ \/ host = Blank
         \/ d.prot # "none" /\ d.size > 0 /\ host = d.host
         \/ OnGpu(d) /\ d.size > 0 /\ host = d.dev
  <2>1. CASE n > 0 /\ d.mapped
    <3>1. host = old.host /\ d.size > 0 /\ n # 0
      BY <1>1, <1>5, <2>1
    <3>2. QED
      BY <1>3, <1>4, <2>1, <3>1, ContentIs DEF DataSet
  <2>2. CASE ~(n > 0 /\ d.mapped)
    BY <1>5, <2>2, ContentIs
  <2>3. QED
    BY <2>1, <2>2
<1>7. PICK m : m = (n > 0)
  OBVIOUS
<1>8. PICK r : r = [old EXCEPT !.size = n, !.mapped = m, !.prot = "rw", !.host = host]
  OBVIOUS
<1>9. e = SetGpuDataStatusToResized(r)
  <2>1. ~(n > 0 /\ ~d.exists)
    BY <1>1
  <2>2. host = IF n > 0 /\ d.mapped THEN old.host ELSE Blank
    BY <1>5
  <2>3. QED
    BY <1>2, <1>7, <1>8, <2>1, <2>2 DEF ResizeInternal
<1>10. r \in DataSet
  <2>1. m \in BOOLEAN
    BY <1>7
  <2>2. QED
    BY <1>4, <1>6, <1>8, <2>1, ContentIs DEF DataSet
<1>11. r.size = n /\ r.mapped = m /\ r.prot = "rw" /\ r.host = host /\ r.exists
  BY <1>4, <1>8 DEF DataSet
<1>12. r.mapped <=> r.size > 0
  BY <1>7, <1>11
<1>13. CASE r.instance
  <2>1. e = [r EXCEPT !.gpu = "RESIZED_ON_CPU", !.cpu = "UP_TO_DATE_WRITE"]
    BY <1>9, <1>13 DEF SetGpuDataStatusToResized
  <2>2. e \in DataSet
    BY <1>10, <2>1 DEF DataSet, XpuDataStatus
  <2>3. /\ e.size = r.size /\ e.mapped = r.mapped /\ e.prot = "rw" /\ e.host = host
        /\ e.exists /\ e.instance /\ e.gpu = "RESIZED_ON_CPU" /\ e.cpu = "UP_TO_DATE_WRITE"
    BY <1>10, <1>11, <1>13, <2>1 DEF DataSet
  <2>4. Coherent(e) /\ ~OnGpu(e)
    BY <1>12, <2>2, <2>3 DEF Coherent, OnGpu, UpToDate
  <2>5. QED
    BY <1>6, <2>3, <2>4
<1>14. CASE ~r.instance
  <2>1. e = r
    BY <1>9, <1>14 DEF SetGpuDataStatusToResized
  <2>2. Coherent(e) /\ ~OnGpu(e)
    BY <1>10, <1>11, <1>12, <1>14, <2>1 DEF Coherent, OnGpu
  <2>3. QED
    BY <1>6, <1>11, <2>1, <2>2
<1>15. QED
  BY <1>13, <1>14

LEMMA DeviceStored ==
    ASSUME NEW d, Coherent(d), Owned(d), NEW c \in Contents, NEW e, e = OnDevice(d, c)
    PROVE  /\ Coherent(e) /\ Owned(e) /\ OnGpu(e) /\ e.size = d.size
           /\ d.size > 0 => e.dev = c
<1>1. d \in DataSet /\ d.host \in Contents
  BY ContentIs DEF Coherent, DataSet
<1>2. e \in DataSet
  BY <1>1, Cells, ContentIs DEF OnDevice, KernelStore, DataSet
<1>3. d.size > 0 => e.dev = c
  BY <1>1 DEF OnDevice, KernelStore, DataSet
<1>4. Owned(e) /\ e.size = d.size
  BY <1>1 DEF OnDevice, KernelStore, DataSet, Owned
<1>5. e.exists = d.exists /\ e.mapped = d.mapped /\ e.cpu = d.cpu /\ e.gpu = d.gpu
  BY <1>1 DEF OnDevice, KernelStore, DataSet
<1>6. QED
  BY <1>2, <1>3, <1>4, <1>5 DEF Coherent, Owned, OnGpu

LEMMA HostStored ==
    ASSUME NEW d, Coherent(d), d.prot = "rw", NEW e, e = OnHost(d)
    PROVE  /\ Coherent(e) /\ e.prot = "rw" /\ ~OnGpu(e) /\ e.size = d.size
           /\ e.host = NewCells(d.host)
<1>1. d \in DataSet /\ d.host \in Contents /\ d.dev \in Contents
  BY ContentIs DEF Coherent, DataSet
<1>2. e \in DataSet
  BY <1>1, Cells, ContentIs DEF OnHost, HostStore, DataSet
<1>3. /\ e.host = NewCells(d.host) /\ e.prot = d.prot /\ e.size = d.size
      /\ e.instance = d.instance /\ e.exists = d.exists /\ e.mapped = d.mapped
      /\ e.cpu = d.cpu /\ e.gpu = d.gpu
  BY <1>1 DEF OnHost, HostStore, DataSet
<1>4. QED
  BY <1>2, <1>3 DEF Coherent, OnGpu, UpToDate

-----------------------------------------------------------------------------
(* An operation leaves of each data set what its passing says.             *)

LEMMA OwnedIs ==
    ASSUME NEW d, Coherent(d)
    PROVE  /\ Owned(d) => OnGpu(d) /\ d.cpu = "OUT_OF_DATE"
           /\ ~OnGpu(d) => d.prot = "rw"
           /\ d.prot \in {"none", "read", "rw"} /\ d.size \in Nat
           /\ d.dev \in Contents /\ d.host \in Contents
BY ContentIs DEF Coherent, Owned, OnGpu, UpToDate, DataSet

LEMMA Brought ==
    ASSUME NEW a, Sane(a), NEW v \in Vars, NEW d, Fitting(a, v, d),
           NEW mode \in {"MOVE", "READ_ONLY", "NOT_INITIALIZE"},
           NEW e, e = TransferToGpu(Setup(d), mode)
    PROVE  /\ Coherent(e) /\ OnGpu(e) /\ e.size = d.size
           /\ v \in a.owned \/ mode # "READ_ONLY" => Owned(e)
           /\ v \in a.fresh /\ d.size > 0 => e.dev.ghosts = "new"
           /\ mode # "NOT_INITIALIZE" /\ v \notin a.stale => Current(e)
           /\ mode # "NOT_INITIALIZE" /\ v = "residual" => Zeros(e)
<1>1. Coherent(d)
  BY DEF Fitting
<1>2. /\ Coherent(e) /\ OnGpu(e) /\ e.size = d.size /\ e.host = d.host
      /\ mode # "READ_ONLY" \/ Owned(d) => Owned(e)
      /\ OnGpu(d) => e.dev = d.dev
      /\ e.prot # "none" \/ ~OnGpu(d) => d.prot # "none"
      /\ mode # "NOT_INITIALIZE" /\ ~OnGpu(d) /\ d.size > 0 => e.dev = d.host
  BY <1>1, ToGpu
<1>3. v \in a.fresh => OnGpu(d)
  BY <1>1, OwnedIs DEF Fitting, Sane
<1>4. mode # "NOT_INITIALIZE" /\ v \notin a.stale => Current(e)
  BY <1>2 DEF Fitting, Current
<1>5. mode # "NOT_INITIALIZE" /\ v = "residual" => Zeros(e)
  BY <1>2 DEF Fitting, Zeros
<1>6. QED
  BY <1>2, <1>3, <1>4, <1>5 DEF Fitting

LEMMA Taken ==
    ASSUME NEW a, NEW v \in Vars, NEW d, Fitting(a, v, d),
           NEW mode \in {"MOVE", "READ_ONLY"}, mode = "READ_ONLY" => d.prot = "none",
           NEW e, e = TransferToCpu(d, mode)
    PROVE  /\ Coherent(e) /\ e.size = d.size /\ e.prot # "none"
           /\ mode = "MOVE" => e.prot = "rw"
           /\ v \notin a.stale => Current(e)
           /\ v = "residual" => Zeros(e)
<1>1. Coherent(d)
  BY DEF Fitting
<1>2. /\ Coherent(e) /\ e.size = d.size /\ e.prot # "none"
      /\ mode = "MOVE" => e.prot = "rw"
      /\ OnGpu(e) => OnGpu(d)
      /\ e.dev = d.dev
      /\ d.prot # "none" => e.host = d.host
      /\ d.prot = "none" => OnGpu(d)
      /\ d.prot = "none" /\ d.size > 0 => e.host = d.dev
  BY <1>1, ToCpu
<1>3. v \notin a.stale => Current(e)
  BY <1>2 DEF Fitting, Current
<1>4. v = "residual" => Zeros(e)
  BY <1>2 DEF Fitting, Zeros
<1>5. QED
  BY <1>2, <1>3, <1>4

\* the data set after the transfers of device code
Entered(op, v, d) ==
    IF op.kind = "kernel" /\ v \in op.reads \union op.writes
    THEN AsArgument(d, IF v \in op.writes THEN "MOVE" ELSE "READ_ONLY") ELSE d

LEMMA EnteredIs ==
    ASSUME NEW a, Sane(a), NEW op, NEW b, Passes(a, op, b), op.kind \in DeviceKinds,
           NEW v \in Vars, NEW d, Fitting(a, v, d), NEW e, e = Entered(op, v, d)
    PROVE  /\ Coherent(e) /\ e.size = d.size
           /\ v \in a.owned \union op.writes => Owned(e)
           /\ v \in op.reads => OnGpu(e)
           /\ v \in a.fresh /\ d.size > 0 => e.dev.ghosts = "new"
           /\ v \notin a.stale => Current(e)
           /\ v = "residual" => Zeros(e)
<1>1. Coherent(d) /\ DevicePasses(a, op, b)
  BY DEF Fitting, Passes
<1>2. CASE op.kind = "kernel" /\ v \in op.reads \union op.writes
  <2>1. PICK mode \in {"MOVE", "READ_ONLY", "NOT_INITIALIZE"} :
            mode = IF v \in op.writes THEN "MOVE" ELSE "READ_ONLY"
    OBVIOUS
  <2>2. e = TransferToGpu(Setup(d), mode)
    BY <1>1, <1>2, <2>1, Argument DEF Entered
  <2>3. /\ Coherent(e) /\ OnGpu(e) /\ e.size = d.size
        /\ v \in a.owned \/ mode # "READ_ONLY" => Owned(e)
        /\ v \in a.fresh /\ d.size > 0 => e.dev.ghosts = "new"
        /\ mode # "NOT_INITIALIZE" /\ v \notin a.stale => Current(e)
        /\ mode # "NOT_INITIALIZE" /\ v = "residual" => Zeros(e)
    BY <2>2, Brought
  <2>4. QED
    BY <2>1, <2>3
<1>3. CASE ~(op.kind = "kernel" /\ v \in op.reads \union op.writes)
  <2>1. e = d
    BY <1>3 DEF Entered
  <2>2. v \in op.reads \union op.writes => v \in a.owned
    BY <1>1, <1>3 DEF DevicePasses, Pointed, Touched
  <2>3. v \in a.owned => Owned(e) /\ OnGpu(e)
    BY <1>1, <2>1, OwnedIs DEF Fitting
  <2>4. QED
    BY <2>1, <2>2, <2>3 DEF Fitting
<1>4. QED
  BY <1>2, <1>3

LEMMA DeviceLeaves ==
    ASSUME NEW a, Sane(a), NEW op, NEW b, Passes(a, op, b), op.kind \in DeviceKinds,
           NEW v \in Vars, NEW d, Fitting(a, v, d), NEW e, e = Entered(op, v, d),
           NEW f, f = IF v \in op.writes THEN OnDevice(e, NewCells(e.dev)) ELSE e
    PROVE  Fitting(b, v, f)
<1>1. /\ Coherent(e) /\ e.size = d.size
      /\ v \in a.owned \union op.writes => Owned(e)
      /\ v \in a.fresh /\ d.size > 0 => e.dev.ghosts = "new"
      /\ v \notin a.stale => Current(e)
      /\ v = "residual" => Zeros(e)
  BY EnteredIs
<1>2. DevicePasses(a, op, b)
  BY DEF Passes
<1>3. CASE v \in op.writes
  <2>1. Owned(e) /\ OnGpu(e) /\ e.dev \in Contents
    BY <1>1, <1>3, OwnedIs
  <2>2. PICK c : c = NewCells(e.dev)
    OBVIOUS
  <2>3. /\ c \in Contents /\ c.own = "new"
        /\ e.dev.ghosts = "zero" => c.ghosts = "zero"
    BY <2>1, <2>2, Cells
  <2>4. /\ Coherent(f) /\ Owned(f) /\ OnGpu(f) /\ f.size = e.size
        /\ e.size > 0 => f.dev = c
    <3>1. f = OnDevice(e, c)
      BY <1>3, <2>2
    <3>2. QED
      BY <1>1, <2>1, <2>3, <3>1, DeviceStored
  <2>5. Current(f)
    BY <2>3, <2>4 DEF Current, Owned
  <2>6. v = "residual" => Zeros(f)
    BY <1>1, <2>1, <2>3, <2>4 DEF Zeros, Owned
  <2>7. v \notin b.fresh /\ v \notin b.home
    BY <1>2, <1>3 DEF DevicePasses
  <2>8. QED
    BY <2>4, <2>5, <2>6, <2>7 DEF Fitting
<1>4. CASE v \notin op.writes
  <2>1. f = e
    BY <1>4
  <2>2. /\ v \notin b.stale => v \notin a.stale
        /\ v \in b.owned => v \in a.owned
        /\ v \in b.fresh => v \in a.fresh
        /\ v \notin b.home
    BY <1>2, <1>4 DEF DevicePasses
  <2>3. QED
    BY <1>1, <2>1, <2>2 DEF Fitting
<1>5. QED
  BY <1>3, <1>4

LEMMA ExchangeLeaves ==
    ASSUME NEW a, Sane(a), NEW op, NEW b, Passes(a, op, b), op.kind = "exchange",
           NEW v \in Vars, NEW d, Fitting(a, v, d),
           NEW f, f = IF v \in op.reads THEN OnDevice(d, NewGhosts(d.dev)) ELSE d
    PROVE  Fitting(b, v, f)
<1>1. ExchangePasses(a, op, b) /\ Coherent(d)
  BY DEF Passes, Fitting
<1>2. CASE v \in op.reads
  <2>1. v \in a.owned /\ v \notin a.stale /\ v # "residual"
    BY <1>1, <1>2 DEF ExchangePasses, Pointed, Touched, Readable
  <2>2. Owned(d) /\ OnGpu(d) /\ d.dev \in Contents /\ Current(d)
    BY <1>1, <2>1, OwnedIs DEF Fitting
  <2>3. PICK c : c = NewGhosts(d.dev)
    OBVIOUS
  <2>4. c \in Contents /\ c.own = d.dev.own /\ c.ghosts = "new"
    BY <2>2, <2>3, Cells
  <2>5. /\ Coherent(f) /\ Owned(f) /\ OnGpu(f) /\ f.size = d.size
        /\ d.size > 0 => f.dev = c
    <3>1. f = OnDevice(d, c)
      BY <1>2, <2>3
    <3>2. QED
      BY <1>1, <2>2, <2>4, <3>1, DeviceStored
  <2>6. Current(f)
    BY <2>2, <2>4, <2>5 DEF Current, Owned
  <2>7. v \notin b.home
    BY <1>1 DEF ExchangePasses
  <2>8. QED
    BY <2>1, <2>4, <2>5, <2>6, <2>7 DEF Fitting
<1>3. CASE v \notin op.reads
  <2>1. /\ v \notin b.stale => v \notin a.stale
        /\ v \in b.owned => v \in a.owned
        /\ v \in b.fresh => v \in a.fresh
        /\ v \notin b.home
    BY <1>1, <1>3 DEF ExchangePasses, SameData
  <2>2. QED
    BY <1>3, <2>1 DEF Fitting
<1>4. QED
  BY <1>2, <1>3

LEMMA ToGpuLeaves ==
    ASSUME NEW a, Sane(a), NEW op, NEW b, Passes(a, op, b),
           op.kind \in {"transfer_to_gpu_noinit", "transfer_to_gpu_move"},
           NEW v \in Vars, NEW d, Fitting(a, v, d),
           NEW mode, mode = IF op.kind = "transfer_to_gpu_move" THEN "MOVE" ELSE "NOT_INITIALIZE",
           NEW f, f = IF v \in op.writes THEN TransferToGpu(Setup(d), mode) ELSE d
    PROVE  Fitting(b, v, f)
<1>1. /\ op.kind = "transfer_to_gpu_move" => ToGpuPasses(a, op, b)
      /\ op.kind = "transfer_to_gpu_noinit" => NoInitPasses(a, op, b)
      /\ Coherent(d)
  BY DEF Passes, Fitting
<1>2. CASE v \in op.writes
  <2>1. mode \in {"MOVE", "READ_ONLY", "NOT_INITIALIZE"} /\ mode # "READ_ONLY"
    OBVIOUS
  <2>2. /\ Coherent(f) /\ OnGpu(f) /\ f.size = d.size
        /\ v \in a.owned \/ mode # "READ_ONLY" => Owned(f)
        /\ v \in a.fresh /\ d.size > 0 => f.dev.ghosts = "new"
        /\ mode # "NOT_INITIALIZE" /\ v \notin a.stale => Current(f)
        /\ mode # "NOT_INITIALIZE" /\ v = "residual" => Zeros(f)
    <3>1. f = TransferToGpu(Setup(d), mode)
      BY <1>2
    <3>2. QED
      BY <2>1, <3>1, Brought
  <2>3. CASE op.kind = "transfer_to_gpu_move"
    <3>1. /\ v \notin a.stale /\ v \notin b.home /\ mode = "MOVE"
          /\ v \in b.fresh => v \in a.fresh
      BY <1>1, <1>2, <2>3 DEF ToGpuPasses
    <3>2. QED
      BY <2>2, <3>1 DEF Fitting
  <2>4. CASE op.kind = "transfer_to_gpu_noinit"
    <3>1. v \in b.stale /\ v # "residual" /\ v \notin b.fresh /\ v \notin b.home
      BY <1>1, <1>2, <2>4 DEF NoInitPasses
    <3>2. QED
      BY <2>1, <2>2, <3>1 DEF Fitting
  <2>5. QED
    BY <2>3, <2>4
<1>3. CASE v \notin op.writes
  <2>1. /\ v \notin b.stale => v \notin a.stale
        /\ v \in b.owned => v \in a.owned
        /\ v \in b.fresh => v \in a.fresh
        /\ v \notin b.home
    BY <1>1, <1>3 DEF ToGpuPasses, NoInitPasses
  <2>2. QED
    BY <1>3, <2>1 DEF Fitting
<1>4. QED
  BY <1>2, <1>3

\* the data set after the transfer to the CPU, a host access, and a resize
Returned(op, v, d) == IF v \in op.writes THEN TransferToCpu(d, "MOVE") ELSE d
Faulted(op, v, d) ==
    IF v \notin op.reads \union op.writes
       \/ IF v \in op.writes THEN Storable(d) ELSE Loadable(d)
    THEN d ELSE FaultTransfer(d, v \notin op.writes)
HostLeft(op, v, e) == IF v \in op.writes /\ e.size > 0 THEN OnHost(e) ELSE e

LEMMA HostLeaves ==
    ASSUME NEW a, Sane(a), NEW op, NEW b, Passes(a, op, b), op.kind \in ToCpuKinds,
           NEW v \in Vars, NEW d, Fitting(a, v, d), NEW n \in 0 .. 1, NEW f,
           op.kind = "transfer_to_cpu_move" => f = Returned(op, v, d),
           op.kind = "host" => f = HostLeft(op, v, Faulted(op, v, d)),
           op.kind = "resize" => f = IF v \in op.writes THEN ResizeInternal(d, n, FALSE) ELSE d
    PROVE  Fitting(b, v, f)
<1>1. ToCpuPasses(a, op, b) /\ Coherent(d)
  BY DEF Passes, Fitting
<1>2. CASE v \notin op.reads \union op.writes
  <2>1. f = d
    BY <1>2 DEF Returned, HostLeft, Faulted, ToCpuKinds
  <2>2. /\ v \notin b.stale => v \notin a.stale
        /\ v \in b.owned => v \in a.owned
        /\ v \in b.fresh => v \in a.fresh
        /\ v \in b.home => v \in a.home
    BY <1>1, <1>2 DEF ToCpuPasses
  <2>3. QED
    BY <2>1, <2>2 DEF Fitting
<1>3. CASE v \in op.reads \union op.writes
  <2>1. v \notin a.stale /\ v \notin b.owned /\ v \notin b.fresh
    BY <1>1, <1>3 DEF ToCpuPasses, Touched
  <2>2. v \in b.home => op.kind = "transfer_to_cpu_move"
                        /\ (v \in a.home \/ v \in op.writes)
    BY <1>1 DEF ToCpuPasses
  <2>3. SUFFICES /\ Coherent(f) /\ Current(f)
                 /\ v = "residual" => Zeros(f)
                 /\ v \in b.home => f.prot # "none"
    BY <2>1 DEF Fitting
  <2>4. CASE op.kind = "transfer_to_cpu_move"
    <3>1. CASE v \in op.writes
      <4>1. f = TransferToCpu(d, "MOVE")
        BY <2>4, <3>1 DEF Returned
      <4>2. QED
        BY <2>1, <4>1, Taken
    <3>2. CASE v \notin op.writes
      <4>1. f = d
        BY <2>4, <3>2 DEF Returned
      <4>2. QED
        BY <2>1, <2>2, <3>2, <4>1 DEF Fitting
    <3>3. QED
      BY <3>1, <3>2
  <2>5. CASE op.kind = "host"
    <3>1. v \notin b.home
      BY <2>2, <2>5
    <3>2. PICK e : e = Faulted(op, v, d)
      OBVIOUS
    <3>3. d.prot \in {"none", "read", "rw"}
      BY <1>1, OwnedIs
    <3>4. /\ Coherent(e) /\ Current(e)
          /\ v = "residual" => Zeros(e)
          /\ v \in op.writes => e.prot = "rw"
      <4>1. CASE IF v \in op.writes THEN Storable(d) ELSE Loadable(d)
        <5>1. e = d
          BY <3>2, <4>1 DEF Faulted
        <5>2. QED
          BY <2>1, <4>1, <5>1 DEF Fitting, Storable
      <4>2. CASE ~(IF v \in op.writes THEN Storable(d) ELSE Loadable(d))
        <5>1. PICK mode \in {"MOVE", "READ_ONLY"} :
                  mode = IF v \in op.writes THEN "MOVE" ELSE "READ_ONLY"
          OBVIOUS
        <5>2. mode = "READ_ONLY" => d.prot = "none"
          BY <3>3, <4>2, <5>1 DEF Loadable
        <5>3. e = TransferToCpu(d, mode)
          BY <1>3, <3>2, <4>2, <5>1 DEF Faulted, FaultTransfer
        <5>4. QED
          BY <2>1, <5>1, <5>2, <5>3, Taken
      <4>3. QED
        BY <4>1, <4>2
    <3>5. CASE v \in op.writes /\ e.size > 0
      <4>1. f = OnHost(e)
        BY <2>5, <3>2, <3>5 DEF HostLeft
      <4>2. /\ Coherent(f) /\ f.prot = "rw" /\ ~OnGpu(f) /\ f.size = e.size
            /\ f.host = NewCells(e.host)
        BY <3>4, <3>5, <4>1, HostStored
      <4>3. f.host.own = "new" /\ (e.host.ghosts = "zero" => f.host.ghosts = "zero")
        BY <3>4, <4>2, Cells, OwnedIs
      <4>4. Current(f)
        BY <4>2, <4>3 DEF Current
      <4>5. v = "residual" => Zeros(f)
        BY <3>4, <3>5, <4>2, <4>3 DEF Zeros
      <4>6. QED
        BY <3>1, <4>2, <4>4, <4>5
    <3>6. CASE ~(v \in op.writes /\ e.size > 0)
      <4>1. f = e
        BY <2>5, <3>2, <3>6 DEF HostLeft
      <4>2. QED
        BY <3>1, <3>4, <4>1
    <3>7. QED
      BY <3>5, <3>6
  <2>6. CASE op.kind = "resize"
    <3>1. v \notin b.home
      BY <2>2, <2>6
    <3>2. CASE v \notin op.writes
      <4>1. f = d
        BY <2>6, <3>2
      <4>2. QED
        BY <2>1, <3>1, <4>1 DEF Fitting
    <3>3. CASE v \in op.writes
      <4>1. f = ResizeInternal(d, n, FALSE)
        BY <2>6, <3>3
      <4>2. /\ Coherent(f) /\ f.prot = "rw" /\ ~OnGpu(f)
            /\ \/ f.host = Blank
               \/ d.prot # "none" /\ d.size > 0 /\ f.host = d.host
               \/ OnGpu(d) /\ d.size > 0 /\ f.host = d.dev
        BY <1>1, <4>1, Resized
      <4>3. Current(f)
        BY <2>1, <4>2, ContentIs DEF Current, Fitting
      <4>4. v = "residual" => Zeros(f)
        BY <4>2, ContentIs DEF Zeros, Fitting
      <4>5. QED
        BY <3>1, <4>2, <4>3, <4>4
    <3>4. QED
      BY <3>2, <3>3
  <2>7. QED
    BY <2>4, <2>5, <2>6 DEF ToCpuKinds
<1>4. QED
  BY <1>2, <1>3

\* what touches no data set
LEMMA RestLeaves ==
    ASSUME NEW a, Sane(a), NEW op, NEW b, Passes(a, op, b),
           op.kind \in {"gather", "malloc", "free", "init_system", "release_system"},
           NEW v \in Vars, NEW d, Fitting(a, v, d)
    PROVE  Fitting(b, v, d)
<1>1. /\ b.owned \subseteq a.owned /\ a.stale \subseteq b.stale
      /\ v \in b.fresh => v \in a.fresh
      /\ v \in b.home => v \in a.home
  BY DEF Passes, GatherPasses, MallocPasses, FreePasses, InitPasses, ReleasePasses, SameData
<1>2. QED
  BY <1>1 DEF Fitting

-----------------------------------------------------------------------------
(* A step of the program meets what the operation's passing says.          *)

HeldMeets(a) ==
    scratch \in [a.live -> Contents] /\ \A x \in a.live : Holding(a, x, scratch[x])

LEMMA MeetsWhen ==
    ASSUME NEW b, Sane(b), ds' = [v \in Vars |-> ds'[v]],
           \A v \in Vars : Fitting(b, v, ds'[v]), HeldMeets(b)', spmv' = b.setup
    PROVE  Meets(b)'
<1>1. ds' \in [Vars -> DataSet]
  BY DEF Fitting, Coherent
<1>2. QED
  BY <1>1 DEF Meets, HeldMeets

LEMMA ReadiedIs ==
    ASSUME todo # <<>>, NEW v \in Vars
    PROVE  /\ Head1.kind \in DeviceKinds => Readied(v) = Entered(Head1, v, ds[v])
           /\ Head1.kind = "transfer_to_cpu_move" => Readied(v) = Returned(Head1, v, ds[v])
           /\ Head1.kind = "host" => Readied(v) = Faulted(Head1, v, ds[v])
           /\ Head1.kind \in {"gather", "exchange", "init_system"} => Readied(v) = ds[v]
           /\ Head1.kind = "transfer_to_gpu_move" =>
                 Readied(v) = IF v \in Head1.writes THEN TransferToGpu(Setup(ds[v]), "MOVE")
                              ELSE ds[v]
           /\ Head1.kind = "transfer_to_gpu_noinit" =>
                 Readied(v) = IF v \in Head1.writes
                              THEN TransferToGpu(Setup(ds[v]), "NOT_INITIALIZE") ELSE ds[v]
<1>1. PICK op : op = Head1
  OBVIOUS
<1>2. \A kind : Is(kind) <=> op.kind = kind
  BY <1>1 DEF Is
<1>3. op.kind \in DeviceKinds => Readied(v) = Entered(op, v, ds[v])
  BY <1>1, <1>2 DEF Readied, Entered, ArgumentMode, DeviceKinds
<1>4. op.kind = "transfer_to_cpu_move" => Readied(v) = Returned(op, v, ds[v])
  BY <1>1, <1>2 DEF Readied, Returned
<1>5. op.kind = "host" => Readied(v) = Faulted(op, v, ds[v])
  BY <1>1, <1>2 DEF Readied, Faulted, Accessible
<1>6. op.kind \in {"gather", "exchange", "init_system"} => Readied(v) = ds[v]
  BY <1>1, <1>2 DEF Readied
<1>7. op.kind = "transfer_to_gpu_move" =>
          Readied(v) = IF v \in op.writes THEN TransferToGpu(Setup(ds[v]), "MOVE") ELSE ds[v]
  BY <1>1, <1>2 DEF Readied
<1>8. op.kind = "transfer_to_gpu_noinit" =>
          Readied(v) = IF v \in op.writes
                       THEN TransferToGpu(Setup(ds[v]), "NOT_INITIALIZE") ELSE ds[v]
  BY <1>1, <1>2 DEF Readied
<1>9. QED
  BY <1>1, <1>3, <1>4, <1>5, <1>6, <1>7, <1>8

LEMMA DeviceCodeMeets ==
    ASSUME NEW a, Meets(a), todo # <<>>, NEW b, Passes(a, Head1, b),
           NEW kinds \in SUBSET DeviceKinds, DeviceCode(kinds), UNCHANGED spmv
    PROVE  Meets(b)'
<1>1. PICK op : op = Head1
  OBVIOUS
<1>2. op.kind \in DeviceKinds /\ DevicePasses(a, op, b) /\ Passes(a, op, b) /\ Sane(a) /\ Sane(b)
  BY <1>1 DEF DeviceCode, Is, Passes, Meets
<1>3. ds' = [v \in Vars |-> IF v \in op.writes THEN OnDevice(Readied(v), NewCells(Readied(v).dev))
                           ELSE Readied(v)]
  BY <1>1 DEF DeviceCode
<1>4. ASSUME NEW v \in Vars
      PROVE  Fitting(b, v, ds'[v])
  <2>1. PICK d : d = ds[v]
    OBVIOUS
  <2>2. Fitting(a, v, d)
    BY <2>1 DEF Meets
  <2>3. PICK e : e = Entered(op, v, d)
    OBVIOUS
  <2>4. ds'[v] = IF v \in op.writes THEN OnDevice(e, NewCells(e.dev)) ELSE e
    BY <1>1, <1>2, <1>3, <2>1, <2>3, ReadiedIs
  <2>5. QED
    BY <1>2, <2>2, <2>3, <2>4, DeviceLeaves
<1>5. HeldMeets(b)'
  <2>1. /\ scratch \in [a.live -> Contents] /\ \A x \in a.live : Holding(a, x, scratch[x])
        /\ scratch' = [x \in a.live |-> IF x \in op.writes THEN NewCells(scratch[x])
                                       ELSE scratch[x]]
    BY <1>1 DEF Meets, DeviceCode
  <2>2. b.live = a.live
    BY <1>2 DEF DevicePasses
  <2>3. ASSUME NEW x \in a.live
        PROVE  Holding(b, x, scratch'[x])
    <3>1. PICK c \in Contents : c = scratch[x] /\ Holding(a, x, c)
      BY <2>1
    <3>2. scratch'[x] = IF x \in op.writes THEN NewCells(c) ELSE c
      BY <2>1, <3>1
    <3>3. /\ x \in b.fresh => x \in a.fresh /\ x \notin op.writes
          /\ x \in b.written => x \in a.written \/ x \in op.writes
      BY <1>2 DEF DevicePasses
    <3>4. QED
      BY <3>1, <3>2, <3>3, Cells DEF Holding
  <2>4. scratch' \in [b.live -> Contents]
    BY <2>1, <2>2, Cells
  <2>5. QED
    BY <2>2, <2>3, <2>4 DEF HeldMeets
<1>6. spmv' = b.setup
  BY <1>2 DEF Meets, DevicePasses
<1>7. ds' = [v \in Vars |-> ds'[v]]
  BY <1>3
<1>8. QED
  BY <1>2, <1>4, <1>5, <1>6, <1>7, MeetsWhen

LEMMA ExchangeMeets ==
    ASSUME NEW a, Meets(a), todo # <<>>, NEW b, Passes(a, Head1, b), NbnbTransferGpu
    PROVE  Meets(b)'
<1>1. PICK op : op = Head1
  OBVIOUS
<1>2. /\ op.kind = "exchange" /\ ExchangePasses(a, op, b) /\ Passes(a, op, b)
      /\ Sane(a) /\ Sane(b)
  BY <1>1 DEF NbnbTransferGpu, Is, Passes, Meets
<1>3. ds' = [v \in Vars |-> IF v \in op.reads THEN OnDevice(ds[v], NewGhosts(ds[v].dev))
                           ELSE ds[v]]
  BY <1>1 DEF NbnbTransferGpu
<1>4. ASSUME NEW v \in Vars
      PROVE  Fitting(b, v, ds'[v])
  <2>1. PICK d : d = ds[v]
    OBVIOUS
  <2>2. Fitting(a, v, d)
    BY <2>1 DEF Meets
  <2>3. ds'[v] = IF v \in op.reads THEN OnDevice(d, NewGhosts(d.dev)) ELSE d
    BY <1>3, <2>1
  <2>4. QED
    BY <1>2, <2>2, <2>3, ExchangeLeaves
<1>5. HeldMeets(b)'
  <2>1. /\ scratch \in [a.live -> Contents] /\ \A x \in a.live : Holding(a, x, scratch[x])
        /\ scratch' = [x \in a.live |-> IF x \in op.reads THEN NewGhosts(scratch[x])
                                       ELSE scratch[x]]
    BY <1>1 DEF Meets, NbnbTransferGpu
  <2>2. b.live = a.live
    BY <1>2 DEF ExchangePasses, SameBuffers
  <2>3. ASSUME NEW x \in a.live
        PROVE  Holding(b, x, scratch'[x])
    <3>1. PICK c \in Contents : c = scratch[x] /\ Holding(a, x, c)
      BY <2>1
    <3>2. scratch'[x] = IF x \in op.reads THEN NewGhosts(c) ELSE c
      BY <2>1, <3>1
    <3>3. /\ x \in b.fresh => x \in a.fresh \/ x \in op.reads
          /\ x \in b.written => x \in a.written
      BY <1>2 DEF ExchangePasses, SameBuffers
    <3>4. QED
      BY <3>1, <3>2, <3>3, Cells DEF Holding
  <2>4. scratch' \in [b.live -> Contents]
    BY <2>1, <2>2, Cells
  <2>5. QED
    BY <2>2, <2>3, <2>4 DEF HeldMeets
<1>6. spmv' = b.setup
  BY <1>2 DEF Meets, ExchangePasses, SameBuffers, NbnbTransferGpu
<1>7. ds' = [v \in Vars |-> ds'[v]]
  BY <1>3
<1>8. QED
  BY <1>2, <1>4, <1>5, <1>6, <1>7, MeetsWhen

\* an operation that leaves the buffers alone
LEMMA HeldStays ==
    ASSUME NEW a, Meets(a), NEW b, SameBuffers(a, b), b.fresh \intersect Buffers \subseteq a.fresh,
           UNCHANGED <<scratch, spmv>>
    PROVE  HeldMeets(b)' /\ spmv' = b.setup
<1>1. /\ scratch \in [a.live -> Contents] /\ \A x \in a.live : Holding(a, x, scratch[x])
      /\ scratch' = scratch /\ spmv' = spmv /\ spmv = a.setup
      /\ b.live = a.live /\ b.written \subseteq a.written /\ b.setup = a.setup
      /\ a.live \subseteq Buffers
  BY DEF Meets, SameBuffers, Sane, Knowledge
<1>2. \A x \in a.live : Holding(b, x, scratch[x])
  BY <1>1 DEF Holding
<1>3. QED
  BY <1>1, <1>2 DEF HeldMeets

LEMMA TransferMeets ==
    ASSUME NEW a, Meets(a), todo # <<>>, NEW b, Passes(a, Head1, b), Transfer
    PROVE  Meets(b)'
<1>1. PICK op : op = Head1
  OBVIOUS
<1>2. /\ op.kind \in {"transfer_to_gpu_noinit", "transfer_to_gpu_move", "transfer_to_cpu_move"}
      /\ Passes(a, op, b) /\ Sane(a) /\ Sane(b)
  BY <1>1 DEF Transfer, Is, Passes, Meets
<1>3. SameBuffers(a, b) /\ b.fresh \subseteq a.fresh
  BY <1>2 DEF Passes, NoInitPasses, ToGpuPasses, ToCpuPasses, ToCpuKinds
<1>4. ds' = [v \in Vars |-> Readied(v)] /\ UNCHANGED <<scratch, spmv>>
  BY DEF Transfer
<1>5. HeldMeets(b)' /\ spmv' = b.setup
  BY <1>3, <1>4, HeldStays
<1>6. ASSUME NEW v \in Vars
      PROVE  Fitting(b, v, ds'[v])
  <2>1. PICK d : d = ds[v]
    OBVIOUS
  <2>2. Fitting(a, v, d)
    BY <2>1 DEF Meets
  <2>3. PICK f : f = ds'[v]
    OBVIOUS
  <2>4. f = Readied(v)
    BY <1>4, <2>3
  <2>5. CASE op.kind = "transfer_to_cpu_move"
    <3>1. f = Returned(op, v, d)
      BY <1>1, <2>1, <2>4, <2>5, ReadiedIs
    <3>2. op.kind \in ToCpuKinds /\ 0 \in 0 .. 1 /\ op.kind # "host" /\ op.kind # "resize"
      BY <2>5 DEF ToCpuKinds
    <3>3. Fitting(b, v, f)
      BY <1>2, <2>2, <3>1, <3>2, HostLeaves
    <3>4. QED
      BY <2>3, <3>3
  <2>6. CASE op.kind # "transfer_to_cpu_move"
    <3>1. PICK mode : mode = IF op.kind = "transfer_to_gpu_move" THEN "MOVE"
                             ELSE "NOT_INITIALIZE"
      OBVIOUS
    <3>2. f = IF v \in op.writes THEN TransferToGpu(Setup(d), mode) ELSE d
      BY <1>1, <1>2, <2>1, <2>4, <2>6, <3>1, ReadiedIs
    <3>3. op.kind \in {"transfer_to_gpu_noinit", "transfer_to_gpu_move"}
      BY <1>2, <2>6
    <3>4. Fitting(b, v, f)
      BY <1>2, <2>2, <3>1, <3>2, <3>3, ToGpuLeaves
    <3>5. QED
      BY <2>3, <3>4
  <2>7. QED
    BY <2>5, <2>6
<1>7. ds' = [v \in Vars |-> ds'[v]]
  BY <1>4
<1>8. QED
  BY <1>2, <1>5, <1>6, <1>7, MeetsWhen

LEMMA HostCodeMeets ==
    ASSUME NEW a, Meets(a), todo # <<>>, NEW b, Passes(a, Head1, b), HostCode
    PROVE  Meets(b)'
<1>1. PICK op : op = Head1
  OBVIOUS
<1>2. op.kind \in {"host", "gather"} /\ Passes(a, op, b) /\ Sane(a) /\ Sane(b)
  BY <1>1 DEF HostCode, Is, Passes, Meets
<1>3. SameBuffers(a, b) /\ b.fresh \subseteq a.fresh
  BY <1>2 DEF Passes, GatherPasses, ToCpuPasses, ToCpuKinds
<1>4. /\ ds' = [v \in Vars |-> IF v \in op.writes /\ Readied(v).size > 0 THEN OnHost(Readied(v))
                              ELSE Readied(v)]
      /\ UNCHANGED <<scratch, spmv>>
  BY <1>1 DEF HostCode
<1>5. HeldMeets(b)' /\ spmv' = b.setup
  BY <1>3, <1>4, HeldStays
<1>6. ASSUME NEW v \in Vars
      PROVE  Fitting(b, v, ds'[v])
  <2>1. PICK d : d = ds[v]
    OBVIOUS
  <2>2. Fitting(a, v, d)
    BY <2>1 DEF Meets
  <2>3. PICK f : f = ds'[v]
    OBVIOUS
  <2>4. f = HostLeft(op, v, Readied(v))
    BY <1>4, <2>3 DEF HostLeft
  <2>5. CASE op.kind = "host"
    <3>1. f = HostLeft(op, v, Faulted(op, v, d))
      BY <1>1, <2>1, <2>4, <2>5, ReadiedIs
    <3>2. /\ op.kind \in ToCpuKinds /\ 0 \in 0 .. 1
          /\ op.kind # "transfer_to_cpu_move" /\ op.kind # "resize"
      BY <2>5 DEF ToCpuKinds
    <3>3. PICK n : n = 0
      OBVIOUS
    <3>4. /\ Sane(a) /\ Passes(a, op, b) /\ op.kind \in ToCpuKinds
          /\ v \in Vars /\ Fitting(a, v, d) /\ n \in 0 .. 1
          /\ op.kind = "transfer_to_cpu_move" => f = Returned(op, v, d)
          /\ op.kind = "host" => f = HostLeft(op, v, Faulted(op, v, d))
          /\ op.kind = "resize" => f = IF v \in op.writes THEN ResizeInternal(d, n, FALSE) ELSE d
      BY <1>2, <2>2, <2>5, <3>1, <3>2, <3>3
    <3>5. Fitting(b, v, f)
      BY ONLY <3>4, HostLeaves
    <3>6. QED
      BY <2>3, <3>5
  <2>6. CASE op.kind = "gather"
    <3>1. v \notin op.writes
      BY <1>2, <2>6 DEF Passes, GatherPasses
    <3>2. f = d
      BY <1>1, <2>1, <2>4, <2>6, <3>1, ReadiedIs DEF HostLeft
    <3>3. Fitting(b, v, d)
      BY <1>2, <2>2, <2>6, RestLeaves
    <3>4. QED
      BY <2>3, <3>2, <3>3
  <2>7. QED
    BY <1>2, <2>5, <2>6
<1>7. ds' = [v \in Vars |-> ds'[v]]
  BY <1>4
<1>8. QED
  BY <1>2, <1>5, <1>6, <1>7, MeetsWhen

LEMMA ResizeMeets ==
    ASSUME NEW a, Meets(a), todo # <<>>, NEW b, Passes(a, Head1, b), Resize
    PROVE  Meets(b)'
<1>1. PICK op : op = Head1
  OBVIOUS
<1>2. /\ op.kind = "resize" /\ op.kind \in ToCpuKinds /\ op.kind # "host"
      /\ op.kind # "transfer_to_cpu_move" /\ Passes(a, op, b) /\ Sane(a) /\ Sane(b)
  BY <1>1 DEF Resize, Is, Passes, Meets, ToCpuKinds
<1>3. SameBuffers(a, b) /\ b.fresh \subseteq a.fresh
  BY <1>2 DEF Passes, ToCpuPasses
<1>4. /\ ds' = [v \in Vars |-> IF v \in op.writes THEN ResizeInternal(ds[v], Entries(v), FALSE)
                              ELSE ds[v]]
      /\ UNCHANGED <<scratch, spmv>>
  BY <1>1 DEF Resize
<1>5. HeldMeets(b)' /\ spmv' = b.setup
  BY <1>3, <1>4, HeldStays
<1>6. ASSUME NEW v \in Vars
      PROVE  Fitting(b, v, ds'[v])
  <2>1. PICK d : d = ds[v]
    OBVIOUS
  <2>2. Fitting(a, v, d)
    BY <2>1 DEF Meets
  <2>3. PICK n \in 0 .. 1 : n = Entries(v)
    BY DEF Entries
  <2>4. PICK f : f = ds'[v]
    OBVIOUS
  <2>5. f = IF v \in op.writes THEN ResizeInternal(d, n, FALSE) ELSE d
    BY <1>4, <2>1, <2>3, <2>4
  <2>6. Fitting(b, v, f)
    BY <1>2, <2>2, <2>5, HostLeaves
  <2>7. QED
    BY <2>4, <2>6
<1>7. ds' = [v \in Vars |-> ds'[v]]
  BY <1>4
<1>8. QED
  BY <1>2, <1>5, <1>6, <1>7, MeetsWhen

\* what touches no data set
LEMMA BuffersMeet ==
    ASSUME NEW a, Meets(a), todo # <<>>, NEW b, Passes(a, Head1, b),
           Malloc \/ Free \/ InitSystem \/ ReleaseSystem
    PROVE  Meets(b)'
<1>1. PICK op : op = Head1
  OBVIOUS
<1>2. Passes(a, op, b) /\ Sane(a) /\ Sane(b)
  BY <1>1 DEF Passes, Meets
<1>3. op.kind \in {"malloc", "free", "init_system", "release_system"} /\ ds' = ds
  BY <1>1 DEF Malloc, Free, InitSystem, ReleaseSystem, Is
<1>4. ASSUME NEW v \in Vars
      PROVE  Fitting(b, v, ds'[v])
  <2>1. PICK d : d = ds[v]
    OBVIOUS
  <2>2. Fitting(a, v, d)
    BY <2>1 DEF Meets
  <2>3. Fitting(b, v, d)
    BY <1>2, <1>3, <2>2, RestLeaves
  <2>4. QED
    BY <1>3, <2>1, <2>3
<1>5. /\ scratch \in [a.live -> Contents] /\ \A x \in a.live : Holding(a, x, scratch[x])
      /\ spmv = a.setup
  BY DEF Meets
<1>6. HeldMeets(b)' /\ spmv' = b.setup
  <2>1. CASE Malloc
    <3>1. /\ scratch' = [x \in a.live \union op.writes |->
                            IF x \in op.writes THEN Garbage ELSE scratch[x]]
          /\ spmv' = spmv /\ MallocPasses(a, op, b)
      BY <1>1, <1>2, <1>5, <2>1 DEF Malloc, Is, Passes
    <3>2. ASSUME NEW x \in b.live
          PROVE  Holding(b, x, scratch'[x]) /\ scratch'[x] \in Contents
      <4>1. CASE x \in op.writes
        <5>1. scratch'[x] = Garbage
          BY <3>1, <4>1 DEF MallocPasses
        <5>2. x \notin b.fresh /\ x \notin b.written
          BY <1>2, <3>1, <4>1 DEF MallocPasses, Sane
        <5>3. QED
          BY <5>1, <5>2, ContentIs DEF Holding
      <4>2. CASE x \notin op.writes
        <5>1. x \in a.live /\ scratch'[x] = scratch[x]
          BY <3>1, <4>2 DEF MallocPasses
        <5>2. QED
          BY <1>5, <3>1, <5>1 DEF Holding, MallocPasses
      <4>3. QED
        BY <4>1, <4>2
    <3>3. b.live = a.live \union op.writes /\ b.setup = a.setup
      BY <3>1 DEF MallocPasses
    <3>4. QED
      BY <1>5, <3>1, <3>2, <3>3 DEF HeldMeets
  <2>2. CASE Free
    <3>1. /\ scratch' = [x \in a.live \ op.writes |-> scratch[x]]
          /\ spmv' = spmv /\ FreePasses(a, op, b)
      BY <1>1, <1>2, <1>5, <2>2 DEF Free, Freed, Is, Passes
    <3>2. ASSUME NEW x \in b.live
          PROVE  Holding(b, x, scratch'[x]) /\ scratch'[x] \in Contents
      <4>1. x \in a.live /\ scratch'[x] = scratch[x]
        BY <3>1 DEF FreePasses
      <4>2. QED
        BY <1>5, <3>1, <4>1 DEF Holding, FreePasses
    <3>3. b.live = a.live \ op.writes /\ b.setup = a.setup
      BY <3>1 DEF FreePasses
    <3>4. QED
      BY <1>5, <3>1, <3>2, <3>3 DEF HeldMeets
  <2>3. CASE InitSystem
    <3>1. /\ scratch' = [x \in a.live \union {"workspace"} |->
                            IF x = "workspace" THEN Blank ELSE scratch[x]]
          /\ spmv' = TRUE /\ InitPasses(a, op, b)
      BY <1>1, <1>2, <1>5, <2>3 DEF InitSystem, Is, Passes
    <3>2. ASSUME NEW x \in b.live
          PROVE  Holding(b, x, scratch'[x]) /\ scratch'[x] \in Contents
      <4>1. CASE x = "workspace"
        <5>1. scratch'[x] = Blank /\ x \notin b.fresh
          BY <3>1, <4>1 DEF InitPasses
        <5>2. QED
          BY <5>1, ContentIs DEF Holding
      <4>2. CASE x # "workspace"
        <5>1. x \in a.live /\ scratch'[x] = scratch[x]
          BY <3>1, <4>2 DEF InitPasses
        <5>2. QED
          BY <1>5, <3>1, <4>2, <5>1 DEF Holding, InitPasses
      <4>3. QED
        BY <4>1, <4>2
    <3>3. b.live = a.live \union {"workspace"} /\ b.setup = TRUE
      BY <1>2, <3>1 DEF InitPasses, Sane, Knowledge
    <3>4. QED
      BY <1>5, <3>1, <3>2, <3>3 DEF HeldMeets
  <2>4. CASE ReleaseSystem
    <3>1. /\ scratch' = IF spmv THEN [x \in a.live \ {"workspace"} |-> scratch[x]] ELSE scratch
          /\ spmv' = FALSE /\ ReleasePasses(a, op, b)
      BY <1>1, <1>2, <1>5, <2>4 DEF ReleaseSystem, Freed, Is, Passes
    <3>2. b.live = a.live \ {"workspace"} /\ b.setup = FALSE
      BY <1>2, <3>1 DEF ReleasePasses, Sane, Knowledge
    <3>3. ~spmv => a.live = a.live \ {"workspace"}
      BY <1>2, <1>5 DEF Sane
    <3>4. scratch' = [x \in b.live |-> scratch[x]]
      BY <1>5, <3>1, <3>2, <3>3
    <3>5. ASSUME NEW x \in b.live
          PROVE  Holding(b, x, scratch'[x]) /\ scratch'[x] \in Contents
      <4>1. x \in a.live /\ scratch'[x] = scratch[x]
        BY <3>2, <3>4
      <4>2. QED
        BY <1>5, <3>1, <4>1 DEF Holding, ReleasePasses
    <3>6. QED
      BY <3>1, <3>2, <3>4, <3>5 DEF HeldMeets
  <2>5. QED
    BY <2>1, <2>2, <2>3, <2>4
<1>7. ds' = [v \in Vars |-> ds'[v]]
  BY <1>3 DEF Meets
<1>8. QED
  BY <1>2, <1>4, <1>6, <1>7, MeetsWhen

Operate ==
    \/ SubmitToGpu \/ UsePointers \/ Compute \/ NbnbTransferGpu \/ Transfer
    \/ HostCode \/ Resize \/ Malloc \/ Free \/ InitSystem \/ ReleaseSystem

LEMMA OperationMeets ==
    ASSUME NEW a, Meets(a), todo # <<>>, NEW b, Passes(a, Head1, b), Operate
    PROVE  Meets(b)'
<1>1. CASE SubmitToGpu \/ UsePointers \/ Compute
  <2>1. PICK kinds \in SUBSET DeviceKinds : DeviceCode(kinds) /\ UNCHANGED spmv
    BY <1>1 DEF SubmitToGpu, UsePointers, Compute, DeviceKinds
  <2>2. QED
    BY <2>1, DeviceCodeMeets
<1>2. QED
  BY <1>1, ExchangeMeets, TransferMeets, HostCodeMeets, ResizeMeets, BuffersMeet DEF Operate

-----------------------------------------------------------------------------
(* Induction up to a number, FlattenSeq and concatenation.                 *)

\* what holds of 0 and passes from each number to the next holds up to n
LEMMA UpTo ==
    ASSUME NEW n \in Nat, NEW T, 0 \in T, \A k \in 0 .. n - 1 : k \in T => k + 1 \in T
    PROVE  0 .. n \subseteq T
<1> DEFINE Bad == (0 .. n) \ T
<1>1. SUFFICES ASSUME Bad # {} PROVE FALSE
  OBVIOUS
<1>2. Bad \subseteq Nat
  OBVIOUS
<1>3. PICK k \in Bad : \A j \in Bad : ~(<<j, k>> \in OpToRel(<, Nat))
  <2> HIDE DEF Bad
  <2>1. QED
    BY <1>1, <1>2, WFMin, NatLessThanWellFounded
<1>4. k \in 0 .. n /\ k \notin T /\ k # 0
  BY <1>3
<1>5. k - 1 \in 0 .. n - 1 /\ (k - 1) + 1 = k /\ k - 1 \in Nat
  BY <1>4
<1>6. <<k - 1, k>> \in OpToRel(<, Nat)
  BY <1>4, <1>5 DEF OpToRel
<1>7. k - 1 \in T
  <2>1. k - 1 \notin Bad
    BY <1>3, <1>6
  <2>2. k - 1 \in 0 .. n
    BY <1>5
  <2>3. QED
    BY <2>1, <2>2
<1>8. QED
  BY <1>4, <1>5, <1>7

\* the recursion of FlattenSeq: g[i] is the first i sequences, one behind the other
Flat(g, s, n) == g = [i \in 1 .. n |-> IF i = 1 THEN s[i] ELSE g[i - 1] \o s[i]]

LEMMA FlatExists ==
    ASSUME NEW n \in Nat, NEW s
    PROVE  \E g : Flat(g, s, n)
<1> DEFINE T == {m \in 0 .. n : \E g : Flat(g, s, m)}
<1>1. 0 \in T
  <2>1. Flat(<<>>, s, 0)
    BY DEF Flat
  <2>2. QED
    BY <2>1
<1>2. ASSUME NEW m \in 0 .. n - 1, m \in T
      PROVE  m + 1 \in T
  <2>1. PICK g : Flat(g, s, m)
    BY <1>2
  <2> DEFINE h == [i \in 1 .. m + 1 |-> IF i = 1 THEN s[i] ELSE g[i - 1] \o s[i]]
  <2>2. ASSUME NEW i \in 1 .. m
        PROVE  h[i] = g[i]
    <3>1. g[i] = IF i = 1 THEN s[i] ELSE g[i - 1] \o s[i]
      BY <2>1 DEF Flat
    <3>2. i \in 1 .. m + 1
      BY <2>2
    <3>3. QED
      BY <3>1, <3>2
  <2>3. \A i \in 1 .. m + 1 : i # 1 => i - 1 \in 1 .. m
    OBVIOUS
  <2>4. \A i \in 1 .. m + 1 : i # 1 => h[i - 1] = g[i - 1]
    BY <2>2, <2>3
  <2>5. Flat(h, s, m + 1)
    BY <2>4 DEF Flat
  <2>6. QED
    BY <2>5
<1>3. n \in T
  <2> HIDE DEF T
  <2>1. QED
    BY <1>1, <1>2, UpTo
<1>4. QED
  BY <1>3

\* FlattenSeq is what its recursion ends in, and the recursion goes from one sequence
\* to the next
LEMMA FlattenIs ==
    ASSUME NEW n \in Nat \ {0}, NEW s, Len(s) = n
    PROVE  \E g : Flat(g, s, n) /\ FlattenSeq(s) = g[n]
<1>1. FlattenSeq(s) = (CHOOSE g : Flat(g, s, n))[n]
  BY DEF FlattenSeq, Flat
<1>2. Flat((CHOOSE g : Flat(g, s, n)), s, n)
  BY FlatExists
<1>3. QED
  BY <1>1, <1>2

LEMMA FlatSteps ==
    ASSUME NEW n \in Nat \ {0}, NEW s, NEW g, Flat(g, s, n)
    PROVE  g[1] = s[1] /\ \A m \in 1 .. n - 1 : g[m + 1] = g[m] \o s[m + 1]
<1>1. ASSUME NEW m \in 1 .. n - 1
      PROVE  g[m + 1] = g[m] \o s[m + 1]
  <2>1. m + 1 \in 1 .. n /\ m + 1 # 1 /\ (m + 1) - 1 = m
    OBVIOUS
  <2>2. PICK i : i = m + 1
    OBVIOUS
  <2>3. g[i] = g[i - 1] \o s[i]
    BY <2>1, <2>2 DEF Flat
  <2>4. QED
    BY <2>1, <2>2, <2>3
<1>2. g[1] = s[1]
  <2>1. 1 \in 1 .. n
    OBVIOUS
  <2>2. QED
    BY <2>1 DEF Flat
<1>3. QED
  BY <1>1, <1>2

LEMMA ConcatAt ==
    ASSUME NEW S, NEW s \in Seq(S), NEW t \in Seq(S)
    PROVE  /\ s \o t \in Seq(S) /\ Len(s \o t) = Len(s) + Len(t)
           /\ \A i \in 1 .. Len(s) : (s \o t)[i] = s[i]
           /\ \A j \in 1 .. Len(t) : (s \o t)[Len(s) + j] = t[j]
OBVIOUS

-----------------------------------------------------------------------------
(* Programs.                                                               *)

LEMMA RunsNothing == \A a : Runs(<<>>, a, a)
<1>1. ASSUME NEW a
      PROVE  Runs(<<>>, a, a)
  <2> DEFINE M == <<a>>
  <2>1. M[1] = a /\ M[Len(<<>>) + 1] = a
    OBVIOUS
  <2>2. QED
    BY <2>1 DEF Runs
<1>2. QED
  BY <1>1

LEMMA RunsEnds ==
    ASSUME NEW a, NEW b, Runs(<<>>, a, b)
    PROVE  a = b
BY DEF Runs

LEMMA RunsHead ==
    ASSUME NEW p, NEW a, NEW b, Runs(p, a, b), p # <<>>
    PROVE  /\ Head(p) \in Operation /\ Tail(p) \in Seq(Operation)
           /\ \E c : Passes(a, Head(p), c) /\ Runs(Tail(p), c, b)
<1>1. p \in Seq(Operation) /\ Len(p) \in Nat /\ Len(p) > 0
  BY DEF Runs
<1>2. PICK M : /\ M[1] = a /\ M[Len(p) + 1] = b
               /\ \A k \in 1 .. Len(p) : Passes(M[k], p[k], M[k + 1])
  BY DEF Runs
<1>3. /\ Head(p) = p[1] /\ Tail(p) \in Seq(Operation) /\ Len(Tail(p)) = Len(p) - 1
      /\ Head(p) \in Operation
      /\ \A k \in 1 .. Len(p) - 1 : Tail(p)[k] = p[k + 1]
  BY <1>1
<1>4. Passes(a, Head(p), M[2])
  <2>1. 1 \in 1 .. Len(p)
    BY <1>1
  <2>2. Passes(M[1], p[1], M[1 + 1])
    BY <1>2, <2>1
  <2>3. QED
    BY <1>2, <1>3, <2>2
<1>5. PICK q, n : q = Tail(p) /\ n = Len(p) - 1
  OBVIOUS
<1>6. q \in Seq(Operation) /\ Len(q) = n /\ n \in Nat /\ n + 1 = Len(p)
  BY <1>1, <1>3, <1>5
<1> DEFINE N == [k \in 1 .. n + 1 |-> M[k + 1]]
<1>7. N[1] = M[2] /\ N[n + 1] = b
  BY <1>2, <1>6
<1>8. ASSUME NEW k \in 1 .. n
      PROVE  Passes(N[k], q[k], N[k + 1])
  <2>1. k + 1 \in 1 .. Len(p) /\ k \in 1 .. n + 1 /\ k + 1 \in 1 .. n + 1
    BY <1>6
  <2>2. PICK i : i = k + 1
    OBVIOUS
  <2>3. N[k] = M[i] /\ N[i] = M[i + 1] /\ q[k] = p[i]
    BY <1>3, <1>5, <2>1, <2>2
  <2>4. Passes(M[i], p[i], M[i + 1])
    BY <1>2, <2>1, <2>2
  <2>5. QED
    BY <2>2, <2>3, <2>4
<1>9. Runs(q, M[2], b)
  <2> HIDE DEF N
  <2>1. QED
    BY <1>6, <1>7, <1>8 DEF Runs
<1>10. QED
  BY <1>3, <1>4, <1>5, <1>9

LEMMA RunsOn ==
    ASSUME NEW p, NEW q, NEW a, NEW b, NEW c, Runs(p, a, b), Runs(q, b, c)
    PROVE  Runs(p \o q, a, c)
<1>1. p \in Seq(Operation) /\ q \in Seq(Operation)
  BY DEF Runs
<1>2. PICK m \in Nat, n \in Nat : m = Len(p) /\ n = Len(q)
  BY <1>1
<1>3. PICK M : /\ M[1] = a /\ M[m + 1] = b
               /\ \A k \in 1 .. m : Passes(M[k], p[k], M[k + 1])
  BY <1>2 DEF Runs
<1>4. PICK N : /\ N[1] = b /\ N[n + 1] = c
               /\ \A k \in 1 .. n : Passes(N[k], q[k], N[k + 1])
  BY <1>2 DEF Runs
<1>5. PICK s : s = p \o q
  OBVIOUS
<1>6. /\ s \in Seq(Operation) /\ Len(s) = m + n
      /\ \A i \in 1 .. m : s[i] = p[i]
      /\ \A j \in 1 .. n : s[m + j] = q[j]
  BY <1>1, <1>2, <1>5, ConcatAt
<1> DEFINE L == [k \in 1 .. m + n + 1 |-> IF k <= m THEN M[k] ELSE N[k - m]]
<1>7. L[1] = a /\ L[m + n + 1] = c
  <2>1. CASE m = 0
    BY <1>3, <1>4, <2>1
  <2>2. CASE m > 0
    <3>1. 1 \in 1 .. m + n + 1 /\ m + n + 1 \in 1 .. m + n + 1 /\ ~(m + n + 1 <= m)
          /\ (m + n + 1) - m = n + 1 /\ 1 <= m
      BY <2>2
    <3>2. QED
      BY <1>3, <1>4, <3>1
  <2>3. QED
    BY <2>1, <2>2
<1>8. ASSUME NEW k \in 1 .. m + n
      PROVE  Passes(L[k], s[k], L[k + 1])
  <2>1. k \in 1 .. m + n + 1 /\ k + 1 \in 1 .. m + n + 1 /\ k \in Nat
    OBVIOUS
  <2>2. CASE k < m
    <3>1. L[k] = M[k] /\ L[k + 1] = M[k + 1] /\ s[k] = p[k] /\ k \in 1 .. m
      BY <1>6, <2>1, <2>2
    <3>2. QED
      BY <1>3, <3>1
  <2>3. CASE k = m
    <3>1. k \in 1 .. m /\ L[k] = M[k] /\ s[k] = p[k]
      BY <1>6, <2>1, <2>3
    <3>2. ~(k + 1 <= m) /\ (k + 1) - m = 1
      BY <2>1, <2>3
    <3>3. L[k + 1] = b
      BY <1>4, <2>1, <3>2
    <3>4. Passes(M[k], p[k], M[k + 1]) /\ M[k + 1] = b
      BY <1>3, <2>3, <3>1
    <3>5. QED
      BY <3>1, <3>3, <3>4
  <2>4. CASE k > m
    <3>1. PICK j \in 1 .. n : j = k - m
      BY <2>1, <2>4
    <3>2. s[m + j] = q[j] /\ m + j = k
      BY <1>6, <2>1, <3>1
    <3>3. ~(k <= m) /\ ~(k + 1 <= m) /\ (k + 1) - m = j + 1 /\ k - m = j
      BY <2>1, <2>4, <3>1
    <3>4. L[k] = N[j] /\ L[k + 1] = N[j + 1] /\ s[k] = q[j]
      BY <2>1, <3>2, <3>3
    <3>5. QED
      BY <1>4, <3>4
  <2>5. QED
    BY <2>1, <2>2, <2>3, <2>4
<1>9. Runs(s, a, c)
  <2> HIDE DEF L
  <2>1. QED
    BY <1>6, <1>7, <1>8 DEF Runs
<1>10. QED
  BY <1>5, <1>9

\* a program that ends with what it began with can be repeated
LEMMA RunsRepeat ==
    ASSUME NEW n \in Nat, NEW p, NEW a, Runs(p, a, a)
    PROVE  Runs(FlattenSeq([i \in 1 .. n |-> p]), a, a)
<1>1. PICK s : s = [i \in 1 .. n |-> p]
  OBVIOUS
<1>2. Len(s) = n /\ \A i \in 1 .. n : s[i] = p
  BY <1>1
<1>3. CASE n = 0
  <2>1. FlattenSeq(s) = s
    BY <1>2, <1>3 DEF FlattenSeq
  <2>2. s = <<>>
    BY <1>1, <1>3
  <2>3. QED
    BY <1>1, <2>1, <2>2, RunsNothing
<1>4. CASE n # 0
  <2>1. PICK g : Flat(g, s, n) /\ FlattenSeq(s) = g[n]
    BY <1>2, <1>4, FlattenIs
  <2>2. g[1] = s[1] /\ \A m \in 1 .. n - 1 : g[m + 1] = g[m] \o s[m + 1]
    <3>1. n \in Nat \ {0} /\ Flat(g, s, n)
      BY <1>4, <2>1
    <3>2. QED
      BY ONLY <3>1, FlatSteps
  <2>3. PICK l \in Nat : l = n - 1
    BY <1>4
  <2> DEFINE T == {m \in 0 .. l : Runs(g[m + 1], a, a)}
  <2>4. 0 \in T
    BY <1>2, <1>4, <2>2
  <2>5. ASSUME NEW m \in 0 .. l - 1, m \in T
        PROVE  m + 1 \in T
    <3>1. PICK i : i = m + 1
      OBVIOUS
    <3>2. i \in 1 .. n - 1 /\ i + 1 \in 1 .. n /\ i \in 0 .. l
      BY <2>3, <3>1
    <3>3. g[i + 1] = g[i] \o p
      BY <1>2, <2>2, <3>2
    <3>4. Runs(g[i], a, a)
      BY <2>5, <3>1
    <3>5. Runs(g[i + 1], a, a)
      BY <3>3, <3>4, RunsOn
    <3>6. QED
      BY <3>1, <3>2, <3>5
  <2>6. l \in T
    <3> HIDE DEF T
    <3>1. QED
      BY <2>4, <2>5, UpTo
  <2>7. QED
    BY <1>1, <2>1, <2>3, <2>6
<1>5. QED
  BY <1>3, <1>4

-----------------------------------------------------------------------------
(* What is known along the functions of the solver.                        *)

LEMMA PassesOp == \A a, op, b : Passes(a, op, b) => op \in Operation
BY DEF Passes

LEMMA OneRun ==
    ASSUME NEW a, NEW b, NEW o1,
           Passes(a, o1, b)
    PROVE  Runs(<<o1>>, a, b)
<1>1. PICK p, M : p = <<o1>> /\ M = <<a, b>>
  OBVIOUS
<1>2. o1 \in Operation
  BY PassesOp
<1>3. p \in Seq(Operation) /\ Len(p) = 1
  BY <1>1, <1>2
<1>4. M[1] = a /\ M[2] = b /\ p[1] = o1
  BY <1>1
<1>5. \A k \in 1 .. 1 : Passes(M[k], p[k], M[k + 1])
  <2>1. Passes(M[1], p[1], M[1 + 1])
    BY <1>4
  <2>2. QED
    BY <2>1
<1>6. QED
  BY <1>1, <1>3, <1>4, <1>5 DEF Runs

LEMMA TwoRun ==
    ASSUME NEW a, NEW b, NEW c, NEW o1, NEW o2,
           Passes(a, o1, b), Passes(b, o2, c)
    PROVE  Runs(<<o1, o2>>, a, c)
<1>1. PICK p, M : p = <<o1, o2>> /\ M = <<a, b, c>>
  OBVIOUS
<1>2. o1 \in Operation /\ o2 \in Operation
  BY PassesOp
<1>3. p \in Seq(Operation) /\ Len(p) = 2
  BY <1>1, <1>2
<1>4. M[1] = a /\ M[2] = b /\ M[3] = c /\ p[1] = o1 /\ p[2] = o2
  BY <1>1
<1>5. \A k \in 1 .. 2 : Passes(M[k], p[k], M[k + 1])
  <2>1. /\ Passes(M[1], p[1], M[1 + 1]) /\ Passes(M[2], p[2], M[2 + 1])
    BY <1>4
  <2>2. QED
    BY <2>1
<1>6. QED
  BY <1>1, <1>3, <1>4, <1>5 DEF Runs

LEMMA ThreeRun ==
    ASSUME NEW a, NEW b, NEW c, NEW d, NEW o1, NEW o2, NEW o3,
           Passes(a, o1, b), Passes(b, o2, c), Passes(c, o3, d)
    PROVE  Runs(<<o1, o2, o3>>, a, d)
<1>1. PICK p, M : p = <<o1, o2, o3>> /\ M = <<a, b, c, d>>
  OBVIOUS
<1>2. o1 \in Operation /\ o2 \in Operation /\ o3 \in Operation
  BY PassesOp
<1>3. p \in Seq(Operation) /\ Len(p) = 3
  BY <1>1, <1>2
<1>4. M[1] = a /\ M[2] = b /\ M[3] = c /\ M[4] = d /\ p[1] = o1 /\ p[2] = o2 /\ p[3] = o3
  BY <1>1
<1>5. \A k \in 1 .. 3 : Passes(M[k], p[k], M[k + 1])
  <2>1. /\ Passes(M[1], p[1], M[1 + 1]) /\ Passes(M[2], p[2], M[2 + 1])
        /\ Passes(M[3], p[3], M[3 + 1])
    BY <1>4
  <2>2. QED
    BY <2>1
<1>6. QED
  BY <1>1, <1>3, <1>4, <1>5 DEF Runs

LEMMA FourRun ==
    ASSUME NEW a, NEW b, NEW c, NEW d, NEW e, NEW o1, NEW o2, NEW o3, NEW o4,
           Passes(a, o1, b), Passes(b, o2, c), Passes(c, o3, d), Passes(d, o4, e)
    PROVE  Runs(<<o1, o2, o3, o4>>, a, e)
<1>1. PICK p, M : p = <<o1, o2, o3, o4>> /\ M = <<a, b, c, d, e>>
  OBVIOUS
<1>2. o1 \in Operation /\ o2 \in Operation /\ o3 \in Operation /\ o4 \in Operation
  BY PassesOp
<1>3. p \in Seq(Operation) /\ Len(p) = 4
  BY <1>1, <1>2
<1>4. /\ M[1] = a /\ M[2] = b /\ M[3] = c /\ M[4] = d
      /\ M[5] = e /\ p[1] = o1 /\ p[2] = o2 /\ p[3] = o3
      /\ p[4] = o4
  BY <1>1
<1>5. \A k \in 1 .. 4 : Passes(M[k], p[k], M[k + 1])
  <2>1. /\ Passes(M[1], p[1], M[1 + 1]) /\ Passes(M[2], p[2], M[2 + 1])
        /\ Passes(M[3], p[3], M[3 + 1]) /\ Passes(M[4], p[4], M[4 + 1])
    BY <1>4
  <2>2. QED
    BY <2>1
<1>6. QED
  BY <1>1, <1>3, <1>4, <1>5 DEF Runs

LEMMA FiveRun ==
    ASSUME NEW a, NEW b, NEW c, NEW d, NEW e, NEW f, NEW o1, NEW o2, NEW o3, NEW o4, NEW o5,
           Passes(a, o1, b), Passes(b, o2, c), Passes(c, o3, d), Passes(d, o4, e),
           Passes(e, o5, f)
    PROVE  Runs(<<o1, o2, o3, o4, o5>>, a, f)
<1>1. PICK p, M : p = <<o1, o2, o3, o4, o5>> /\ M = <<a, b, c, d, e, f>>
  OBVIOUS
<1>2. /\ o1 \in Operation /\ o2 \in Operation /\ o3 \in Operation /\ o4 \in Operation
      /\ o5 \in Operation
  BY PassesOp
<1>3. p \in Seq(Operation) /\ Len(p) = 5
  BY <1>1, <1>2
<1>4. /\ M[1] = a /\ M[2] = b /\ M[3] = c /\ M[4] = d
      /\ M[5] = e /\ M[6] = f /\ p[1] = o1 /\ p[2] = o2
      /\ p[3] = o3 /\ p[4] = o4 /\ p[5] = o5
  BY <1>1
<1>5. \A k \in 1 .. 5 : Passes(M[k], p[k], M[k + 1])
  <2>1. /\ Passes(M[1], p[1], M[1 + 1]) /\ Passes(M[2], p[2], M[2 + 1])
        /\ Passes(M[3], p[3], M[3 + 1]) /\ Passes(M[4], p[4], M[4 + 1])
        /\ Passes(M[5], p[5], M[5 + 1])
    BY <1>4
  <2>2. QED
    BY <2>1
<1>6. QED
  BY <1>1, <1>3, <1>4, <1>5 DEF Runs

LEMMA SixRun ==
    ASSUME NEW a, NEW b, NEW c, NEW d, NEW e, NEW f, NEW g, NEW o1, NEW o2, NEW o3, NEW o4,
           NEW o5, NEW o6,
           Passes(a, o1, b), Passes(b, o2, c), Passes(c, o3, d), Passes(d, o4, e),
           Passes(e, o5, f), Passes(f, o6, g)
    PROVE  Runs(<<o1, o2, o3, o4, o5, o6>>, a, g)
<1>1. PICK p, M : p = <<o1, o2, o3, o4, o5, o6>> /\ M = <<a, b, c, d, e, f, g>>
  OBVIOUS
<1>2. /\ o1 \in Operation /\ o2 \in Operation /\ o3 \in Operation /\ o4 \in Operation
      /\ o5 \in Operation /\ o6 \in Operation
  BY PassesOp
<1>3. p \in Seq(Operation) /\ Len(p) = 6
  BY <1>1, <1>2
<1>4. /\ M[1] = a /\ M[2] = b /\ M[3] = c /\ M[4] = d
      /\ M[5] = e /\ M[6] = f /\ M[7] = g /\ p[1] = o1
      /\ p[2] = o2 /\ p[3] = o3 /\ p[4] = o4 /\ p[5] = o5
      /\ p[6] = o6
  BY <1>1
<1>5. \A k \in 1 .. 6 : Passes(M[k], p[k], M[k + 1])
  <2>1. /\ Passes(M[1], p[1], M[1 + 1]) /\ Passes(M[2], p[2], M[2 + 1])
        /\ Passes(M[3], p[3], M[3 + 1]) /\ Passes(M[4], p[4], M[4 + 1])
        /\ Passes(M[5], p[5], M[5 + 1]) /\ Passes(M[6], p[6], M[6 + 1])
    BY <1>4
  <2>2. QED
    BY <2>1
<1>6. QED
  BY <1>1, <1>3, <1>4, <1>5 DEF Runs

LEMMA TenRun ==
    ASSUME NEW a, NEW b, NEW c, NEW d, NEW e, NEW f, NEW g, NEW h, NEW i, NEW j, NEW l, NEW o1,
           NEW o2, NEW o3, NEW o4, NEW o5, NEW o6, NEW o7, NEW o8, NEW o9, NEW o10,
           Passes(a, o1, b), Passes(b, o2, c), Passes(c, o3, d), Passes(d, o4, e),
           Passes(e, o5, f), Passes(f, o6, g), Passes(g, o7, h), Passes(h, o8, i),
           Passes(i, o9, j), Passes(j, o10, l)
    PROVE  Runs(<<o1, o2, o3, o4, o5, o6, o7, o8, o9, o10>>, a, l)
<1>1. PICK p, M : p = <<o1, o2, o3, o4, o5, o6, o7, o8, o9, o10>> /\ M = <<a, b, c, d, e, f, g, h,
              i, j, l>>
  OBVIOUS
<1>2. /\ o1 \in Operation /\ o2 \in Operation /\ o3 \in Operation /\ o4 \in Operation
      /\ o5 \in Operation /\ o6 \in Operation /\ o7 \in Operation /\ o8 \in Operation
      /\ o9 \in Operation /\ o10 \in Operation
  BY PassesOp
<1>3. p \in Seq(Operation) /\ Len(p) = 10
  BY <1>1, <1>2
<1>4. /\ M[1] = a /\ M[2] = b /\ M[3] = c /\ M[4] = d
      /\ M[5] = e /\ M[6] = f /\ M[7] = g /\ M[8] = h
      /\ M[9] = i /\ M[10] = j /\ M[11] = l /\ p[1] = o1
      /\ p[2] = o2 /\ p[3] = o3 /\ p[4] = o4 /\ p[5] = o5
      /\ p[6] = o6 /\ p[7] = o7 /\ p[8] = o8 /\ p[9] = o9
      /\ p[10] = o10
  BY <1>1
<1>5. \A k \in 1 .. 10 : Passes(M[k], p[k], M[k + 1])
  <2>1. /\ Passes(M[1], p[1], M[1 + 1]) /\ Passes(M[2], p[2], M[2 + 1])
        /\ Passes(M[3], p[3], M[3 + 1]) /\ Passes(M[4], p[4], M[4 + 1])
        /\ Passes(M[5], p[5], M[5 + 1]) /\ Passes(M[6], p[6], M[6 + 1])
        /\ Passes(M[7], p[7], M[7 + 1]) /\ Passes(M[8], p[8], M[8 + 1])
        /\ Passes(M[9], p[9], M[9 + 1]) /\ Passes(M[10], p[10], M[10 + 1])
    BY <1>4
  <2>2. QED
    BY <2>1
<1>6. QED
  BY <1>1, <1>3, <1>4, <1>5 DEF Runs

USE DEF DevicePasses, ExchangePasses, InitPasses, NoInitPasses, ToGpuPasses,
        ToCpuPasses, GatherPasses, MallocPasses, FreePasses, ReleasePasses,
        DeviceKinds, ToCpuKinds, Readable, Pointed, Touched, SameData, SameBuffers,
        Sane, Knowledge, Names, Workspace, Kinds,
        Kernel, Raw, L1Norm, Exchange, Host, Gather, About, Dot,
        Vars, MeshVars, MatrixVars, SolverVars, Buffers, Vectors, Scalars

LEMMA SetupMatrixStructRuns ==
    ASSUME options.implicit_solver
    PROVE  Runs(SetupMatrixStruct, Bare, Bare)
<1>1. Passes(Bare, About("resize", {"ia"}), Bare)
  BY DEF Passes, Operation, Op, Known, Bare
<1>2. Passes(Bare, Host({"number_of_neighbors", "ia"}, {"ia"}), Bare)
  BY DEF Passes, Operation, Op, Known, Bare
<1>3. Passes(Bare, About("resize", {"ja"}), Bare)
  BY DEF Passes, Operation, Op, Known, Bare
<1>4. Passes(Bare, About("resize", {"A_data"}), Bare)
  BY DEF Passes, Operation, Op, Known, Bare
<1>5. Passes(Bare, Host({"ia", "number_of_neighbors", "cell_neighbors"}, {"ja"}), Bare)
  BY DEF Passes, Operation, Op, Known, Bare
<1>6. Passes(Bare,
             Host({"ia", "ja", "number_of_neighbors", "cell_neighbors"},
                    {"csr_diag_idx", "csr_idx"}),
             Bare)
  BY DEF Passes, Operation, Op, Known, Bare
<1>7. QED
  BY <1>1, <1>2, <1>3, <1>4, <1>5, <1>6, SixRun DEF SetupMatrixStruct

LEMMA OneSideRuns ==
    Runs(<<Host({"boundary_type_start_and_end_index"}, {}), Kernel({}, {}, {"Q_boundary"})>>,
         Bare, Bare)
<1>1. Passes(Bare, Host({"boundary_type_start_and_end_index"}, {}), Bare)
  BY DEF Passes, Operation, Op, Known, Bare
<1>2. Passes(Bare, Kernel({}, {}, {"Q_boundary"}), Bare)
  BY DEF Passes, Operation, Op, Known, Bare
<1>3. QED
  BY <1>1, <1>2, TwoRun

\* the solution has been sent round; or corrected and not yet sent; or used for the
\* residual
Sent(setup) == Known({"Q_cell"}, {}, {"Q_cell"}, Workspace(setup), {}, {}, setup)
Corrected(setup) == Known({"Q_cell"}, {}, {}, Workspace(setup), {}, {}, setup)
Diffused(setup) == Known({"residual"}, {}, {}, Workspace(setup), {}, {}, setup)

LEMMA ExchangeRuns ==
    ASSUME NEW setup \in BOOLEAN
    PROVE  Runs(<<Exchange("Q_cell")>>, Corrected(setup), Sent(setup))
<1>1. Passes(Corrected(setup), Exchange("Q_cell"), Sent(setup))
  BY DEF Passes, Operation, Op, Known, Corrected, Sent
<1>2. QED
  BY <1>1, OneRun

LEMMA InitializeSolutionRuns == Runs(InitializeSolution, Bare, Sent(FALSE))
<1>1. Passes(Bare, Kernel({}, {}, {"Q_cell"}), Corrected(FALSE))
  BY DEF Passes, Operation, Op, Known, Bare, Corrected, Sent
<1>2. Passes(Corrected(FALSE), Exchange("Q_cell"), Sent(FALSE))
  BY DEF Passes, Operation, Op, Known, Bare, Corrected, Sent
<1>3. QED
  BY <1>1, <1>2, TwoRun DEF InitializeSolution

\* the solution is sent round, and buffers are in use
Beside(live, written) == Known({"Q_cell"}, {}, {"Q_cell"}, live, written, {}, FALSE)

LEMMA ComputeTimeStepRuns == Runs(ComputeTimeStep, Sent(FALSE), Sent(FALSE))
<1>1. Passes(Sent(FALSE), About("malloc", {"data"}), Beside({"data"}, {}))
  BY DEF Passes, Operation, Op, Known, Beside, Sent
<1>2. Passes(Beside({"data"}, {}), Raw({}, {"data"}), Beside({"data"}, {"data"}))
  BY DEF Passes, Operation, Op, Known, Beside, Sent
<1>3. Passes(Beside({"data"}, {"data"}),
             Kernel({"number_of_neighbors", "area", "data"}, {}, {"data"}),
             Beside({"data"}, {"data"}))
  BY DEF Passes, Operation, Op, Known, Beside, Sent
<1>4. Passes(Beside({"data"}, {"data"}),
             Kernel({"boundary_face_to_cell", "boundary_area", "data"}, {}, {"data"}),
             Beside({"data"}, {"data"}))
  BY DEF Passes, Operation, Op, Known, Beside, Sent
<1>5. Passes(Beside({"data"}, {"data"}), About("malloc", {"min_value"}),
             Beside({"data", "min_value"}, {"data"}))
  BY DEF Passes, Operation, Op, Known, Beside, Sent
<1>6. Passes(Beside({"data", "min_value"}, {"data"}), Raw({}, {"min_value"}),
             Beside({"data", "min_value"}, {"data", "min_value"}))
  BY DEF Passes, Operation, Op, Known, Beside, Sent
<1>7. Passes(Beside({"data", "min_value"}, {"data", "min_value"}),
             Kernel({"volume", "data", "min_value"}, {}, {"data", "min_value"}),
             Beside({"data", "min_value"}, {"data", "min_value"}))
  BY DEF Passes, Operation, Op, Known, Beside, Sent
<1>8. Passes(Beside({"data", "min_value"}, {"data", "min_value"}),
             Raw({"min_value"}, {"min_value"}),
             Beside({"data", "min_value"}, {"data", "min_value"}))
  BY DEF Passes, Operation, Op, Known, Beside, Sent
<1>9. Passes(Beside({"data", "min_value"}, {"data", "min_value"}), About("free", {"data"}),
             Beside({"min_value"}, {"min_value"}))
  BY DEF Passes, Operation, Op, Known, Beside, Sent
<1>10. Passes(Beside({"min_value"}, {"min_value"}), About("free", {"min_value"}), Sent(FALSE))
  BY DEF Passes, Operation, Op, Known, Beside, Sent
<1>11. QED
  <2> HIDE DEF Kernel, Raw, About, Dot
  <2>1. QED
    BY <1>1, <1>2, <1>3, <1>4, <1>5, <1>6, <1>7, <1>8, <1>9, <1>10, TenRun DEF ComputeTimeStep

LEMMA ComputeRdistRuns == Runs(ComputeRdist, Sent(FALSE), Sent(FALSE))
<1>1. Passes(Sent(FALSE),
             Kernel({"number_of_neighbors", "cell_neighbors", "normal", "xcen", "area"}, {},
                    {"rdista"}),
             Sent(FALSE))
  BY DEF Passes, Operation, Op, Known, Sent
<1>2. Passes(Sent(FALSE),
             Kernel({"boundary_face_to_cell", "boundary_area", "boundary_normal", "boundary_xcen",
                    "xcen"}, {}, {"boundary_rdista"}),
             Sent(FALSE))
  BY DEF Passes, Operation, Op, Known, Sent
<1>3. QED
  BY <1>1, <1>2, TwoRun DEF ComputeRdist

\* the matrix is on the device, not initialised
Unset == Known({"Q_cell", "A_data"}, {"A_data"}, {"Q_cell"}, {}, {}, {}, FALSE)

LEMMA ComputeSystemRuns ==
    ASSUME options.implicit_solver
    PROVE  Runs(ComputeSystem, Sent(FALSE), Sent(FALSE))
<1>1. Passes(Sent(FALSE), About("transfer_to_gpu_noinit", {"A_data"}), Unset)
  BY DEF Passes, Operation, Op, Known, Sent, Unset
<1>2. Passes(Unset, Raw({}, {"A_data"}), Sent(FALSE))
  BY DEF Passes, Operation, Op, Known, Sent, Unset
<1>3. Passes(Sent(FALSE), Kernel({"csr_diag_idx", "volume", "A_data"}, {}, {"A_data"}),
             Sent(FALSE))
  BY DEF Passes, Operation, Op, Known, Sent, Unset
<1>4. Passes(Sent(FALSE),
             Kernel({"number_of_neighbors", "rdista", "csr_diag_idx", "csr_idx", "A_data"}, {},
                    {"A_data"}),
             Sent(FALSE))
  BY DEF Passes, Operation, Op, Known, Sent, Unset
<1>5. Passes(Sent(FALSE),
             Kernel({"boundary_face_to_cell", "boundary_rdista", "csr_diag_idx", "A_data"}, {},
                    {"A_data"}),
             Sent(FALSE))
  BY DEF Passes, Operation, Op, Known, Sent, Unset
<1>6. QED
  BY <1>1, <1>2, <1>3, <1>4, <1>5, FiveRun DEF ComputeSystem

LEMMA DiffusionRuns ==
    ASSUME NEW setup \in BOOLEAN
    PROVE  Runs(Diffusion, Sent(setup), Diffused(setup))
<1>1. Passes(Sent(setup),
             Kernel({"number_of_neighbors", "cell_neighbors", "rdista", "Q_cell"}, {"Q_cell"},
                    {"residual"}),
             Diffused(setup))
  BY DEF Passes, Operation, Op, Known, Sent, Diffused
<1>2. Passes(Diffused(setup),
             Kernel({"boundary_face_to_cell", "Q_boundary", "Q_cell", "boundary_rdista",
                    "residual"}, {}, {"residual"}),
             Diffused(setup))
  BY DEF Passes, Operation, Op, Known, Sent, Diffused
<1>3. QED
  BY <1>1, <1>2, TwoRun DEF Diffusion

LEMMA NormRuns ==
    ASSUME NEW setup \in BOOLEAN
    PROVE  Runs(<<L1Norm("residual")>>, Diffused(setup), Diffused(setup))
<1>1. Passes(Diffused(setup), L1Norm("residual"), Diffused(setup))
  BY DEF Passes, Operation, Op, Known, Diffused
<1>2. QED
  BY <1>1, OneRun

\* what the time loop starts a step from, explicit and implicit
Explicit(setup) == Known({}, {}, {}, Workspace(setup), {}, {}, setup)
Implicit(setup) == Known({"rhs"}, {}, {}, Workspace(setup), {}, {}, setup)

LEMMA ExplicitNormRuns ==
    ASSUME NEW setup \in BOOLEAN
    PROVE  Runs(<<L1Norm("residual")>>, Diffused(setup), Explicit(setup))
<1>1. Passes(Diffused(setup), L1Norm("residual"), Explicit(setup))
  BY DEF Passes, Operation, Op, Known, Diffused, Explicit
<1>2. QED
  BY <1>1, OneRun

LEMMA RhsRuns ==
    ASSUME NEW setup \in BOOLEAN
    PROVE  Runs(<<Kernel({"residual"}, {}, {"rhs"})>>, Diffused(setup), Implicit(setup))
<1>1. Passes(Diffused(setup), Kernel({"residual"}, {}, {"rhs"}), Implicit(setup))
  BY DEF Passes, Operation, Op, Known, Diffused, Implicit
<1>2. QED
  BY <1>1, OneRun

\* the Jacobi solver: dQ_old is on the device
Jacobi(owned, stale, fresh, setup) ==
    Known({"rhs", "dQ_old"} \union owned, stale, fresh, Workspace(setup), {}, {}, setup)

LEMMA ZeroOldRuns ==
    ASSUME NEW setup \in BOOLEAN
    PROVE  Runs(ZeroOld, Implicit(setup), Jacobi({}, {}, {}, setup))
<1>1. Passes(Implicit(setup), About("transfer_to_gpu_noinit", {"dQ_old"}),
             Jacobi({}, {"dQ_old"}, {}, setup))
  BY DEF Passes, Operation, Op, Known, Implicit, Jacobi
<1>2. Passes(Jacobi({}, {"dQ_old"}, {}, setup), Raw({}, {"dQ_old"}), Jacobi({}, {}, {}, setup))
  BY DEF Passes, Operation, Op, Known, Implicit, Jacobi
<1>3. QED
  BY <1>1, <1>2, TwoRun DEF ZeroOld

LEMMA JacobiIterationRuns ==
    ASSUME NEW setup \in BOOLEAN
    PROVE  Runs(<<Exchange("dQ_old"),
                  Kernel({"rhs", "A_data", "ia", "ja", "dQ_old"}, {"dQ_old"}, {"dQ"}),
                  Raw({"dQ"}, {"dQ_old"})>>, Jacobi({}, {}, {}, setup), Jacobi({}, {}, {}, setup))
<1>1. Passes(Jacobi({}, {}, {}, setup), Exchange("dQ_old"), Jacobi({}, {}, {"dQ_old"}, setup))
  BY DEF Passes, Operation, Op, Known, Jacobi
<1>2. Passes(Jacobi({}, {}, {"dQ_old"}, setup),
             Kernel({"rhs", "A_data", "ia", "ja", "dQ_old"}, {"dQ_old"}, {"dQ"}),
             Jacobi({"dQ"}, {}, {}, setup))
  BY DEF Passes, Operation, Op, Known, Jacobi
<1>3. Passes(Jacobi({"dQ"}, {}, {}, setup), Raw({"dQ"}, {"dQ_old"}), Jacobi({}, {}, {}, setup))
  BY DEF Passes, Operation, Op, Known, Jacobi
<1>4. QED
  BY <1>1, <1>2, <1>3, ThreeRun

\* the BiCGSTAB solver: before the matrix system is set up, around the iterations,
\* and in an iteration
Preparing(owned, stale) == Known({"rhs"} \union owned, stale, {}, {}, {}, {}, FALSE)
Work == Vectors \union Scalars
Solving(live, stale, fresh, written) ==
    Known({"rhs", "dQ", "ia", "ja", "A_data"}, stale, fresh, {"workspace"} \union live,
          {"workspace"} \union written, {}, TRUE)
Inner(fresh, written) ==
    Known({"rhs", "dQ", "ia", "ja", "A_data"}, {}, fresh, {"workspace"} \union Work,
          {"workspace", "r0", "r", "p"} \union written, {}, TRUE)

LEMMA ReleaseOldRuns ==
    ASSUME NEW setup \in BOOLEAN
    PROVE  Runs(ReleaseOld, Implicit(setup), Preparing({}, {}))
<1>1. Passes(Implicit(setup), About("release_system", {}), Preparing({}, {}))
  BY DEF Passes, Operation, Op, Known, Implicit, Preparing
<1>2. QED
  BY <1>1, OneRun DEF ReleaseOld

LEMMA SetupRuns ==
    Runs(<<About("transfer_to_gpu_noinit", {"dQ"}), About("transfer_to_gpu_move", MatrixVars),
         Op("init_system", MatrixVars, {}, {"workspace"})>>, Preparing({}, {}),
         Solving({}, {"dQ"}, {}, {}))
<1>1. Passes(Preparing({}, {}), About("transfer_to_gpu_noinit", {"dQ"}),
             Preparing({"dQ"}, {"dQ"}))
  BY DEF Passes, Operation, Op, Known, Preparing, Solving
<1>2. Passes(Preparing({"dQ"}, {"dQ"}), About("transfer_to_gpu_move", MatrixVars),
             Preparing({"dQ"} \union MatrixVars, {"dQ"}))
  BY DEF Passes, Operation, Op, Known, Preparing, Solving
<1>3. Passes(Preparing({"dQ"} \union MatrixVars, {"dQ"}),
             Op("init_system", MatrixVars, {}, {"workspace"}),
             Solving({}, {"dQ"}, {}, {}))
  BY DEF Passes, Operation, Op, Known, Preparing, Solving
<1>4. QED
  BY <1>1, <1>2, <1>3, ThreeRun

LEMMA GuessRuns ==
    Runs(<<About("transfer_to_gpu_noinit", {"dQ"}), Raw({}, {"dQ"}),
         About("malloc", Vectors \union Scalars), About("malloc", {"Ax"})>>,
         Solving({}, {"dQ"}, {}, {}), Solving(Work \union {"Ax"}, {}, {}, {}))
<1>1. Passes(Solving({}, {"dQ"}, {}, {}), About("transfer_to_gpu_noinit", {"dQ"}),
             Solving({}, {"dQ"}, {}, {}))
  BY DEF Passes, Operation, Op, Known, Solving, Work
<1>2. Passes(Solving({}, {"dQ"}, {}, {}), Raw({}, {"dQ"}), Solving({}, {}, {}, {}))
  BY DEF Passes, Operation, Op, Known, Solving, Work
<1>3. Passes(Solving({}, {}, {}, {}), About("malloc", Vectors \union Scalars),
             Solving(Work, {}, {}, {}))
  BY DEF Passes, Operation, Op, Known, Solving, Work
<1>4. Passes(Solving(Work, {}, {}, {}), About("malloc", {"Ax"}),
             Solving(Work \union {"Ax"}, {}, {}, {}))
  BY DEF Passes, Operation, Op, Known, Solving, Work
<1>5. QED
  BY <1>1, <1>2, <1>3, <1>4, FourRun

LEMMA FirstProductRuns ==
    Runs(MatVec("dQ", "Ax"), Solving(Work \union {"Ax"}, {}, {}, {}),
         Solving(Work \union {"Ax"}, {}, {}, {"Ax"}))
<1>1. Passes(Solving(Work \union {"Ax"}, {}, {}, {}), Exchange("dQ"),
             Solving(Work \union {"Ax"}, {}, {"dQ"}, {}))
  BY DEF Passes, Operation, Op, Known, Solving, Work
<1>2. Passes(Solving(Work \union {"Ax"}, {}, {"dQ"}, {}),
             Op("compute", {"ia", "ja", "A_data", "workspace", "dQ"}, {"dQ"}, {"Ax"}),
             Solving(Work \union {"Ax"}, {}, {}, {"Ax"}))
  BY DEF Passes, Operation, Op, Known, Solving, Work
<1>3. QED
  BY <1>1, <1>2, TwoRun DEF MatVec

LEMMA StartRuns ==
    Runs(<<Raw({"rhs", "Ax"}, {"r0"}), About("free", {"Ax"}), Raw({"r0"}, {"r"}),
         Raw({"r0"}, {"p"})>>, Solving(Work \union {"Ax"}, {}, {}, {"Ax"}), Inner({}, {}))
<1>1. Passes(Solving(Work \union {"Ax"}, {}, {}, {"Ax"}), Raw({"rhs", "Ax"}, {"r0"}),
             Solving(Work \union {"Ax"}, {}, {}, {"Ax", "r0"}))
  BY DEF Passes, Operation, Op, Known, Solving, Inner, Work
<1>2. Passes(Solving(Work \union {"Ax"}, {}, {}, {"Ax", "r0"}), About("free", {"Ax"}),
             Solving(Work, {}, {}, {"r0"}))
  BY DEF Passes, Operation, Op, Known, Solving, Inner, Work
<1>3. Passes(Solving(Work, {}, {}, {"r0"}), Raw({"r0"}, {"r"}),
             Solving(Work, {}, {}, {"r0", "r"}))
  BY DEF Passes, Operation, Op, Known, Solving, Inner, Work
<1>4. Passes(Solving(Work, {}, {}, {"r0", "r"}), Raw({"r0"}, {"p"}), Inner({}, {}))
  BY DEF Passes, Operation, Op, Known, Solving, Inner, Work
<1>5. QED
  BY <1>1, <1>2, <1>3, <1>4, FourRun

LEMMA DirectionRuns ==
    Runs(<<Raw({"p"}, {"p1"}), Dot("r", "r0", "alpha1")>>, Inner({}, {}),
         Inner({}, {"p1", "alpha1"}))
<1>1. Passes(Inner({}, {}), Raw({"p"}, {"p1"}), Inner({}, {"p1"}))
  BY DEF Passes, Operation, Op, Known, Inner, Work
<1>2. Passes(Inner({}, {"p1"}), Dot("r", "r0", "alpha1"), Inner({}, {"p1", "alpha1"}))
  BY DEF Passes, Operation, Op, Known, Inner, Work
<1>3. QED
  BY <1>1, <1>2, TwoRun

LEMMA ApRuns ==
    Runs(MatVec("p1", "Ap"), Inner({}, {"p1", "alpha1"}), Inner({}, {"p1", "alpha1", "Ap"}))
<1>1. Passes(Inner({}, {"p1", "alpha1"}), Exchange("p1"), Inner({"p1"}, {"p1", "alpha1"}))
  BY DEF Passes, Operation, Op, Known, Inner, Work
<1>2. Passes(Inner({"p1"}, {"p1", "alpha1"}),
             Op("compute", {"ia", "ja", "A_data", "workspace", "p1"}, {"p1"}, {"Ap"}),
             Inner({}, {"p1", "alpha1", "Ap"}))
  BY DEF Passes, Operation, Op, Known, Inner, Work
<1>3. QED
  BY <1>1, <1>2, TwoRun DEF MatVec

LEMMA HalfStepRuns ==
    Runs(<<Dot("Ap", "r0", "alpha"), Raw({"alpha1", "alpha"}, {"alpha"}),
         Raw({"r", "alpha", "Ap"}, {"s"}), Raw({"s"}, {"s1"})>>,
         Inner({}, {"p1", "alpha1", "Ap"}), Inner({}, {"p1", "alpha1", "Ap", "alpha", "s", "s1"}))
<1>1. Passes(Inner({}, {"p1", "alpha1", "Ap"}), Dot("Ap", "r0", "alpha"),
             Inner({}, {"p1", "alpha1", "Ap", "alpha"}))
  BY DEF Passes, Operation, Op, Known, Inner, Work
<1>2. Passes(Inner({}, {"p1", "alpha1", "Ap", "alpha"}), Raw({"alpha1", "alpha"}, {"alpha"}),
             Inner({}, {"p1", "alpha1", "Ap", "alpha"}))
  BY DEF Passes, Operation, Op, Known, Inner, Work
<1>3. Passes(Inner({}, {"p1", "alpha1", "Ap", "alpha"}), Raw({"r", "alpha", "Ap"}, {"s"}),
             Inner({}, {"p1", "alpha1", "Ap", "alpha", "s"}))
  BY DEF Passes, Operation, Op, Known, Inner, Work
<1>4. Passes(Inner({}, {"p1", "alpha1", "Ap", "alpha", "s"}), Raw({"s"}, {"s1"}),
             Inner({}, {"p1", "alpha1", "Ap", "alpha", "s", "s1"}))
  BY DEF Passes, Operation, Op, Known, Inner, Work
<1>5. QED
  BY <1>1, <1>2, <1>3, <1>4, FourRun

LEMMA AsRuns ==
    Runs(MatVec("s1", "As"), Inner({}, {"p1", "alpha1", "Ap", "alpha", "s", "s1"}),
         Inner({}, {"p1", "alpha1", "Ap", "alpha", "s", "s1", "As"}))
<1>1. Passes(Inner({}, {"p1", "alpha1", "Ap", "alpha", "s", "s1"}), Exchange("s1"),
             Inner({"s1"}, {"p1", "alpha1", "Ap", "alpha", "s", "s1"}))
  BY DEF Passes, Operation, Op, Known, Inner, Work
<1>2. Passes(Inner({"s1"}, {"p1", "alpha1", "Ap", "alpha", "s", "s1"}),
             Op("compute", {"ia", "ja", "A_data", "workspace", "s1"}, {"s1"}, {"As"}),
             Inner({}, {"p1", "alpha1", "Ap", "alpha", "s", "s1", "As"}))
  BY DEF Passes, Operation, Op, Known, Inner, Work
<1>3. QED
  BY <1>1, <1>2, TwoRun DEF MatVec

LEMMA FullStepRuns ==
    Runs(<<Dot("As", "s", "omega1"), Dot("As", "As", "temp"), Raw({"omega1", "temp"}, {"omega1"}),
         Raw({"dQ", "alpha", "p1"}, {"dQ"}), Raw({"dQ", "omega1", "s1"}, {"dQ"}),
         Raw({"s", "omega1", "As"}, {"r"}), Dot("r", "r0", "beta"),
         Raw({"beta", "alpha", "alpha1", "omega1"}, {"beta"}), Raw({"r", "beta", "p"}, {"p"}),
         Raw({"p", "beta", "omega1", "Ap"}, {"p"})>>,
         Inner({}, {"p1", "alpha1", "Ap", "alpha", "s", "s1", "As"}), Inner({}, {}))
<1>1. Passes(Inner({}, {"p1", "alpha1", "Ap", "alpha", "s", "s1", "As"}),
             Dot("As", "s", "omega1"),
             Inner({}, {"p1", "alpha1", "Ap", "alpha", "s", "s1", "As", "omega1"}))
  BY DEF Passes, Operation, Op, Known, Inner, Work
<1>2. Passes(Inner({}, {"p1", "alpha1", "Ap", "alpha", "s", "s1", "As", "omega1"}),
             Dot("As", "As", "temp"),
             Inner({}, {"p1", "alpha1", "Ap", "alpha", "s", "s1", "As", "omega1", "temp"}))
  BY DEF Passes, Operation, Op, Known, Inner, Work
<1>3. Passes(Inner({}, {"p1", "alpha1", "Ap", "alpha", "s", "s1", "As", "omega1", "temp"}),
             Raw({"omega1", "temp"}, {"omega1"}),
             Inner({}, {"p1", "alpha1", "Ap", "alpha", "s", "s1", "As", "omega1"}))
  BY DEF Passes, Operation, Op, Known, Inner, Work
<1>4. Passes(Inner({}, {"p1", "alpha1", "Ap", "alpha", "s", "s1", "As", "omega1"}),
             Raw({"dQ", "alpha", "p1"}, {"dQ"}),
             Inner({}, {"alpha1", "Ap", "alpha", "s", "s1", "As", "omega1"}))
  BY DEF Passes, Operation, Op, Known, Inner, Work
<1>5. Passes(Inner({}, {"alpha1", "Ap", "alpha", "s", "s1", "As", "omega1"}),
             Raw({"dQ", "omega1", "s1"}, {"dQ"}),
             Inner({}, {"alpha1", "Ap", "alpha", "s", "As", "omega1"}))
  BY DEF Passes, Operation, Op, Known, Inner, Work
<1>6. Passes(Inner({}, {"alpha1", "Ap", "alpha", "s", "As", "omega1"}),
             Raw({"s", "omega1", "As"}, {"r"}),
             Inner({}, {"alpha1", "Ap", "alpha", "omega1"}))
  BY DEF Passes, Operation, Op, Known, Inner, Work
<1>7. Passes(Inner({}, {"alpha1", "Ap", "alpha", "omega1"}), Dot("r", "r0", "beta"),
             Inner({}, {"alpha1", "Ap", "alpha", "omega1", "beta"}))
  BY DEF Passes, Operation, Op, Known, Inner, Work
<1>8. Passes(Inner({}, {"alpha1", "Ap", "alpha", "omega1", "beta"}),
             Raw({"beta", "alpha", "alpha1", "omega1"}, {"beta"}),
             Inner({}, {"Ap", "omega1", "beta"}))
  BY DEF Passes, Operation, Op, Known, Inner, Work
<1>9. Passes(Inner({}, {"Ap", "omega1", "beta"}), Raw({"r", "beta", "p"}, {"p"}),
             Inner({}, {"Ap", "omega1", "beta"}))
  BY DEF Passes, Operation, Op, Known, Inner, Work
<1>10. Passes(Inner({}, {"Ap", "omega1", "beta"}), Raw({"p", "beta", "omega1", "Ap"}, {"p"}),
              Inner({}, {}))
  BY DEF Passes, Operation, Op, Known, Inner, Work
<1>11. QED
  <2> HIDE DEF Kernel, Raw, About, Dot
  <2>1. QED
    BY <1>1, <1>2, <1>3, <1>4, <1>5, <1>6, <1>7, <1>8, <1>9, <1>10, TenRun

LEMMA FreeWorkRuns ==
    Runs(<<About("free", Vectors \union Scalars)>>, Inner({}, {}), Solving({}, {}, {}, {}))
<1>1. Passes(Inner({}, {}), About("free", Vectors \union Scalars), Solving({}, {}, {}, {}))
  BY DEF Passes, Operation, Op, Known, Inner, Solving, Work
<1>2. QED
  BY <1>1, OneRun

LEMMA ExplicitCorrectionRuns ==
    ASSUME NEW setup \in BOOLEAN
    PROVE  Runs(<<Kernel({"volume", "residual", "Q_cell"}, {}, {"Q_cell"})>>, Explicit(setup),
                Corrected(setup))
<1>1. Passes(Explicit(setup), Kernel({"volume", "residual", "Q_cell"}, {}, {"Q_cell"}),
             Corrected(setup))
  BY DEF Passes, Operation, Op, Known, Explicit, Corrected
<1>2. QED
  BY <1>1, OneRun

LEMMA JacobiCorrectionRuns ==
    ASSUME NEW setup \in BOOLEAN
    PROVE  Runs(<<Kernel({"dQ", "Q_cell"}, {}, {"Q_cell"})>>, Jacobi({}, {}, {}, setup),
                Corrected(setup))
<1>1. Passes(Jacobi({}, {}, {}, setup), Kernel({"dQ", "Q_cell"}, {}, {"Q_cell"}),
             Corrected(setup))
  BY DEF Passes, Operation, Op, Known, Jacobi, Corrected
<1>2. QED
  BY <1>1, OneRun

LEMMA BicgstabCorrectionRuns ==
    Runs(<<Kernel({"dQ", "Q_cell"}, {}, {"Q_cell"})>>, Solving({}, {}, {}, {}), Corrected(TRUE))
<1>1. Passes(Solving({}, {}, {}, {}), Kernel({"dQ", "Q_cell"}, {}, {"Q_cell"}), Corrected(TRUE))
  BY DEF Passes, Operation, Op, Known, Solving, Corrected
<1>2. QED
  BY <1>1, OneRun

\* data sets are back on the host
Home(home, setup) == Known({}, {}, {}, Workspace(setup), {}, home, setup)

LEMMA ExplicitWriteRuns ==
    ASSUME NEW setup \in BOOLEAN
    PROVE  Runs(WriteSolution, Explicit(setup), Home({}, setup))
<1>1. Passes(Explicit(setup), About("transfer_to_cpu_move", {"Q_cell"}), Home({"Q_cell"}, setup))
  BY DEF Passes, Operation, Op, Known, Explicit, Home
<1>2. Passes(Home({"Q_cell"}, setup), Gather("Q_cell"), Home({}, setup))
  BY DEF Passes, Operation, Op, Known, Explicit, Home
<1>3. Passes(Home({}, setup), About("transfer_to_cpu_move", {"xcen"}), Home({"xcen"}, setup))
  BY DEF Passes, Operation, Op, Known, Explicit, Home
<1>4. Passes(Home({"xcen"}, setup), Gather("xcen"), Home({}, setup))
  BY DEF Passes, Operation, Op, Known, Explicit, Home
<1>5. QED
  BY <1>1, <1>2, <1>3, <1>4, FourRun DEF WriteSolution

LEMMA ImplicitWriteRuns ==
    ASSUME NEW setup \in BOOLEAN
    PROVE  Runs(WriteSolution, Implicit(setup), Home({}, setup))
<1>1. Passes(Implicit(setup), About("transfer_to_cpu_move", {"Q_cell"}), Home({"Q_cell"}, setup))
  BY DEF Passes, Operation, Op, Known, Implicit, Home
<1>2. Passes(Home({"Q_cell"}, setup), Gather("Q_cell"), Home({}, setup))
  BY DEF Passes, Operation, Op, Known, Implicit, Home
<1>3. Passes(Home({}, setup), About("transfer_to_cpu_move", {"xcen"}), Home({"xcen"}, setup))
  BY DEF Passes, Operation, Op, Known, Implicit, Home
<1>4. Passes(Home({"xcen"}, setup), Gather("xcen"), Home({}, setup))
  BY DEF Passes, Operation, Op, Known, Implicit, Home
<1>5. QED
  BY <1>1, <1>2, <1>3, <1>4, FourRun DEF WriteSolution

LEMMA DestroyRuns ==
    ASSUME NEW setup \in BOOLEAN
    PROVE  Runs(Destroy, Home({}, setup), Bare)
<1>1. Passes(Home({}, setup), About("release_system", {}), Bare)
  BY DEF Passes, Operation, Op, Known, Home, Bare
<1>2. QED
  BY <1>1, OneRun DEF Destroy

HIDE DEF DevicePasses, ExchangePasses, InitPasses, NoInitPasses, ToGpuPasses,
         ToCpuPasses, GatherPasses, MallocPasses, FreePasses, ReleasePasses,
         DeviceKinds, ToCpuKinds, Readable, Pointed, Touched, SameData, SameBuffers,
         Sane, Knowledge, Names, Workspace, Kinds,
         Kernel, Raw, L1Norm, Exchange, Host, Gather, About, Dot,
         Vars, MeshVars, MatrixVars, SolverVars, Buffers, Vectors, Scalars
-----------------------------------------------------------------------------
(* The functions that call one another or repeat themselves.               *)

LEMMA BetweenIs ==
    ASSUME NEW setup
    PROVE  Between(setup) = IF options.implicit_solver THEN Implicit(setup) ELSE Explicit(setup)
BY DEF Between, Implicit, Explicit

LEMMA SetBoundaryConditionsRuns == Runs(SetBoundaryConditions, Bare, Bare)
<1>1. PICK p : p = <<Host({"boundary_type_start_and_end_index"}, {}),
                     Kernel({}, {}, {"Q_boundary"})>>
  OBVIOUS
<1>2. Runs(p, Bare, Bare)
  BY <1>1, OneSideRuns
<1>3. Runs(FlattenSeq([side \in 1 .. 4 |-> p]), Bare, Bare)
  BY <1>2, RunsRepeat
<1>4. QED
  BY <1>1, <1>3 DEF SetBoundaryConditions

LEMMA ComputeResidualRuns ==
    ASSUME NEW setup \in BOOLEAN
    PROVE  Runs(ComputeResidual, Sent(setup), Between(setup))
<1>1. Runs(NormAndRhs, Diffused(setup), Between(setup))
  <2>1. CASE options.implicit_solver
    BY <2>1, NormRuns, RhsRuns, RunsOn, BetweenIs DEF NormAndRhs
  <2>2. CASE ~options.implicit_solver
    BY <2>2, ExplicitNormRuns, RunsNothing, RunsOn, BetweenIs DEF NormAndRhs
  <2>3. QED
    BY <2>1, <2>2
<1>2. QED
  BY <1>1, DiffusionRuns, RunsOn DEF ComputeResidual

LEMMA JacobiLinearSolverRuns ==
    ASSUME NEW setup \in BOOLEAN
    PROVE  Runs(JacobiLinearSolver, Implicit(setup), Jacobi({}, {}, {}, setup))
<1>1. PICK p : p = <<Exchange("dQ_old"),
                     Kernel({"rhs", "A_data", "ia", "ja", "dQ_old"}, {"dQ_old"}, {"dQ"}),
                     Raw({"dQ"}, {"dQ_old"})>>
  OBVIOUS
<1>2. Runs(p, Jacobi({}, {}, {}, setup), Jacobi({}, {}, {}, setup))
  BY <1>1, JacobiIterationRuns
<1>3. Runs(FlattenSeq([iter \in 1 .. num_iter |-> p]), Jacobi({}, {}, {}, setup),
           Jacobi({}, {}, {}, setup))
  BY <1>2, RunsRepeat, GpuSolverAssumption
<1>4. QED
  BY <1>1, <1>3, ZeroOldRuns, RunsOn DEF JacobiLinearSolver

LEMMA SetupSpmvSystemRuns ==
    ASSUME NEW setup \in BOOLEAN
    PROVE  Runs(SetupSpmvSystem, Implicit(setup), Solving({}, {"dQ"}, {}, {}))
BY ReleaseOldRuns, SetupRuns, RunsOn DEF SetupSpmvSystem

LEMMA BicgstabIterationRuns == Runs(BicgstabIteration, Inner({}, {}), Inner({}, {}))
BY DirectionRuns, ApRuns, HalfStepRuns, AsRuns, FullStepRuns, RunsOn DEF BicgstabIteration

LEMMA BicgstabLinearSolverRuns ==
    Runs(BicgstabLinearSolver, Solving({}, {"dQ"}, {}, {}), Solving({}, {}, {}, {}))
<1>1. PICK p : p = FlattenSeq([iter \in 1 .. num_iter |-> BicgstabIteration])
  OBVIOUS
<1>2. Runs(p, Inner({}, {}), Inner({}, {}))
  BY <1>1, BicgstabIterationRuns, RunsRepeat, GpuSolverAssumption
<1>3. QED
  BY <1>1, <1>2, GuessRuns, FirstProductRuns, StartRuns, FreeWorkRuns, RunsOn
     DEF BicgstabLinearSolver

\* the BiCGSTAB solver leaves the matrix system set up, the others leave it alone
LEMMA CorrectionRuns ==
    ASSUME NEW setup \in BOOLEAN
    PROVE  \E s \in BOOLEAN : Runs(Correction, Between(setup), Corrected(s))
<1>1. CASE ~options.implicit_solver
  BY <1>1, ExplicitCorrectionRuns, BetweenIs DEF Correction
<1>2. CASE options.implicit_solver /\ options.solver_type = 0
  BY <1>2, JacobiLinearSolverRuns, JacobiCorrectionRuns, RunsOn, BetweenIs DEF Correction
<1>3. CASE options.implicit_solver /\ options.solver_type # 0
  BY <1>3, SetupSpmvSystemRuns, BicgstabLinearSolverRuns, BicgstabCorrectionRuns, RunsOn,
     BetweenIs DEF Correction
<1>4. QED
  BY <1>1, <1>2, <1>3

LEMMA StepRuns ==
    ASSUME NEW setup \in BOOLEAN
    PROVE  \E s \in BOOLEAN :
              Runs(UpdateSolution \o ComputeResidual, Between(setup), Between(s))
<1>1. PICK s \in BOOLEAN : Runs(Correction, Between(setup), Corrected(s))
  BY CorrectionRuns
<1>2. Runs(UpdateSolution, Between(setup), Sent(s))
  BY <1>1, ExchangeRuns, RunsOn DEF UpdateSolution
<1>3. QED
  BY <1>2, ComputeResidualRuns, RunsOn

LEMMA EndRuns ==
    ASSUME NEW setup \in BOOLEAN
    PROVE  Runs(WriteSolution \o Destroy, Between(setup), Bare)
<1>1. Runs(WriteSolution, Between(setup), Home({}, setup))
  BY ExplicitWriteRuns, ImplicitWriteRuns, BetweenIs
<1>2. QED
  BY <1>1, DestroyRuns, RunsOn

LEMMA StartUpRuns ==
    Runs(SetupMatrixStruct \o SetBoundaryConditions \o InitializeSolution
         \o ComputeTimeStep \o ComputeRdist \o ComputeSystem \o ComputeResidual,
         Bare, Between(FALSE))
<1>1. Runs(SetupMatrixStruct, Bare, Bare)
  <2>1. CASE options.implicit_solver
    BY <2>1, SetupMatrixStructRuns
  <2>2. CASE ~options.implicit_solver
    BY <2>2, RunsNothing DEF SetupMatrixStruct
  <2>3. QED
    BY <2>1, <2>2
<1>2. Runs(ComputeSystem, Sent(FALSE), Sent(FALSE))
  <2>1. CASE options.implicit_solver
    BY <2>1, ComputeSystemRuns
  <2>2. CASE ~options.implicit_solver
    BY <2>2, RunsNothing DEF ComputeSystem
  <2>3. QED
    BY <2>1, <2>2
<1>3. Runs(ComputeResidual, Sent(FALSE), Between(FALSE))
  BY ComputeResidualRuns
<1>4. QED
  BY <1>1, <1>2, <1>3, SetBoundaryConditionsRuns, InitializeSolutionRuns, ComputeTimeStepRuns,
     ComputeRdistRuns, RunsOn

-----------------------------------------------------------------------------
(* The invariant.                                                          *)

LEMMA InitMeets ==
    ASSUME Init
    PROVE  Meets(Bare)
<1>1. Sane(Bare)
  BY DEF Sane, Bare, Known, Knowledge
<1>2. /\ Bare.stale = {} /\ Bare.owned = {} /\ Bare.fresh = {} /\ Bare.home = {}
      /\ Bare.live = {} /\ Bare.setup = FALSE
  BY DEF Bare, Known
<1>3. ASSUME NEW v \in Vars
      PROVE  Fitting(Bare, v, ds[v])
  <2>1. PICK n \in 0 .. 1 : ds[v] = NewDataSet(TRUE, n)
    <3>1. PICK n : n = IF v \notin MatrixVars /\ (cells \/ v \in NeverEmpty) THEN 1 ELSE 0
      OBVIOUS
    <3>2. n \in 0 .. 1
      BY <3>1
    <3>3. ds[v] = NewDataSet(TRUE, n)
      BY <3>1, Zenon DEF Init
    <3>4. QED
      BY <3>2, <3>3
  <2>2. PICK m \in BOOLEAN : m <=> n > 0
    OBVIOUS
  <2>3. PICK d : d = ds[v]
    OBVIOUS
  <2>4. d = [exists |-> TRUE, mapped |-> m, size |-> n, prot |-> "rw", host |-> Blank,
             instance |-> FALSE, cpu |-> "NOT_ALLOCATED", gpu |-> "NOT_ALLOCATED",
             buffer |-> 0, dev |-> Garbage, lost |-> FALSE]
    BY <2>1, <2>2, <2>3, Zenon DEF NewDataSet
  <2>5. d \in DataSet
    BY <2>4, ContentIs DEF DataSet, XpuDataStatus
  <2>6. /\ d.exists = TRUE /\ d.mapped = m /\ d.size = n /\ d.prot = "rw" /\ d.host = Blank
        /\ d.instance = FALSE
    BY <2>4
  <2>7. Coherent(d) /\ ~OnGpu(d)
    BY <2>2, <2>5, <2>6 DEF Coherent, OnGpu
  <2>8. Current(d) /\ Zeros(d)
    BY <2>6, <2>7, ContentIs DEF Current, Zeros
  <2>9. QED
    BY <1>2, <2>3, <2>7, <2>8 DEF Fitting
<1>4. ds \in [Vars -> DataSet]
  BY <1>3 DEF Init, Fitting, Coherent
<1>5. scratch \in [Bare.live -> Contents] /\ spmv = Bare.setup
  BY <1>2 DEF Init
<1>6. QED
  BY <1>1, <1>2, <1>3, <1>4, <1>5 DEF Meets

LEMMA InitInv == Init => Inv
<1>1. SUFFICES ASSUME Init
               PROVE  Inv
  OBVIOUS
<1>2. options \in [implicit_solver : BOOLEAN, solver_type : Nat]
  BY <1>1, GpuSolverAssumption DEF Init
<1>3. phase = "loop" /\ Runs(todo, Bare, Between(FALSE))
  BY <1>1, StartUpRuns DEF Init
<1>4. QED
  BY <1>1, <1>2, <1>3, InitMeets DEF Inv

\* a program that is put up between two steps of the loop
LEMMA MeetsStays == ASSUME NEW a, Meets(a), UNCHANGED <<ds, scratch, spmv>>
                    PROVE  Meets(a)'
BY DEF Meets, Fitting, Holding

LEMMA NextInv == Inv /\ [Next]_vars => Inv'
<1>1. SUFFICES ASSUME Inv, [Next]_vars
               PROVE  Inv'
  OBVIOUS
<1>2. PICK a, b : /\ Meets(a) /\ Runs(todo, a, b)
                  /\ phase = "loop" => \E setup \in BOOLEAN : b = Between(setup)
                  /\ phase = "end" => b = Bare
  BY <1>1 DEF Inv
<1>3. options' = options
  BY <1>1 DEF Next, vars, SubmitToGpu, UsePointers, Compute, DeviceCode, NbnbTransferGpu,
     Transfer, HostCode, Resize, Malloc, Free, InitSystem, ReleaseSystem, NextStep, LeaveLoop,
     Advance
<1>4. options \in [implicit_solver : BOOLEAN, solver_type : Nat]
  BY <1>1 DEF Inv
<1>5. \A setup : Between(setup)' = Between(setup)
  BY <1>3 DEF Between
<1>6. Bare' = Bare
  BY DEF Bare, Known
<1>7. CASE Operate
  <2>1. todo # <<>> /\ Advance
    BY <1>7 DEF Operate, SubmitToGpu, UsePointers, Compute, DeviceCode, NbnbTransferGpu,
       Transfer, HostCode, Resize, Malloc, Free, InitSystem, ReleaseSystem, Is
  <2>2. PICK c : Passes(a, Head1, c) /\ Runs(Tail(todo), c, b)
    BY <1>2, <2>1, RunsHead DEF Head1
  <2>3. Meets(c)'
    BY <1>2, <1>7, <2>1, <2>2, OperationMeets
  <2>4. Runs(todo', c, b) /\ phase' = phase
    BY <2>1, <2>2 DEF Advance
  <2>5. QED
    BY <1>1, <1>2, <1>3, <1>4, <1>5, <1>6, <2>3, <2>4 DEF Inv
<1>8. CASE NextStep
  <2>1. /\ todo = <<>> /\ phase = "loop" /\ phase' = "loop"
        /\ todo' = UpdateSolution \o ComputeResidual
        /\ UNCHANGED <<ds, scratch, spmv>>
    BY <1>8 DEF NextStep
  <2>2. a = b
    BY <1>2, <2>1, RunsEnds
  <2>3. PICK setup \in BOOLEAN : b = Between(setup)
    BY <1>2, <2>1
  <2>4. PICK s \in BOOLEAN : Runs(todo', Between(setup), Between(s))
    BY <2>1, StepRuns
  <2>5. Meets(a)'
    BY <1>2, <2>1, MeetsStays
  <2>6. QED
    BY <1>3, <1>4, <1>5, <2>1, <2>2, <2>3, <2>4, <2>5 DEF Inv
<1>9. CASE LeaveLoop
  <2>1. /\ todo = <<>> /\ phase = "loop" /\ phase' = "end"
        /\ todo' = WriteSolution \o Destroy
        /\ UNCHANGED <<ds, scratch, spmv>>
    BY <1>9 DEF LeaveLoop
  <2>2. a = b
    BY <1>2, <2>1, RunsEnds
  <2>3. PICK setup \in BOOLEAN : b = Between(setup)
    BY <1>2, <2>1
  <2>4. Runs(todo', Between(setup), Bare)
    BY <2>1, <2>3, EndRuns
  <2>5. Meets(a)'
    BY <1>2, <2>1, MeetsStays
  <2>6. QED
    BY <1>3, <1>4, <1>6, <2>1, <2>2, <2>3, <2>4, <2>5 DEF Inv
<1>10. CASE UNCHANGED vars
  <2>1. UNCHANGED <<todo, phase, ds, scratch, spmv>>
    BY <1>10 DEF vars
  <2>2. Meets(a)'
    BY <1>2, <2>1, MeetsStays
  <2>3. Runs(todo', a, b)
    BY <1>2, <2>1
  <2>4. QED
    BY <1>1, <1>2, <1>3, <1>4, <1>5, <1>6, <2>1, <2>2, <2>3 DEF Inv
<1>11. QED
  BY <1>1, <1>7, <1>8, <1>9, <1>10 DEF Next, Operate

LEMMA SpecInv == Spec => []Inv
<1>1. Init => Inv
  BY InitInv
<1>2. Inv /\ [Next]_vars => Inv'
  BY NextInv
<1>3. QED
  BY <1>1, <1>2, PTL DEF Spec

-----------------------------------------------------------------------------
(* What the invariant says of the next operation.                          *)

LEMMA AtHead ==
    ASSUME Inv, todo # <<>>
    PROVE  \E a, b : Meets(a) /\ Passes(a, Head1, b)
BY RunsHead DEF Inv, Head1

LEMMA DeviceFinds ==
    ASSUME NEW a, NEW op, NEW b, Passes(a, op, b), op.kind \in OnTheDevice
    PROVE  /\ Readable(a, op)
           /\ op.kind # "kernel" => Pointed(a, op)
BY DEF Passes, DevicePasses, ExchangePasses, InitPasses, DeviceKinds, OnTheDevice

\* With any number of inner iterations, any number of steps and any options: whatever
\* the solver runs on the device, kernels with data sets as arguments as well as the
\* linear solvers with bare pointers, reads current cells, and where it reads ghosts,
\* those that an exchange brought after the latest write (compute_residual_gpu,
\* bicgstab_linear_solver_gpu, jacobi_linear_solver_gpu).
THEOREM DeviceAlwaysReadsCurrent == Spec => []DeviceReadsAreCurrent
<1>1. Inv => DeviceReadsAreCurrent
  <2>1. SUFFICES ASSUME Inv, todo # <<>>, Head1.kind \in OnTheDevice
                 PROVE  /\ \A v \in DataSetsOf(Head1.reads) :
                              /\ Readied(v).dev.own = "new"
                              /\ v \in Head1.ghosts => Readied(v).dev.ghosts = "new"
                        /\ \A x \in Head1.reads \ Vars :
                              /\ x \in DOMAIN scratch
                              /\ scratch[x].own = "new"
                              /\ x \in Head1.ghosts => scratch[x].ghosts = "new"
    BY DEF DeviceReadsAreCurrent
  <2>2. PICK a, b, op : op = Head1 /\ Meets(a) /\ Passes(a, op, b)
    BY <2>1, AtHead
  <2>3. Readable(a, op) /\ (op.kind # "kernel" => Pointed(a, op)) /\ Sane(a)
    BY <2>1, <2>2, DeviceFinds DEF Meets
  <2>4. ASSUME NEW v \in DataSetsOf(op.reads)
        PROVE  /\ Readied(v).dev.own = "new"
               /\ v \in op.ghosts => Readied(v).dev.ghosts = "new"
    <3>1. v \in Vars /\ v \in op.reads /\ ds[v].size > 0
      BY <2>4 DEF DataSetsOf
    <3>2. PICK d, e : d = ds[v] /\ e = Readied(v)
      OBVIOUS
    <3>3. Fitting(a, v, d) /\ Coherent(d)
      BY <2>2, <3>1, <3>2 DEF Meets, Fitting
    <3>4. v \notin a.stale /\ (v \in op.ghosts => v \in a.fresh)
      BY <2>3, <3>1 DEF Readable
    <3>5. CASE op.kind \in DeviceKinds
      <4>1. e = Entered(op, v, d)
        BY <2>1, <2>2, <3>1, <3>2, <3>5, ReadiedIs
      <4>2. /\ Coherent(e) /\ e.size = d.size /\ OnGpu(e) /\ Current(e)
            /\ v \in a.fresh /\ d.size > 0 => e.dev.ghosts = "new"
        BY <2>2, <2>3, <3>1, <3>3, <3>4, <3>5, <4>1, EnteredIs
      <4>3. QED
        BY <3>1, <3>2, <3>4, <4>2 DEF Current
    <3>6. CASE op.kind \notin DeviceKinds
      <4>1. op.kind \in {"exchange", "init_system"} /\ op.kind # "kernel"
        BY <2>1, <2>2, <3>6 DEF OnTheDevice, DeviceKinds
      <4>2. e = d
        BY <2>1, <2>2, <3>1, <3>2, <4>1, ReadiedIs
      <4>3. v \in a.owned
        BY <2>3, <3>1, <4>1 DEF Pointed, Touched
      <4>4. OnGpu(d) /\ Current(d) /\ (v \in a.fresh => d.dev.ghosts = "new")
        BY <3>1, <3>2, <3>3, <3>4, <4>3, OwnedIs DEF Fitting
      <4>5. QED
        BY <3>1, <3>2, <3>4, <4>2, <4>4 DEF Current
    <3>7. QED
      BY <3>5, <3>6
  <2>5. ASSUME NEW x \in op.reads \ Vars
        PROVE  /\ x \in DOMAIN scratch
               /\ scratch[x].own = "new"
               /\ x \in op.ghosts => scratch[x].ghosts = "new"
    <3>1. x \in a.written /\ x \in a.live /\ (x \in op.ghosts => x \in a.fresh)
      BY <2>3, <2>5 DEF Readable, Sane
    <3>2. QED
      BY <2>2, <3>1 DEF Meets, Holding
  <2>6. QED
    BY <2>2, <2>4, <2>5
<1>2. QED
  BY <1>1, SpecInv, PTL

\* With any number of inner iterations, any number of steps and any options: bare
\* device pointers, which the framework does not see used, go only to data sets that
\* the GPU alone has, and MPI_Gatherv is given host pages that can be read and hold
\* the latest cells (gpu_data() in the linear solvers, mpi_nbnb_transfer_gpu and
\* l1_norm; transfer_to_cpu_move in write_solution).
THEOREM PointersAreAlwaysOwned == Spec => []PointersAreOwned
<1>1. Inv => PointersAreOwned
  <2>1. SUFFICES ASSUME Inv, todo # <<>>
                 PROVE  PointersAreOwned
    BY DEF PointersAreOwned, Is
  <2>2. PICK a, b, op : op = Head1 /\ Meets(a) /\ Passes(a, op, b)
    BY <2>1, AtHead
  <2>3. \A v \in Vars : Fitting(a, v, ds[v]) /\ Coherent(ds[v])
    BY <2>2 DEF Meets, Fitting
  <2>4. op \in Operation /\ Sane(a)
    BY <2>2 DEF Passes, Meets
  <2>5. ASSUME op.kind \in OnTheDevice \ {"kernel"},
               NEW v \in DataSetsOf(op.reads \union op.writes)
        PROVE  ds[v].instance /\ ds[v].gpu \in UpToDate /\ ds[v].cpu \notin UpToDate
    <3>1. v \in Vars /\ v \in op.reads \union op.writes
      BY <2>5 DEF DataSetsOf
    <3>2. Pointed(a, op)
      BY <2>2, <2>5, DeviceFinds
    <3>3. v \in a.owned
      BY <3>1, <3>2 DEF Pointed, Touched
    <3>4. PICK d : d = ds[v]
      OBVIOUS
    <3>5. Coherent(d) /\ Owned(d)
      BY <2>3, <3>1, <3>3, <3>4 DEF Fitting
    <3>6. OnGpu(d) /\ d.cpu = "OUT_OF_DATE"
      BY <3>5, OwnedIs
    <3>7. QED
      BY <3>4, <3>6 DEF OnGpu, UpToDate
  <2>6. ASSUME op.kind = "gather", NEW v \in DataSetsOf(op.reads)
        PROVE  Loadable(ds[v]) /\ ds[v].host.own = "new"
    <3>1. v \in Vars /\ v \in op.reads /\ ds[v].size > 0
      BY <2>6 DEF DataSetsOf
    <3>2. v \in a.home
      BY <2>2, <2>6, <3>1 DEF Passes, GatherPasses
    <3>3. PICK d : d = ds[v]
      OBVIOUS
    <3>4. Fitting(a, v, d) /\ Coherent(d)
      BY <2>3, <3>1, <3>3
    <3>5. d.prot # "none" /\ v \notin a.owned
      BY <3>2, <3>4 DEF Fitting, Owned
    <3>6. Current(d)
      BY <2>4, <3>4, <3>5 DEF Fitting, Sane
    <3>7. QED
      BY <3>1, <3>3, <3>4, <3>5, <3>6, OwnedIs DEF Current, Loadable
  <2>7. DataSetsOf(op.writes \union IF Is("exchange") THEN op.reads ELSE {})
           \subseteq DataSetsOf(op.reads \union op.writes)
    BY DEF DataSetsOf
  <2>8. QED
    BY <2>2, <2>5, <2>6, <2>7 DEF PointersAreOwned, Is
<1>2. QED
  BY <1>1, SpecInv, PTL

\* With any number of inner iterations, any number of steps and any options: the norm
\* of the residual, which sums over the ghosts too, finds the zeros of the
\* registration there (l1_norm in compute_residual_gpu).
THEOREM NormNeverCountsGhosts == Spec => []NormCountsNoGhosts
<1>1. Inv => NormCountsNoGhosts
  <2>1. SUFFICES ASSUME Inv, todo # <<>>, Head1.kind = "norm", NEW v \in DataSetsOf(Head1.reads)
                 PROVE  ds[v].dev.ghosts = "zero"
    BY DEF NormCountsNoGhosts, Is
  <2>2. PICK a, b, op : op = Head1 /\ Meets(a) /\ Passes(a, op, b)
    BY <2>1, AtHead
  <2>3. op.reads \subseteq {"residual"} /\ Pointed(a, op)
    BY <2>1, <2>2 DEF Passes, DevicePasses, DeviceKinds
  <2>4. v \in Vars /\ v \in op.reads /\ ds[v].size > 0 /\ v = "residual"
    BY <2>1, <2>2, <2>3 DEF DataSetsOf
  <2>5. PICK d : d = ds[v]
    OBVIOUS
  <2>6. Fitting(a, v, d) /\ v \in a.owned
    BY <2>2, <2>3, <2>4, <2>5 DEF Meets, Pointed, Touched
  <2>7. Zeros(d) /\ OnGpu(d)
    BY <2>4, <2>6, OwnedIs DEF Fitting
  <2>8. QED
    BY <2>4, <2>5, <2>7 DEF Zeros
<1>2. QED
  BY <1>1, SpecInv, PTL

\* With any number of inner iterations, any number of steps and any options: a product
\* finds the matrix system set up, which is set up again only after its release; live
\* buffers alone are freed and dead ones alone allocated; and the end of the program
\* leaves neither buffers nor a matrix system (sparseSPMV, ~Solver_base_gpu, and
\* malloc_gpu_var and free_gpu_var in solver_base_gpu.cpp).
THEOREM LifetimesAlwaysMatch == Spec => []LifetimesMatch
<1>1. Inv => LifetimesMatch
  <2>1. SUFFICES ASSUME Inv
                 PROVE  LifetimesMatch
    OBVIOUS
  <2>2. CASE todo # <<>>
    <3>1. PICK a, b, op : op = Head1 /\ Meets(a) /\ Passes(a, op, b)
      BY <2>1, <2>2, AtHead
    <3>2. DOMAIN scratch = a.live /\ spmv = a.setup
      BY <3>1 DEF Meets
    <3>3. /\ op.kind = "compute" => a.setup
          /\ op.kind = "init_system" => ~a.setup
          /\ op.kind = "malloc" => op.writes \intersect a.live = {}
          /\ op.kind = "free" => op.writes \subseteq a.live
      BY <3>1 DEF Passes, DevicePasses, InitPasses, MallocPasses, FreePasses, DeviceKinds
    <3>4. QED
      BY <2>2, <3>1, <3>2, <3>3 DEF LifetimesMatch, Is
  <2>3. CASE todo = <<>>
    <3>1. PICK a : /\ Meets(a)
                   /\ phase = "loop" => \E setup \in BOOLEAN : a = Between(setup)
                   /\ phase = "end" => a = Bare
      BY <2>1, <2>3, RunsEnds DEF Inv
    <3>2. DOMAIN scratch = a.live /\ spmv = a.setup
      BY <3>1 DEF Meets
    <3>3. a.live \subseteq {"workspace"} /\ (phase = "end" => a.live = {} /\ ~a.setup)
      BY <2>1, <3>1 DEF Inv, Between, Bare, Known, Workspace
    <3>4. QED
      BY <2>3, <3>2, <3>3 DEF LifetimesMatch, Is
  <2>4. QED
    BY <2>2, <2>3
<1>2. QED
  BY <1>1, SpecInv, PTL
=============================================================================
