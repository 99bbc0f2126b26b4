------------------------ MODULE DemonstrationsProofs ------------------------
(***************************************************************************)
(* Proofs about Demonstrations, for any number of iterations: what the     *)
(* demonstrations print and copy is what their comments say.  The first    *)
(* part says where the operations of XpuDataSet leave the values of a data *)
(* set with memory on both sides; then each loop has an invariant with one *)
(* clause per statement.                                                   *)
(***************************************************************************)
EXTENDS Demonstrations, FiniteSetTheorems, SequenceTheorems, TLAPS

Fields == {"exists", "mapped", "size", "prot", "host", "instance",
           "cpu", "gpu", "buffer", "dev", "lost"}

\* a data set of these programs, which never resize one
Entry(d) == DOMAIN d = Fields /\ d.exists = TRUE /\ d.size = 1

\* it has memory on the device, which is not in the state of a resize
OnDevice(d) ==
    /\ Entry(d) /\ d.instance = TRUE
    /\ d.gpu \in {"UP_TO_DATE_WRITE", "UP_TO_DATE_READ", "OUT_OF_DATE"}
    /\ d.cpu \in {"UP_TO_DATE_WRITE", "UP_TO_DATE_READ", "OUT_OF_DATE", "TEMP_WRITE"}

-----------------------------------------------------------------------------
(* Data sets.                                                              *)

LEMMA FilledIs ==
    ASSUME NEW term
    PROVE  /\ Entry(Filled(term)) /\ Filled(term).host = term
           /\ Filled(term).instance = FALSE /\ Filled(term).prot = "rw"
           /\ Entry(NewDataSet(TRUE, 1)) /\ NewDataSet(TRUE, 1).instance = FALSE
BY DEF Filled, NewDataSet, Entry, Fields

LEMMA SetupOfNew ==
    ASSUME NEW d, Entry(d), d.instance = FALSE
    PROVE  /\ OnDevice(Setup(d))
           /\ Setup(d).cpu = "UP_TO_DATE_WRITE" /\ Setup(d).gpu = "OUT_OF_DATE"
           /\ Setup(d).prot = d.prot /\ Setup(d).host = d.host
<1>1. PICK s : s = [d EXCEPT !.instance = TRUE, !.cpu = "UP_TO_DATE_WRITE", !.gpu = "NOT_ALLOCATED"]
  OBVIOUS
<1>2. AllocateGpuInstance(d) = s
  BY <1>1 DEF AllocateGpuInstance, Entry
<1>3. /\ DOMAIN s = Fields /\ s.exists = TRUE /\ s.size = 1 /\ s.instance = TRUE
      /\ s.gpu = "NOT_ALLOCATED" /\ s.prot = d.prot /\ s.host = d.host
  BY <1>1 DEF Entry, Fields
<1>4. Setup(d) = AllocateGpuDataPtr(s)
  BY <1>2, <1>3 DEF Setup
<1>5. QED
  BY <1>3, <1>4 DEF AllocateGpuDataPtr, BufferOf, OnDevice, Entry, Fields

LEMMA SetupAgain ==
    ASSUME NEW d, OnDevice(d)
    PROVE  Setup(d) = d
BY DEF Setup, AllocateGpuInstance, OnDevice

LEMMA ToGpuOf ==
    ASSUME NEW d, OnDevice(d), NEW mode \in {"MOVE", "NOT_INITIALIZE", "READ_ONLY"}
    PROVE  LET e == TransferToGpu(d, mode)
           IN  /\ OnDevice(e) /\ e.host = d.host
               /\ e.cpu = CpuAfterToGpu(d, mode) /\ e.gpu = GpuAfterToGpu(d, mode)
               /\ e.prot = Rights(e)
               /\ e.dev = IF d.gpu = "OUT_OF_DATE" /\ mode # "NOT_INITIALIZE" THEN d.host ELSE d.dev
<1>1. PICK s : s = IF ToGpuPush(d, mode) THEN HostToDevice(d) ELSE d
  OBVIOUS
<1>2. /\ DOMAIN s = Fields /\ s.exists = TRUE /\ s.size = 1 /\ s.instance = TRUE
      /\ s.cpu = d.cpu /\ s.gpu = d.gpu /\ s.prot = d.prot /\ s.host = d.host
      /\ s.dev = IF d.gpu = "OUT_OF_DATE" /\ mode # "NOT_INITIALIZE" THEN d.host ELSE d.dev
  BY <1>1 DEF ToGpuPush, HostToDevice, OnDevice, Entry, Fields
<1>3. PICK t : t = ToGpuStatus(s, mode)
  OBVIOUS
<1>4. /\ CpuAfterToGpu(s, mode) = CpuAfterToGpu(d, mode)
      /\ GpuAfterToGpu(s, mode) = GpuAfterToGpu(d, mode)
  BY <1>2 DEF CpuAfterToGpu, GpuAfterToGpu
<1>5. /\ CpuAfterToGpu(d, mode) \in {"UP_TO_DATE_WRITE", "UP_TO_DATE_READ",
                                     "OUT_OF_DATE", "TEMP_WRITE"}
      /\ GpuAfterToGpu(d, mode) \in {"UP_TO_DATE_WRITE", "UP_TO_DATE_READ"}
  BY DEF CpuAfterToGpu, GpuAfterToGpu, OnDevice
<1>6. /\ DOMAIN t = Fields /\ t.exists = TRUE /\ t.size = 1 /\ t.instance = TRUE
      /\ t.cpu = CpuAfterToGpu(d, mode) /\ t.gpu = GpuAfterToGpu(d, mode)
      /\ t.prot = s.prot /\ t.host = s.host /\ t.dev = s.dev
  BY <1>2, <1>3, <1>4 DEF ToGpuStatus, Fields
<1>7. TransferToGpu(d, mode) = ProtectMData(t)
  BY <1>1, <1>3 DEF TransferToGpu, ToGpuPull, OnDevice
<1>8. PICK e : e = ProtectMData(t)
  OBVIOUS
<1>9. /\ DOMAIN e = Fields /\ e.exists = TRUE /\ e.size = 1 /\ e.instance = TRUE
      /\ e.cpu = t.cpu /\ e.gpu = t.gpu /\ e.host = t.host /\ e.dev = t.dev
      /\ e.prot = Rights(t)
  BY <1>6, <1>8 DEF ProtectMData, Fields
<1>10. Rights(e) = Rights(t)
  BY <1>5, <1>6, <1>9 DEF Rights
<1>11. QED
  BY <1>2, <1>5, <1>6, <1>7, <1>8, <1>9, <1>10 DEF OnDevice, Entry

LEMMA ToCpuOf ==
    ASSUME NEW d, OnDevice(d), NEW mode \in {"MOVE", "READ_ONLY", "COPY"}
    PROVE  LET e == TransferToCpu(d, mode)
           IN  /\ OnDevice(e) /\ e.dev = d.dev
               /\ e.cpu = CpuAfterToCpu(d, mode) /\ e.gpu = GpuAfterToCpu(d, mode)
               /\ e.prot = Rights(e)
               /\ e.host = IF d.cpu \in {"OUT_OF_DATE", "TEMP_WRITE"} THEN d.dev ELSE d.host
<1>1. PICK s : s = IF ToCpuPull(d, mode) THEN DeviceToHost(d) ELSE d
  OBVIOUS
<1>2. /\ DOMAIN s = Fields /\ s.exists = TRUE /\ s.size = 1 /\ s.instance = TRUE
      /\ s.cpu = d.cpu /\ s.gpu = d.gpu /\ s.prot = d.prot /\ s.dev = d.dev
      /\ s.host = IF d.cpu \in {"OUT_OF_DATE", "TEMP_WRITE"} THEN d.dev ELSE d.host
  BY <1>1 DEF ToCpuPull, DeviceToHost, OnDevice, Entry, Fields
<1>3. PICK t : t = ToCpuStatus(s, mode)
  OBVIOUS
<1>4. /\ CpuAfterToCpu(s, mode) = CpuAfterToCpu(d, mode)
      /\ GpuAfterToCpu(s, mode) = GpuAfterToCpu(d, mode)
  BY <1>2 DEF CpuAfterToCpu, GpuAfterToCpu
<1>5. /\ CpuAfterToCpu(d, mode) \in {"UP_TO_DATE_WRITE", "UP_TO_DATE_READ", "TEMP_WRITE"}
      /\ GpuAfterToCpu(d, mode) \in {"UP_TO_DATE_WRITE", "UP_TO_DATE_READ", "OUT_OF_DATE"}
  BY DEF CpuAfterToCpu, GpuAfterToCpu, OnDevice, UpToDate
<1>6. /\ DOMAIN t = Fields /\ t.exists = TRUE /\ t.size = 1 /\ t.instance = TRUE
      /\ t.cpu = CpuAfterToCpu(d, mode) /\ t.gpu = GpuAfterToCpu(d, mode)
      /\ t.prot = s.prot /\ t.host = s.host /\ t.dev = s.dev
  BY <1>2, <1>3, <1>4 DEF ToCpuStatus, Fields
<1>7. TransferToCpu(d, mode) = ProtectMData(t)
  BY <1>1, <1>3 DEF TransferToCpu, ToCpuPush, OnDevice
<1>8. PICK e : e = ProtectMData(t)
  OBVIOUS
<1>9. /\ DOMAIN e = Fields /\ e.exists = TRUE /\ e.size = 1 /\ e.instance = TRUE
      /\ e.cpu = t.cpu /\ e.gpu = t.gpu /\ e.host = t.host /\ e.dev = t.dev
      /\ e.prot = Rights(t)
  BY <1>6, <1>8 DEF ProtectMData, Fields
<1>10. Rights(e) = Rights(t)
  BY <1>5, <1>6, <1>9 DEF Rights
<1>11. QED
  BY <1>2, <1>5, <1>6, <1>7, <1>8, <1>9, <1>10 DEF OnDevice, Entry

LEMMA IterateNext ==
    ASSUME NEW k \in Nat
    PROVE  /\ Newton(Iterate(k)) = Iterate(k + 1)
           /\ F(Iterate(k)) = LastEvaluated(k + 1)
<1>1. Newton(Iterate(k)) = Iterate(k + 1)
  <2>1. PICK S : S = {"next", "x"}
    OBVIOUS
  <2>2. PICK a, b : a = [i \in 1..k |-> "next"] /\ b = [i \in 1..k + 1 |-> "next"]
    OBVIOUS
  <2>3. a \in Seq(S) /\ Len(a) = k /\ \A i \in 1..k : a[i] = "next"
    <3>1. a \in [1..k -> S]
      BY <2>1, <2>2
    <3>2. QED
      BY <2>2, <3>1
  <2>4. b \in Seq(S) /\ Len(b) = k + 1 /\ \A i \in 1..k + 1 : b[i] = "next"
    <3>1. b \in [1..k + 1 -> S] /\ k + 1 \in Nat
      BY <2>1, <2>2
    <3>2. QED
      BY <2>2, <3>1
  <2>5. PICK n, x : n = <<"next">> /\ x = <<"x">>
    OBVIOUS
  <2>6. n \in Seq(S) /\ Len(n) = 1 /\ n[1] = "next" /\ x \in Seq(S)
    BY <2>1, <2>5
  <2>7. PICK c : c = n \o a
    OBVIOUS
  <2>8. /\ c \in Seq(S) /\ Len(c) = 1 + k
        /\ \A i \in 1 .. 1 + k : c[i] = IF i <= 1 THEN n[i] ELSE a[i - 1]
    <3>1. /\ n \o a \in Seq(S) /\ Len(n \o a) = Len(n) + Len(a)
          /\ \A i \in 1 .. Len(n) + Len(a) :
                (n \o a)[i] = IF i <= Len(n) THEN n[i] ELSE a[i - Len(n)]
      BY <2>3, <2>6, ConcatProperties
    <3>2. QED
      BY <2>3, <2>6, <2>7, <3>1
  <2>9. ASSUME NEW i \in 1 .. Len(c)
        PROVE  c[i] = b[i]
    <3>1. i \in 1 .. 1 + k /\ i \in 1 .. k + 1
      BY <2>8
    <3>2. c[i] = "next"
      <4>1. CASE i <= 1
        BY <2>6, <2>8, <3>1, <4>1
      <4>2. CASE ~(i <= 1)
        <5>1. i - 1 \in 1 .. k
          BY <3>1, <4>2
        <5>2. QED
          BY <2>3, <2>8, <3>1, <4>2, <5>1
      <4>3. QED
        BY <4>1, <4>2
    <3>3. QED
      BY <2>4, <3>1, <3>2
  <2>10. c = b
    <3>1. Len(c) = Len(b)
      BY <2>4, <2>8
    <3>2. QED
      BY <2>4, <2>8, <2>9, <3>1, SeqEqual
  <2>11. c \o x = n \o (a \o x)
    BY <2>3, <2>6, <2>7, ConcatAssociative
  <2>12. QED
    BY <2>2, <2>5, <2>7, <2>10, <2>11 DEF Newton, Iterate, First
<1>2. k + 1 # 0 /\ (k + 1) - 1 = k
  OBVIOUS
<1>3. QED
  BY <1>1, <1>2 DEF LastEvaluated

LEMMA IterateFirst == Iterate(0) = First("x") /\ LastEvaluated(0) = F(First("x"))
<1>1. [i \in 1..0 |-> "next"] = <<>>
  OBVIOUS
<1>2. <<>> \o <<"x">> = <<"x">>
  OBVIOUS
<1>3. QED
  BY <1>1, <1>2 DEF Iterate, First, LastEvaluated

-----------------------------------------------------------------------------
(* The framework as the programs use it.                                   *)

\* no memory on the device yet, and these values
New(d, term) == Entry(d) /\ d.instance = FALSE /\ d.host = term

\* memory on both sides, in these states
Is(d, cpu, gpu) == OnDevice(d) /\ d.cpu = cpu /\ d.gpu = gpu /\ d.prot = Rights(d)

LEMMA StoredByKernel ==
    ASSUME NEW d, OnDevice(d), NEW term
    PROVE  LET e == [d EXCEPT !.dev = term]
           IN  /\ OnDevice(e) /\ e.cpu = d.cpu /\ e.gpu = d.gpu /\ e.prot = d.prot
               /\ e.host = d.host /\ e.dev = term /\ Rights(e) = Rights(d)
BY DEF OnDevice, Entry, Fields, Rights

LEMMA StoredByHost ==
    ASSUME NEW d, OnDevice(d), NEW term
    PROVE  LET e == HostStore(d, term)
           IN  /\ OnDevice(e) /\ e.cpu = d.cpu /\ e.gpu = d.gpu /\ e.prot = d.prot
               /\ e.host = term /\ e.dev = d.dev /\ Rights(e) = Rights(d)
BY DEF HostStore, OnDevice, Entry, Fields, Rights

\* the pages answer an access unless the status of the CPU forbids it
LEMMA RightsAre ==
    ASSUME NEW d, OnDevice(d), d.prot = Rights(d)
    PROVE  /\ Loadable(d) <=> d.cpu # "OUT_OF_DATE"
           /\ Storable(d) <=> d.cpu \in {"UP_TO_DATE_WRITE", "TEMP_WRITE"}
BY DEF Loadable, Storable, Rights, OnDevice

LEMMA ReadyOnDevice ==
    ASSUME NEW d, OnDevice(d) \/ (Entry(d) /\ d.instance = FALSE)
    PROVE  OnDevice(Setup(d))
BY SetupAgain, SetupOfNew

LEMMA ToGpuAt ==
    ASSUME NEW mode
    PROVE  /\ DOMAIN ToGpu(mode) = DOMAIN ds
           /\ \A v \in DOMAIN ds :
                 ToGpu(mode)[v] = IF v \in DOMAIN mode THEN TransferToGpu(Setup(ds[v]), mode[v])
                                                       ELSE ds[v]
BY DEF ToGpu

-----------------------------------------------------------------------------
(* The Newton iterations.                                                  *)

NewtonNames == {"x", "x_prev", "fx", "err_nrm"}

NewtonPcs == {"compute_error_norm", "while", "set_x_prev", "write_last", "copy_fx",
              "compute_x_n_plus_1", "submitted", "write_output", "move_fx",
              "gpu_barrier", "done"}

Before ==
    /\ stream = <<>> /\ iter = 0
    /\ New(ds["x"], First("x")) /\ New(ds["fx"], F(First("x")))
    /\ Entry(ds["x_prev"]) /\ ds["x_prev"].instance = FALSE
    /\ Entry(ds["err_nrm"]) /\ ds["err_nrm"].instance = FALSE

\* an iteration is over: the device holds the next x, and f at the one before
Again ==
    /\ stream = <<>>
    /\ OnDevice(ds["x"]) /\ ds["x"].gpu = "UP_TO_DATE_WRITE" /\ ds["x"].dev = Iterate(iter + 1)
    /\ OnDevice(ds["x_prev"]) /\ ds["x_prev"].gpu = "UP_TO_DATE_READ"
    /\ Is(ds["fx"], "TEMP_WRITE", "UP_TO_DATE_WRITE") /\ ds["fx"].dev = F(Iterate(iter))
    /\ Is(ds["err_nrm"], "UP_TO_DATE_WRITE", "OUT_OF_DATE")

\* at the test of the loop
XKnown ==
    \/ iter = 0 /\ New(ds["x"], First("x"))
    \/ /\ OnDevice(ds["x"]) /\ ds["x"].gpu = "UP_TO_DATE_WRITE"
       /\ ds["x"].dev = Iterate(iter)
XPrevKnown ==
    OnDevice(ds["x_prev"]) \/ (Entry(ds["x_prev"]) /\ ds["x_prev"].instance = FALSE)
FxRead ==
    /\ ds["fx"].dev = LastEvaluated(iter)
    /\ \/ Is(ds["fx"], "TEMP_WRITE", "UP_TO_DATE_READ")
       \/ /\ Is(ds["fx"], "UP_TO_DATE_READ", "UP_TO_DATE_READ")
          /\ ds["fx"].host = LastEvaluated(iter)

\* the host has read the error
ErrorRead ==
    /\ Is(ds["err_nrm"], "UP_TO_DATE_WRITE", "OUT_OF_DATE")
    /\ ds["err_nrm"].host = Norm(LastEvaluated(iter))

\* x_prev has become x
Stepped ==
    /\ stream = <<>>
    /\ OnDevice(ds["x"]) /\ ds["x"].gpu = "UP_TO_DATE_WRITE" /\ ds["x"].dev = Iterate(iter)
    /\ OnDevice(ds["x_prev"]) /\ ds["x_prev"].gpu = "UP_TO_DATE_WRITE"
    /\ ds["x_prev"].dev = Iterate(iter)
    /\ ErrorRead

\* the kernel is submitted, and has run or not
Launched ==
    /\ OnDevice(ds["x"]) /\ ds["x"].gpu = "UP_TO_DATE_WRITE"
    /\ OnDevice(ds["x_prev"]) /\ ds["x_prev"].gpu = "UP_TO_DATE_READ"
    /\ ds["x_prev"].dev = Iterate(iter)
    /\ Is(ds["fx"], "TEMP_WRITE", "UP_TO_DATE_WRITE")
    /\ ErrorRead
    /\ \/ stream = <<"kg_compute_x_n_plus_1">>
       \/ /\ stream = <<>>
          /\ ds["x"].dev = Iterate(iter + 1) /\ ds["fx"].dev = F(Iterate(iter))

NewtonInv ==
    Iterating =>
        /\ DOMAIN ds = NewtonNames /\ iter \in Nat /\ pc \in NewtonPcs
        /\ pc = "compute_error_norm" => Before \/ Again
        /\ pc = "while" =>
               /\ stream = <<>> /\ XKnown /\ XPrevKnown /\ FxRead
               /\ Is(ds["err_nrm"], "OUT_OF_DATE", "UP_TO_DATE_WRITE")
               /\ ds["err_nrm"].dev = Norm(LastEvaluated(iter))
        /\ pc = "set_x_prev" => stream = <<>> /\ XKnown /\ XPrevKnown /\ FxRead /\ ErrorRead
        /\ pc = "copy_fx" => Stepped /\ FxRead
        /\ pc = "compute_x_n_plus_1" =>
               /\ Stepped
               /\ Is(ds["fx"], "TEMP_WRITE", "UP_TO_DATE_READ")
               /\ ds["fx"].host = LastEvaluated(iter)
        /\ pc \in {"submitted", "write_output", "move_fx", "gpu_barrier"} => Launched
        /\ pc \in {"submitted", "write_output"} => ds["fx"].host = LastEvaluated(iter)
        /\ pc = "move_fx" => shown = <<Norm(LastEvaluated(iter)), LastEvaluated(iter)>>

-----------------------------------------------------------------------------
(* The stages of the porting scenario.                                     *)

StageNames == {"P", "V", "T"}

StagePcs == {"set_P", "set_P_done", "update_T", "update_T_done", "update_V",
             "update_V_done", "done"}

AfterP ==
    /\ Is(ds["P"], "OUT_OF_DATE", "UP_TO_DATE_WRITE")
    /\ Is(ds["V"], "UP_TO_DATE_READ", "UP_TO_DATE_READ")
    /\ Is(ds["T"], "UP_TO_DATE_READ", "UP_TO_DATE_READ")

AfterT ==
    /\ Is(ds["P"], "UP_TO_DATE_READ", "UP_TO_DATE_READ")
    /\ Is(ds["V"], "UP_TO_DATE_READ", "UP_TO_DATE_READ")
    /\ Is(ds["T"], "UP_TO_DATE_WRITE", "OUT_OF_DATE")

StagesInv ==
    ~Iterating =>
        /\ DOMAIN ds = StageNames /\ pc \in StagePcs
        /\ pc = "set_P" =>
               /\ copies = NoCopies
               /\ \A v \in StageNames : Entry(ds[v]) /\ ds[v].instance = FALSE
        /\ pc \in {"set_P_done", "update_T"} => AfterP
        /\ pc \in {"update_T_done", "update_V"} => AfterT
        /\ pc = "update_V" => copies = NoCopies
        /\ CopiesAsDocumented

-----------------------------------------------------------------------------
(* One step of the Newton iterations.                                      *)

LEMMA NewtonStart == Init => NewtonInv
<1>1. SUFFICES ASSUME Init, Iterating
               PROVE  NewtonInv
  BY DEF NewtonInv
<1>2. PICK d : d = [x |-> Filled(First("x")), x_prev |-> NewDataSet(TRUE, 1),
                    fx |-> Filled(F(First("x"))), err_nrm |-> Filled(First("0"))]
  OBVIOUS
<1>3. ds = d
  BY <1>1, <1>2 DEF Init
<1>4. /\ DOMAIN d = NewtonNames
      /\ d["x"] = Filled(First("x")) /\ d["x_prev"] = NewDataSet(TRUE, 1)
      /\ d["fx"] = Filled(F(First("x"))) /\ d["err_nrm"] = Filled(First("0"))
  BY <1>2 DEF NewtonNames
<1>5. pc = "compute_error_norm" /\ iter = 0 /\ stream = <<>>
  BY <1>1 DEF Init
<1>6. Before
  BY <1>3, <1>4, <1>5, FilledIs DEF Before, New
<1>7. QED
  BY <1>3, <1>4, <1>5, <1>6 DEF NewtonInv, NewtonPcs

LEMMA NewtonNorm ==
    ASSUME NewtonInv, ComputeErrorNorm, Iterating
    PROVE  NewtonInv'
<1>1. /\ pc = "compute_error_norm" /\ pc' = "while" /\ stream = <<>>
      /\ UNCHANGED <<program, stream, shown>>
      /\ iter' = IF ds["x_prev"].instance THEN iter + 1 ELSE iter
  BY DEF ComputeErrorNorm, Goto
<1>2. /\ DOMAIN ds = NewtonNames /\ iter \in Nat /\ (Before \/ Again)
  BY <1>1 DEF NewtonInv
<1>3. PICK mode : mode = [err_nrm |-> "NOT_INITIALIZE", fx |-> "READ_ONLY"]
  OBVIOUS
<1>4. PICK g : g = ToGpu(mode)
  OBVIOUS
<1>5. ds' = [g EXCEPT !.err_nrm.dev = Norm(g["fx"].dev)]
  BY <1>3, <1>4 DEF ComputeErrorNorm
<1>6. /\ DOMAIN g = NewtonNames /\ g["x"] = ds["x"] /\ g["x_prev"] = ds["x_prev"]
      /\ g["fx"] = TransferToGpu(Setup(ds["fx"]), "READ_ONLY")
      /\ g["err_nrm"] = TransferToGpu(Setup(ds["err_nrm"]), "NOT_INITIALIZE")
  <2>1. /\ DOMAIN mode = {"err_nrm", "fx"}
        /\ mode["err_nrm"] = "NOT_INITIALIZE" /\ mode["fx"] = "READ_ONLY"
    BY <1>3
  <2>2. /\ DOMAIN g = NewtonNames
        /\ \A v \in NewtonNames :
              g[v] = IF v \in DOMAIN mode THEN TransferToGpu(Setup(ds[v]), mode[v]) ELSE ds[v]
    BY <1>2, <1>4, ToGpuAt
  <2>3. {"x", "x_prev", "fx", "err_nrm"} \subseteq NewtonNames
    BY DEF NewtonNames
  <2>4. g["x"] = ds["x"] /\ g["x_prev"] = ds["x_prev"]
    BY <2>1, <2>2, <2>3
  <2>5. g["fx"] = TransferToGpu(Setup(ds["fx"]), "READ_ONLY")
    BY <2>1, <2>2, <2>3
  <2>6. g["err_nrm"] = TransferToGpu(Setup(ds["err_nrm"]), "NOT_INITIALIZE")
    BY <2>1, <2>2, <2>3
  <2>7. QED
    BY <2>2, <2>4, <2>5, <2>6
<1>7. /\ DOMAIN ds' = NewtonNames /\ ds'["x"] = ds["x"] /\ ds'["x_prev"] = ds["x_prev"]
      /\ ds'["fx"] = g["fx"]
      /\ ds'["err_nrm"] = [g["err_nrm"] EXCEPT !.dev = Norm(g["fx"].dev)]
  BY <1>5, <1>6 DEF NewtonNames
<1>8. /\ XKnown' /\ XPrevKnown' /\ iter' \in Nat
  <2>1. CASE Before
    BY <1>1, <1>2, <1>7, <2>1 DEF Before, XKnown, XPrevKnown, Entry
  <2>2. CASE Again
    <3>1. iter' = iter + 1 /\ iter + 1 \in Nat
      BY <1>1, <1>2, <2>2 DEF Again, OnDevice
    <3>2. PICK n : n = iter + 1
      OBVIOUS
    <3>3. /\ OnDevice(ds["x"]) /\ ds["x"].gpu = "UP_TO_DATE_WRITE" /\ ds["x"].dev = Iterate(n)
          /\ OnDevice(ds["x_prev"])
      BY <2>2, <3>2 DEF Again
    <3>4. XKnown'
      BY <1>7, <3>1, <3>2, <3>3 DEF XKnown
    <3>5. XPrevKnown'
      BY <1>7, <3>3 DEF XPrevKnown
    <3>6. QED
      BY <3>1, <3>4, <3>5
  <2>3. QED
    BY <1>2, <2>1, <2>2
<1>9. FxRead'
  <2>1. CASE Before
    <3>1. PICK s : s = Setup(ds["fx"])
      OBVIOUS
    <3>2. /\ OnDevice(s) /\ s.cpu = "UP_TO_DATE_WRITE" /\ s.gpu = "OUT_OF_DATE"
          /\ s.host = F(First("x"))
      BY <2>1, <3>1, SetupOfNew DEF Before, New
    <3>3. PICK e : e = TransferToGpu(s, "READ_ONLY")
      OBVIOUS
    <3>4. /\ OnDevice(e) /\ e.host = s.host /\ e.dev = s.host /\ e.prot = Rights(e)
          /\ e.cpu = "UP_TO_DATE_READ" /\ e.gpu = "UP_TO_DATE_READ"
      BY <3>2, <3>3, ToGpuOf DEF CpuAfterToGpu, GpuAfterToGpu
    <3>5. ds'["fx"] = e
      BY <1>6, <1>7, <3>1, <3>3
    <3>6. iter' = 0
      BY <1>1, <2>1 DEF Before
    <3>7. QED
      BY <3>2, <3>4, <3>5, <3>6, IterateFirst DEF FxRead, Is
  <2>2. CASE Again
    <3>1. PICK s : s = ds["fx"]
      OBVIOUS
    <3>2. /\ OnDevice(s) /\ s.cpu = "TEMP_WRITE" /\ s.gpu = "UP_TO_DATE_WRITE"
          /\ s.dev = F(Iterate(iter)) /\ Setup(s) = s
      BY <2>2, <3>1, SetupAgain DEF Again, Is
    <3>3. PICK e : e = TransferToGpu(s, "READ_ONLY")
      OBVIOUS
    <3>4. /\ OnDevice(e) /\ e.dev = s.dev /\ e.prot = Rights(e)
          /\ e.cpu = "TEMP_WRITE" /\ e.gpu = "UP_TO_DATE_READ"
      BY <3>2, <3>3, ToGpuOf DEF CpuAfterToGpu, GpuAfterToGpu
    <3>5. ds'["fx"] = e
      BY <1>6, <1>7, <3>1, <3>2, <3>3
    <3>6. iter' = iter + 1
      BY <1>1, <2>2 DEF Again, OnDevice
    <3>7. e.dev = LastEvaluated(iter')
      <4>1. PICK n \in Nat : n = iter
        BY <1>2
      <4>2. F(Iterate(n)) = LastEvaluated(n + 1)
        BY IterateNext
      <4>3. QED
        BY <3>2, <3>4, <3>6, <4>1, <4>2
    <3>8. QED
      BY <3>4, <3>5, <3>7 DEF FxRead, Is
  <2>3. QED
    BY <1>2, <2>1, <2>2
<1>10. /\ Is(ds'["err_nrm"], "OUT_OF_DATE", "UP_TO_DATE_WRITE")
       /\ ds'["err_nrm"].dev = Norm(LastEvaluated(iter'))
  <2>1. PICK s : s = Setup(ds["err_nrm"])
    OBVIOUS
  <2>2. OnDevice(s) /\ s.cpu = "UP_TO_DATE_WRITE"
    <3>1. CASE Before
      BY <2>1, <3>1, SetupOfNew DEF Before
    <3>2. CASE Again
      BY <2>1, <3>2, SetupAgain DEF Again, Is
    <3>3. QED
      BY <1>2, <3>1, <3>2
  <2>3. PICK e : e = TransferToGpu(s, "NOT_INITIALIZE")
    OBVIOUS
  <2>4. /\ OnDevice(e) /\ e.prot = Rights(e)
        /\ e.cpu = "OUT_OF_DATE" /\ e.gpu = "UP_TO_DATE_WRITE"
    BY <2>2, <2>3, ToGpuOf DEF CpuAfterToGpu, GpuAfterToGpu
  <2>5. PICK n : n = [e EXCEPT !.dev = Norm(g["fx"].dev)]
    OBVIOUS
  <2>6. Is(n, "OUT_OF_DATE", "UP_TO_DATE_WRITE") /\ n.dev = Norm(g["fx"].dev)
    BY <2>4, <2>5, StoredByKernel DEF Is
  <2>7. ds'["err_nrm"] = n
    BY <1>6, <1>7, <2>1, <2>3, <2>5
  <2>8. g["fx"].dev = LastEvaluated(iter')
    BY <1>7, <1>9 DEF FxRead
  <2>9. QED
    BY <2>6, <2>7, <2>8
<1>11. QED
  BY <1>1, <1>7, <1>8, <1>9, <1>10 DEF NewtonInv, NewtonPcs

LEMMA NewtonTest ==
    ASSUME NewtonInv, While, Iterating
    PROVE  NewtonInv'
<1>1. /\ pc = "while" /\ pc' \in {"set_x_prev", "write_last"}
      /\ ds' = [ds EXCEPT !.err_nrm = Loaded(@, FALSE)]
      /\ UNCHANGED <<program, stream, iter, shown>>
  BY DEF While, Goto
<1>2. /\ DOMAIN ds = NewtonNames /\ iter \in Nat
      /\ stream = <<>> /\ XKnown /\ XPrevKnown /\ FxRead
      /\ Is(ds["err_nrm"], "OUT_OF_DATE", "UP_TO_DATE_WRITE")
      /\ ds["err_nrm"].dev = Norm(LastEvaluated(iter))
  BY <1>1 DEF NewtonInv
<1>3. /\ DOMAIN ds' = NewtonNames /\ ds'["x"] = ds["x"] /\ ds'["x_prev"] = ds["x_prev"]
      /\ ds'["fx"] = ds["fx"] /\ ds'["err_nrm"] = Loaded(ds["err_nrm"], FALSE)
  BY <1>1, <1>2 DEF NewtonNames
<1>4. PICK d : d = ds["err_nrm"]
  OBVIOUS
<1>5. /\ OnDevice(d) /\ d.cpu = "OUT_OF_DATE" /\ d.gpu = "UP_TO_DATE_WRITE" /\ ~Loadable(d)
  BY <1>2, <1>4, RightsAre DEF Is
<1>6. PICK e : e = TransferToCpu(d, "MOVE")
  OBVIOUS
<1>7. /\ OnDevice(e) /\ e.prot = Rights(e) /\ e.host = d.dev
      /\ e.cpu = "UP_TO_DATE_WRITE" /\ e.gpu = "OUT_OF_DATE"
  BY <1>5, <1>6, ToCpuOf DEF CpuAfterToCpu, GpuAfterToCpu, UpToDate
<1>8. ds'["err_nrm"] = e
  BY <1>3, <1>4, <1>5, <1>6 DEF Loaded, FaultTransfer
<1>9. ErrorRead'
  BY <1>1, <1>2, <1>4, <1>7, <1>8 DEF ErrorRead, Is
<1>10. XKnown' /\ XPrevKnown' /\ FxRead'
  BY <1>1, <1>2, <1>3 DEF XKnown, XPrevKnown, FxRead
<1>11. QED
  BY <1>1, <1>2, <1>3, <1>9, <1>10 DEF NewtonInv, NewtonPcs

LEMMA NewtonXPrev ==
    ASSUME NewtonInv, SetXPrev, Iterating
    PROVE  NewtonInv'
<1>1. /\ pc = "set_x_prev" /\ pc' = "copy_fx" /\ UNCHANGED <<program, stream, iter, shown>>
  BY DEF SetXPrev, Goto
<1>2. /\ DOMAIN ds = NewtonNames /\ iter \in Nat
      /\ stream = <<>> /\ XKnown /\ XPrevKnown /\ FxRead /\ ErrorRead
  BY <1>1 DEF NewtonInv
<1>3. PICK source : source = IF ~ds["x"].instance THEN [x |-> "MOVE"]
                             ELSE IF ds["x"].gpu \in UpToDate THEN [v \in {} |-> "MOVE"]
                             ELSE [x |-> "READ_ONLY"]
  OBVIOUS
<1>4. PICK g : g = ToGpu(source)
  OBVIOUS
<1>5. PICK ready : ready = [g EXCEPT !.x_prev = TransferToGpu(Setup(@), "NOT_INITIALIZE")]
  OBVIOUS
<1>6. ds' = [ready EXCEPT !.x_prev.dev = ready["x"].dev]
  BY <1>3, <1>4, <1>5 DEF SetXPrev
<1>7. DOMAIN source \subseteq {"x"}
  BY <1>3
<1>8. /\ DOMAIN g = NewtonNames /\ g["x_prev"] = ds["x_prev"]
      /\ g["fx"] = ds["fx"] /\ g["err_nrm"] = ds["err_nrm"]
      /\ g["x"] = IF "x" \in DOMAIN source THEN TransferToGpu(Setup(ds["x"]), source["x"])
                                            ELSE ds["x"]
  BY <1>2, <1>4, <1>7, ToGpuAt DEF NewtonNames
<1>9. /\ DOMAIN ds' = NewtonNames /\ ds'["x"] = g["x"] /\ ds'["fx"] = ds["fx"]
      /\ ds'["err_nrm"] = ds["err_nrm"]
      /\ ds'["x_prev"] = [TransferToGpu(Setup(ds["x_prev"]), "NOT_INITIALIZE")
                             EXCEPT !.dev = g["x"].dev]
  BY <1>5, <1>6, <1>8 DEF NewtonNames
<1>10. /\ OnDevice(ds'["x"]) /\ ds'["x"].gpu = "UP_TO_DATE_WRITE"
       /\ ds'["x"].dev = Iterate(iter)
  <2>1. CASE iter = 0 /\ New(ds["x"], First("x"))
    <3>1. PICK s : s = Setup(ds["x"])
      OBVIOUS
    <3>2. OnDevice(s) /\ s.gpu = "OUT_OF_DATE" /\ s.host = First("x")
      BY <2>1, <3>1, SetupOfNew DEF New
    <3>3. PICK e : e = TransferToGpu(s, "MOVE")
      OBVIOUS
    <3>4. OnDevice(e) /\ e.gpu = "UP_TO_DATE_WRITE" /\ e.dev = First("x")
      BY <3>2, <3>3, ToGpuOf DEF GpuAfterToGpu
    <3>5. g["x"] = e
      BY <1>3, <1>8, <2>1, <3>1, <3>3 DEF New
    <3>6. QED
      BY <1>9, <2>1, <3>4, <3>5, IterateFirst
  <2>2. CASE /\ OnDevice(ds["x"]) /\ ds["x"].gpu = "UP_TO_DATE_WRITE"
             /\ ds["x"].dev = Iterate(iter)
    <3>1. "x" \notin DOMAIN source
      BY <1>3, <2>2 DEF OnDevice, UpToDate
    <3>2. QED
      BY <1>8, <1>9, <2>2, <3>1
  <2>3. QED
    BY <1>2, <2>1, <2>2 DEF XKnown
<1>11. /\ OnDevice(ds'["x_prev"]) /\ ds'["x_prev"].gpu = "UP_TO_DATE_WRITE"
       /\ ds'["x_prev"].dev = Iterate(iter)
  <2>1. PICK s : s = Setup(ds["x_prev"])
    OBVIOUS
  <2>2. OnDevice(s)
    BY <1>2, <2>1, ReadyOnDevice DEF XPrevKnown
  <2>3. PICK e : e = TransferToGpu(s, "NOT_INITIALIZE")
    OBVIOUS
  <2>4. OnDevice(e) /\ e.gpu = "UP_TO_DATE_WRITE"
    BY <2>2, <2>3, ToGpuOf DEF GpuAfterToGpu
  <2>5. PICK n : n = [e EXCEPT !.dev = g["x"].dev]
    OBVIOUS
  <2>6. OnDevice(n) /\ n.gpu = "UP_TO_DATE_WRITE" /\ n.dev = g["x"].dev
    BY <2>4, <2>5, StoredByKernel
  <2>7. ds'["x_prev"] = n
    BY <1>9, <2>1, <2>3, <2>5
  <2>8. QED
    BY <1>9, <1>10, <2>6, <2>7
<1>12. Stepped' /\ FxRead'
  BY <1>1, <1>2, <1>9, <1>10, <1>11 DEF Stepped, FxRead, ErrorRead
<1>13. QED
  BY <1>1, <1>2, <1>9, <1>12 DEF NewtonInv, NewtonPcs

LEMMA NewtonScratch ==
    ASSUME NewtonInv, CopyFx, Iterating
    PROVE  NewtonInv'
<1>1. /\ pc = "copy_fx" /\ pc' = "compute_x_n_plus_1"
      /\ UNCHANGED <<program, stream, iter, shown>>
      /\ ds' = [ds EXCEPT !.fx = TransferToCpu(@, "COPY")]
  BY DEF CopyFx, Goto
<1>2. DOMAIN ds = NewtonNames /\ iter \in Nat /\ Stepped /\ FxRead
  BY <1>1 DEF NewtonInv
<1>3. /\ DOMAIN ds' = NewtonNames /\ ds'["x"] = ds["x"] /\ ds'["x_prev"] = ds["x_prev"]
      /\ ds'["err_nrm"] = ds["err_nrm"] /\ ds'["fx"] = TransferToCpu(ds["fx"], "COPY")
  BY <1>1, <1>2 DEF NewtonNames
<1>4. PICK d : d = ds["fx"]
  OBVIOUS
<1>5. /\ OnDevice(d) /\ d.gpu = "UP_TO_DATE_READ" /\ d.dev = LastEvaluated(iter)
      /\ \/ d.cpu = "TEMP_WRITE"
         \/ d.cpu = "UP_TO_DATE_READ" /\ d.host = LastEvaluated(iter)
  BY <1>2, <1>4 DEF FxRead, Is
<1>6. PICK e : e = TransferToCpu(d, "COPY")
  OBVIOUS
<1>7. /\ OnDevice(e) /\ e.prot = Rights(e) /\ e.host = LastEvaluated(iter)
      /\ e.cpu = "TEMP_WRITE" /\ e.gpu = "UP_TO_DATE_READ"
  BY <1>5, <1>6, ToCpuOf DEF CpuAfterToCpu, GpuAfterToCpu
<1>8. ds'["fx"] = e
  BY <1>3, <1>4, <1>6
<1>9. /\ Is(ds'["fx"], "TEMP_WRITE", "UP_TO_DATE_READ")
      /\ ds'["fx"].host = LastEvaluated(iter')
  BY <1>1, <1>7, <1>8 DEF Is
<1>10. Stepped'
  BY <1>1, <1>2, <1>3 DEF Stepped, ErrorRead
<1>11. QED
  BY <1>1, <1>2, <1>3, <1>9, <1>10 DEF NewtonInv, NewtonPcs

LEMMA NewtonSubmit ==
    ASSUME NewtonInv, ComputeXNPlus1, Iterating
    PROVE  NewtonInv'
<1>1. /\ pc = "compute_x_n_plus_1" /\ pc' \in {"write_output", "submitted"}
      /\ UNCHANGED <<program, iter, shown>>
      /\ Submit("kg_compute_x_n_plus_1", {"x", "fx"}, {"x_prev"})
  BY DEF ComputeXNPlus1, Goto
<1>2. /\ DOMAIN ds = NewtonNames /\ iter \in Nat /\ Stepped
      /\ Is(ds["fx"], "TEMP_WRITE", "UP_TO_DATE_READ")
      /\ ds["fx"].host = LastEvaluated(iter)
  BY <1>1 DEF NewtonInv
<1>3. PICK mode : mode = ArgumentModes({"x", "fx"}, {"x_prev"})
  OBVIOUS
<1>4. /\ DOMAIN mode = {"x", "fx", "x_prev"}
      /\ mode["x"] = "MOVE" /\ mode["fx"] = "MOVE" /\ mode["x_prev"] = "READ_ONLY"
  BY <1>3 DEF ArgumentModes
<1>5. ds' = ToGpu(mode) /\ stream' = Append(stream, "kg_compute_x_n_plus_1")
  BY <1>1, <1>3 DEF Submit
<1>6. /\ DOMAIN ds' = NewtonNames
      /\ \A v \in NewtonNames :
            ds'[v] = IF v \in DOMAIN mode THEN TransferToGpu(Setup(ds[v]), mode[v]) ELSE ds[v]
  BY <1>2, <1>5, ToGpuAt
<1>7. {"x", "x_prev", "fx", "err_nrm"} \subseteq NewtonNames
  BY DEF NewtonNames
<1>8. ds'["err_nrm"] = ds["err_nrm"]
  BY <1>4, <1>6, <1>7
<1>9. stream' = <<"kg_compute_x_n_plus_1">>
  BY <1>2, <1>5 DEF Stepped
<1>10. OnDevice(ds'["x"]) /\ ds'["x"].gpu = "UP_TO_DATE_WRITE"
  <2>1. PICK d : d = ds["x"]
    OBVIOUS
  <2>2. OnDevice(d) /\ Setup(d) = d
    BY <1>2, <2>1, SetupAgain DEF Stepped
  <2>3. PICK e : e = TransferToGpu(d, "MOVE")
    OBVIOUS
  <2>4. OnDevice(e) /\ e.gpu = "UP_TO_DATE_WRITE"
    BY <2>2, <2>3, ToGpuOf DEF GpuAfterToGpu
  <2>5. ds'["x"] = e
    BY <1>4, <1>6, <1>7, <2>1, <2>2, <2>3
  <2>6. QED
    BY <2>4, <2>5
<1>11. /\ OnDevice(ds'["x_prev"]) /\ ds'["x_prev"].gpu = "UP_TO_DATE_READ"
       /\ ds'["x_prev"].dev = Iterate(iter)
  <2>1. PICK d : d = ds["x_prev"]
    OBVIOUS
  <2>2. /\ OnDevice(d) /\ Setup(d) = d /\ d.gpu = "UP_TO_DATE_WRITE"
        /\ d.dev = Iterate(iter)
    BY <1>2, <2>1, SetupAgain DEF Stepped
  <2>3. PICK e : e = TransferToGpu(d, "READ_ONLY")
    OBVIOUS
  <2>4. OnDevice(e) /\ e.gpu = "UP_TO_DATE_READ" /\ e.dev = d.dev
    BY <2>2, <2>3, ToGpuOf DEF GpuAfterToGpu
  <2>5. ds'["x_prev"] = e
    BY <1>4, <1>6, <1>7, <2>1, <2>2, <2>3
  <2>6. QED
    BY <2>2, <2>4, <2>5
<1>12. /\ Is(ds'["fx"], "TEMP_WRITE", "UP_TO_DATE_WRITE")
       /\ ds'["fx"].host = LastEvaluated(iter)
  <2>1. PICK d : d = ds["fx"]
    OBVIOUS
  <2>2. /\ OnDevice(d) /\ Setup(d) = d /\ d.cpu = "TEMP_WRITE"
        /\ d.host = LastEvaluated(iter)
    BY <1>2, <2>1, SetupAgain DEF Is
  <2>3. PICK e : e = TransferToGpu(d, "MOVE")
    OBVIOUS
  <2>4. /\ OnDevice(e) /\ e.gpu = "UP_TO_DATE_WRITE" /\ e.cpu = "TEMP_WRITE"
        /\ e.prot = Rights(e) /\ e.host = d.host
    BY <2>2, <2>3, ToGpuOf DEF CpuAfterToGpu, GpuAfterToGpu
  <2>5. ds'["fx"] = e
    BY <1>4, <1>6, <1>7, <2>1, <2>2, <2>3
  <2>6. QED
    BY <2>2, <2>4, <2>5 DEF Is
<1>13. ErrorRead'
  BY <1>1, <1>2, <1>8 DEF Stepped, ErrorRead
<1>14. Launched'
  BY <1>1, <1>9, <1>10, <1>11, <1>12, <1>13 DEF Launched
<1>15. QED
  BY <1>1, <1>2, <1>6, <1>12, <1>14 DEF NewtonInv, NewtonPcs

LEMMA NewtonWait ==
    ASSUME NewtonInv, Submitted \/ GpuBarrier, Iterating
    PROVE  NewtonInv'
<1>1. /\ \/ pc = "submitted" /\ pc' = "write_output"
         \/ pc = "gpu_barrier" /\ pc' = "compute_error_norm"
      /\ stream = <<>> /\ UNCHANGED <<program, ds, stream, iter, shown>>
  BY DEF Submitted, GpuBarrier, Goto
<1>2. DOMAIN ds = NewtonNames /\ iter \in Nat /\ Launched
  BY <1>1 DEF NewtonInv
<1>3. CASE pc = "submitted"
  <2>1. Launched' /\ ds'["fx"].host = LastEvaluated(iter')
    BY <1>1, <1>2, <1>3 DEF Launched, ErrorRead, NewtonInv
  <2>2. QED
    BY <1>1, <1>2, <1>3, <2>1 DEF NewtonInv, NewtonPcs
<1>4. CASE pc = "gpu_barrier"
  <2>1. stream # <<"kg_compute_x_n_plus_1">>
    BY <1>1
  <2>2. Again'
    BY <1>1, <1>2, <2>1 DEF Launched, ErrorRead, Again
  <2>3. QED
    BY <1>1, <1>2, <1>4, <2>2 DEF NewtonInv, NewtonPcs
<1>5. QED
  BY <1>1, <1>3, <1>4

LEMMA NewtonOutput ==
    ASSUME NewtonInv, WriteOutput, Iterating
    PROVE  NewtonInv'
<1>1. PICK fx, err : fx = Loaded(ds["fx"], FALSE) /\ err = Loaded(ds["err_nrm"], FALSE)
  OBVIOUS
<1>2. /\ \/ pc = "write_output" /\ pc' = "move_fx"
         \/ pc = "write_last" /\ pc' = "done"
      /\ ds' = [ds EXCEPT !.fx = Stored(fx, Scaled(fx.host)), !.err_nrm = err]
      /\ shown' = IF pc = "write_output" THEN <<err.host, fx.host>> ELSE shown
      /\ UNCHANGED <<program, stream, iter>>
  BY <1>1 DEF WriteOutput, Goto
<1>3. DOMAIN ds = NewtonNames /\ iter \in Nat
  BY DEF NewtonInv
<1>4. /\ DOMAIN ds' = NewtonNames /\ ds'["x"] = ds["x"] /\ ds'["x_prev"] = ds["x_prev"]
      /\ ds'["fx"] = Stored(fx, Scaled(fx.host)) /\ ds'["err_nrm"] = err
  BY <1>2, <1>3 DEF NewtonNames
<1>5. CASE pc = "write_last"
  BY <1>2, <1>3, <1>4, <1>5 DEF NewtonInv, NewtonPcs
<1>6. CASE pc = "write_output"
  <2>1. Launched /\ ds["fx"].host = LastEvaluated(iter)
    BY <1>6 DEF NewtonInv
  <2>2. PICK d : d = ds["fx"]
    OBVIOUS
  <2>3. /\ OnDevice(d) /\ d.cpu = "TEMP_WRITE" /\ d.gpu = "UP_TO_DATE_WRITE"
        /\ d.prot = Rights(d) /\ d.host = LastEvaluated(iter) /\ Loadable(d) /\ Storable(d)
    BY <2>1, <2>2, RightsAre DEF Launched, Is
  <2>4. fx = d
    BY <1>1, <2>2, <2>3 DEF Loaded
  <2>5. PICK e : e = HostStore(d, Scaled(d.host))
    OBVIOUS
  <2>6. /\ Is(e, "TEMP_WRITE", "UP_TO_DATE_WRITE") /\ e.dev = d.dev
    BY <2>3, <2>5, StoredByHost DEF Is
  <2>7. ds'["fx"] = e
    BY <1>4, <2>3, <2>4, <2>5 DEF Stored
  <2>8. PICK b : b = ds["err_nrm"]
    OBVIOUS
  <2>9. /\ OnDevice(b) /\ b.cpu = "UP_TO_DATE_WRITE" /\ b.gpu = "OUT_OF_DATE"
        /\ b.host = Norm(LastEvaluated(iter)) /\ Loadable(b)
    BY <2>1, <2>8, RightsAre DEF Launched, ErrorRead, Is
  <2>10. err = b
    BY <1>1, <2>8, <2>9 DEF Loaded
  <2>11. ds'["err_nrm"] = ds["err_nrm"]
    BY <1>4, <2>8, <2>10
  <2>12. ErrorRead'
    BY <1>2, <2>1, <2>11 DEF Launched, ErrorRead
  <2>13. Launched'
    BY <1>2, <1>4, <2>1, <2>2, <2>6, <2>7, <2>12 DEF Launched
  <2>14. shown' = <<Norm(LastEvaluated(iter')), LastEvaluated(iter')>>
    BY <1>2, <1>6, <2>3, <2>4, <2>9, <2>10
  <2>15. pc' = "move_fx"
    BY <1>2, <1>6
  <2>16. QED
    BY <1>2, <1>3, <1>4, <2>13, <2>14, <2>15 DEF NewtonInv, NewtonPcs
<1>7. QED
  BY <1>2, <1>5, <1>6

LEMMA NewtonMove ==
    ASSUME NewtonInv, MoveFx, Iterating
    PROVE  NewtonInv'
<1>1. /\ pc = "move_fx" /\ pc' = "gpu_barrier" /\ UNCHANGED <<program, stream, iter, shown>>
      /\ ds' = [ds EXCEPT !.fx = MovedBack(@)]
  BY DEF MoveFx, Goto
<1>2. DOMAIN ds = NewtonNames /\ iter \in Nat /\ Launched
  BY <1>1 DEF NewtonInv
<1>3. /\ DOMAIN ds' = NewtonNames /\ ds'["x"] = ds["x"] /\ ds'["x_prev"] = ds["x_prev"]
      /\ ds'["err_nrm"] = ds["err_nrm"] /\ ds'["fx"] = MovedBack(ds["fx"])
  BY <1>1, <1>2 DEF NewtonNames
<1>4. PICK d : d = ds["fx"]
  OBVIOUS
<1>5. OnDevice(d) /\ d.cpu = "TEMP_WRITE" /\ d.gpu = "UP_TO_DATE_WRITE" /\ Setup(d) = d
  BY <1>2, <1>4, SetupAgain DEF Launched, Is
<1>6. PICK e : e = TransferToGpu(d, "MOVE")
  OBVIOUS
<1>7. /\ OnDevice(e) /\ e.gpu = "UP_TO_DATE_WRITE" /\ e.cpu = "TEMP_WRITE"
      /\ e.prot = Rights(e) /\ e.dev = d.dev
  BY <1>5, <1>6, ToGpuOf DEF CpuAfterToGpu, GpuAfterToGpu
<1>8. ds'["fx"] = e
  BY <1>3, <1>4, <1>5, <1>6 DEF MovedBack
<1>9. ErrorRead'
  BY <1>1, <1>2, <1>3 DEF Launched, ErrorRead
<1>10. Launched'
  BY <1>1, <1>2, <1>3, <1>4, <1>7, <1>8, <1>9 DEF Launched, Is
<1>11. QED
  BY <1>1, <1>2, <1>3, <1>10 DEF NewtonInv, NewtonPcs

\* a kernel leaves every data set as it is but for the copy on the device
LEMMA KernelLeaves ==
    ASSUME RunKernel
    PROVE  /\ DOMAIN ds' = DOMAIN ds /\ UNCHANGED <<program, pc, iter, shown, copies>>
           /\ \A v \in DOMAIN ds : ds'[v] = ds[v] \/ \E t : ds'[v] = [ds[v] EXCEPT !.dev = t]
BY DEF RunKernel

LEMMA StillOnDevice ==
    ASSUME NEW d, NEW e, e = d \/ \E t : e = [d EXCEPT !.dev = t]
    PROVE  /\ OnDevice(d) => OnDevice(e) /\ e.cpu = d.cpu /\ e.gpu = d.gpu /\ e.host = d.host
           /\ \A cpu, gpu : Is(d, cpu, gpu) => Is(e, cpu, gpu)
<1>1. CASE e = d
  BY <1>1
<1>2. CASE e # d
  <2>1. PICK t : e = [d EXCEPT !.dev = t]
    BY <1>2
  <2>2. ASSUME OnDevice(d)
        PROVE  /\ OnDevice(e) /\ e.cpu = d.cpu /\ e.gpu = d.gpu /\ e.host = d.host
               /\ e.prot = d.prot /\ Rights(e) = Rights(d)
    BY <2>1, <2>2, StoredByKernel
  <2>3. QED
    BY <2>2 DEF Is
<1>3. QED
  BY <1>1, <1>2

\* while the kernel is in the stream the host is where it has just submitted it
LEMMA NewtonKernel ==
    ASSUME NewtonInv, RunKernel, Iterating, "functor_lives" \notin Waived
    PROVE  NewtonInv'
<1>1. /\ stream # <<>> /\ stream' = Tail(stream)
      /\ DOMAIN ds' = DOMAIN ds /\ UNCHANGED <<program, pc, iter, shown>>
  BY KernelLeaves DEF RunKernel
<1>2. DOMAIN ds = NewtonNames /\ iter \in Nat /\ pc \in NewtonPcs
  BY DEF NewtonInv
<1>3. pc \notin {"compute_error_norm", "while", "set_x_prev", "copy_fx", "compute_x_n_plus_1"}
  BY <1>1 DEF NewtonInv, Before, Again, Stepped
<1>4. CASE pc \in {"write_last", "done"}
  BY <1>1, <1>2, <1>4 DEF NewtonInv
<1>5. CASE pc \in {"submitted", "write_output", "move_fx", "gpu_barrier"}
  <2>1. Launched
    BY <1>5 DEF NewtonInv
  <2>2. stream = <<"kg_compute_x_n_plus_1">>
    BY <1>1, <2>1 DEF Launched
  <2>3. Head(stream) = "kg_compute_x_n_plus_1" /\ stream' = <<>>
    BY <1>1, <2>2
  <2>4. PICK new : new = [x |-> Newton(ds["x_prev"].dev), fx |-> F(ds["x_prev"].dev)]
    OBVIOUS
  <2>5. Written(Head(stream)) = new
    BY <2>3, <2>4 DEF Written
  <2>6. ds' = [v \in DOMAIN ds |-> IF v \in DOMAIN new THEN [ds[v] EXCEPT !.dev = new[v]]
                                                      ELSE ds[v]]
    BY <2>5 DEF RunKernel
  <2>7. /\ DOMAIN new = {"x", "fx"}
        /\ new["x"] = Newton(ds["x_prev"].dev) /\ new["fx"] = F(ds["x_prev"].dev)
    BY <2>4
  <2>8. /\ ds'["x"] = [ds["x"] EXCEPT !.dev = new["x"]]
        /\ ds'["fx"] = [ds["fx"] EXCEPT !.dev = new["fx"]]
        /\ ds'["x_prev"] = ds["x_prev"] /\ ds'["err_nrm"] = ds["err_nrm"]
    BY <1>2, <2>6, <2>7 DEF NewtonNames
  <2>9. /\ OnDevice(ds["x"]) /\ ds["x"].gpu = "UP_TO_DATE_WRITE"
        /\ Is(ds["fx"], "TEMP_WRITE", "UP_TO_DATE_WRITE")
        /\ ds["x_prev"].dev = Iterate(iter)
    BY <2>1 DEF Launched
  <2>10. /\ OnDevice(ds'["x"]) /\ ds'["x"].gpu = "UP_TO_DATE_WRITE"
         /\ ds'["x"].dev = new["x"]
    <3>1. PICK d, t : d = ds["x"] /\ t = new["x"]
      OBVIOUS
    <3>2. PICK e : e = [d EXCEPT !.dev = t]
      OBVIOUS
    <3>3. OnDevice(e) /\ e.gpu = d.gpu /\ e.dev = t
      BY <2>9, <3>1, <3>2, StoredByKernel
    <3>4. QED
      BY <2>8, <2>9, <3>1, <3>2, <3>3
  <2>11. /\ Is(ds'["fx"], "TEMP_WRITE", "UP_TO_DATE_WRITE")
         /\ ds'["fx"].dev = new["fx"] /\ ds'["fx"].host = ds["fx"].host
    <3>1. PICK d, t : d = ds["fx"] /\ t = new["fx"]
      OBVIOUS
    <3>2. PICK e : e = [d EXCEPT !.dev = t]
      OBVIOUS
    <3>3. OnDevice(d)
      BY <2>9, <3>1 DEF Is
    <3>4. /\ OnDevice(e) /\ e.cpu = d.cpu /\ e.gpu = d.gpu /\ e.prot = d.prot
          /\ e.host = d.host /\ e.dev = t /\ Rights(e) = Rights(d)
      BY <3>2, <3>3, StoredByKernel
    <3>5. Is(e, "TEMP_WRITE", "UP_TO_DATE_WRITE") /\ e.host = d.host /\ e.dev = t
      BY <2>9, <3>1, <3>4 DEF Is
    <3>6. QED
      BY <2>8, <3>1, <3>2, <3>5
  <2>12. new["x"] = Iterate(iter + 1) /\ new["fx"] = F(Iterate(iter))
    BY <1>2, <2>7, <2>9, IterateNext
  <2>13. ErrorRead'
    BY <1>1, <2>1, <2>8 DEF Launched, ErrorRead
  <2>14. Launched'
    BY <1>1, <2>1, <2>3, <2>8, <2>10, <2>11, <2>12, <2>13 DEF Launched
  <2>15. QED
    BY <1>1, <1>2, <1>5, <2>11, <2>14 DEF NewtonInv
<1>6. QED
  BY <1>2, <1>3, <1>4, <1>5 DEF NewtonPcs

LEMMA NewtonStep ==
    ASSUME "functor_lives" \notin Waived
    PROVE  NewtonInv /\ [Next]_vars => NewtonInv'
<1>1. SUFFICES ASSUME NewtonInv, [Next]_vars, Iterating'
               PROVE  NewtonInv'
  BY DEF NewtonInv
<1>2. CASE UNCHANGED vars
  BY <1>1, <1>2 DEF vars, NewtonInv, Iterating, Before, Again, Stepped, Launched, XKnown,
                    XPrevKnown, FxRead, ErrorRead
<1>3. CASE Next /\ ~UNCHANGED vars
  <2>1. program' = program
    BY <1>3 DEF Next, HostStep, RunKernel, ComputeErrorNorm, While, SetXPrev, CopyFx,
                ComputeXNPlus1, Submitted, WriteOutput, MoveFx, GpuBarrier, SetP, UpdateT,
                UpdateV, StageEnds, Done
  <2>2. Iterating
    BY <1>1, <2>1 DEF Iterating
  <2>3. pc \in NewtonPcs
    BY <1>1, <2>2 DEF NewtonInv
  <2>4. ~(SetP \/ UpdateT \/ UpdateV \/ StageEnds \/ Done)
    BY <1>3, <2>3 DEF SetP, UpdateT, UpdateV, StageEnds, Goto, Done, NewtonPcs
  <2>5. QED
    BY <1>1, <1>3, <2>2, <2>4, NewtonNorm, NewtonTest, NewtonXPrev, NewtonScratch,
       NewtonSubmit, NewtonWait, NewtonOutput, NewtonMove, NewtonKernel DEF Next, HostStep
<1>4. QED
  BY <1>1, <1>2, <1>3

-----------------------------------------------------------------------------
(* Each demonstration keeps to its own statements.                         *)

OwnStatements == pc \in (IF Iterating THEN NewtonPcs ELSE StagePcs)

LEMMA OwnStart == Init => OwnStatements
BY DEF Init, OwnStatements, NewtonPcs, StagePcs

LEMMA OwnStep == OwnStatements /\ [Next]_vars => OwnStatements'
<1>1. SUFFICES ASSUME OwnStatements, [Next]_vars
               PROVE  OwnStatements'
  OBVIOUS
<1>2. CASE UNCHANGED vars
  BY <1>1, <1>2 DEF vars, OwnStatements, Iterating
<1>3. CASE ComputeErrorNorm \/ While \/ SetXPrev \/ CopyFx \/ ComputeXNPlus1
  BY <1>1, <1>3 DEF ComputeErrorNorm, While, SetXPrev, CopyFx, ComputeXNPlus1, Goto,
                    OwnStatements, Iterating, NewtonPcs, StagePcs
<1>4. CASE Submitted \/ WriteOutput \/ MoveFx \/ GpuBarrier
  BY <1>1, <1>4 DEF Submitted, WriteOutput, MoveFx, GpuBarrier, Goto,
                    OwnStatements, Iterating, NewtonPcs, StagePcs
<1>5. CASE SetP \/ UpdateT \/ UpdateV \/ StageEnds
  BY <1>1, <1>5 DEF SetP, UpdateT, UpdateV, StageEnds, Goto,
                    OwnStatements, Iterating, NewtonPcs, StagePcs
<1>6. CASE RunKernel \/ Done
  BY <1>1, <1>6 DEF RunKernel, Done, vars, OwnStatements, Iterating
<1>7. QED
  BY <1>1, <1>2, <1>3, <1>4, <1>5, <1>6 DEF Next, HostStep

\* Whatever a kernel still running and the host do meanwhile, the error that the
\* loop tests is the norm of what the last kernel left in fx, after any number
\* of iterations and with either way to launch the kernel.
THEOREM NormAlwaysOfTheLastKernel ==
    ASSUME "functor_lives" \notin Waived
    PROVE  Spec => []NormIsOfTheLastKernel
<1>1. NewtonInv /\ OwnStatements => NormIsOfTheLastKernel
  <2>1. SUFFICES ASSUME NewtonInv, OwnStatements, pc = "while"
                 PROVE  ds["err_nrm"].dev = Norm(LastEvaluated(iter))
    BY DEF NormIsOfTheLastKernel
  <2>2. Iterating
    BY <2>1 DEF OwnStatements, StagePcs
  <2>3. QED
    BY <2>1, <2>2 DEF NewtonInv
<1>2. QED
  BY <1>1, NewtonStart, NewtonStep, OwnStart, OwnStep, PTL DEF Spec

\* Every output of the loop is made from one iterate: the error it prints is the
\* norm of the values of f it prints, as they were before the host normalised its
\* scratch copy, whether or not the kernel of the iteration has run.
THEOREM OutputAlwaysOfOneIterate ==
    ASSUME "functor_lives" \notin Waived
    PROVE  Spec => []OutputIsOfOneIterate
<1>1. NewtonInv /\ OwnStatements => OutputIsOfOneIterate
  <2>1. SUFFICES ASSUME NewtonInv, OwnStatements, pc = "move_fx"
                 PROVE  shown = <<Norm(LastEvaluated(iter)), LastEvaluated(iter)>>
    BY DEF OutputIsOfOneIterate
  <2>2. Iterating
    BY <2>1 DEF OwnStatements, StagePcs
  <2>3. QED
    BY <2>1, <2>2 DEF NewtonInv
<1>2. QED
  BY <1>1, NewtonStart, NewtonStep, OwnStart, OwnStep, PTL DEF Spec

-----------------------------------------------------------------------------
(* One step of the porting scenario.                                       *)

LEMMA StagesStart == Init => StagesInv
<1>1. SUFFICES ASSUME Init, ~Iterating
               PROVE  StagesInv
  BY DEF StagesInv
<1>2. PICK d : d = [P |-> Filled(First("P")), V |-> Filled(First("V")),
                    T |-> Filled(First("T"))]
  OBVIOUS
<1>3. ds = d /\ pc = "set_P" /\ copies = NoCopies
  BY <1>1, <1>2 DEF Init
<1>4. /\ DOMAIN d = StageNames /\ d["P"] = Filled(First("P"))
      /\ d["V"] = Filled(First("V")) /\ d["T"] = Filled(First("T"))
  BY <1>2 DEF StageNames
<1>5. \A v \in StageNames : Entry(ds[v]) /\ ds[v].instance = FALSE
  <2>1. /\ Entry(d["P"]) /\ d["P"].instance = FALSE
        /\ Entry(d["V"]) /\ d["V"].instance = FALSE
        /\ Entry(d["T"]) /\ d["T"].instance = FALSE
    BY <1>4, FilledIs
  <2>2. QED
    BY <1>3, <2>1 DEF StageNames
<1>6. QED
  BY <1>3, <1>4, <1>5 DEF StagesInv, StagePcs, CopiesAsDocumented

LEMMA CountedCopies ==
    ASSUME copies = NoCopies, NEW to, NEW from, Copy(to, from)
    PROVE  copies' = [HtoD |-> 0 + Cardinality(to), DtoH |-> 0 + Cardinality(from)]
BY DEF Copy, NoCopies

LEMMA Cardinalities ==
    ASSUME NEW x, NEW y, x # y
    PROVE  Cardinality({x, y}) = 2 /\ Cardinality({x}) = 1 /\ Cardinality({}) = 0
<1>1. IsFiniteSet({x}) /\ Cardinality({x}) = 1 /\ Cardinality({}) = 0
  BY FS_Singleton, FS_EmptySet
<1>2. Cardinality({x} \cup {y}) = Cardinality({x}) + 1
  BY <1>1, FS_AddElement
<1>3. {x} \cup {y} = {x, y}
  OBVIOUS
<1>4. QED
  BY <1>1, <1>2, <1>3

\* the first reading kernel takes a data set to the device, and the pages of the
\* host stay readable
LEMMA FirstRead ==
    ASSUME NEW d, Entry(d), d.instance = FALSE
    PROVE  /\ Is(TransferToGpu(Setup(d), "READ_ONLY"), "UP_TO_DATE_READ", "UP_TO_DATE_READ")
           /\ ToGpuPush(Setup(d), "READ_ONLY")
<1>1. PICK s : s = Setup(d)
  OBVIOUS
<1>2. OnDevice(s) /\ s.cpu = "UP_TO_DATE_WRITE" /\ s.gpu = "OUT_OF_DATE"
  BY <1>1, SetupOfNew
<1>3. PICK e : e = TransferToGpu(s, "READ_ONLY")
  OBVIOUS
<1>4. Is(e, "UP_TO_DATE_READ", "UP_TO_DATE_READ")
  BY <1>2, <1>3, ToGpuOf DEF CpuAfterToGpu, GpuAfterToGpu, Is
<1>5. ToGpuPush(s, "READ_ONLY")
  BY <1>2 DEF ToGpuPush
<1>6. QED
  BY <1>1, <1>3, <1>4, <1>5

LEMMA StageSetP ==
    ASSUME StagesInv, SetP, ~Iterating
    PROVE  StagesInv'
<1>1. PICK mode : mode = ArgumentModes({"P"}, {"V", "T"})
  OBVIOUS
<1>2. PICK owned : owned = TransferToGpu(Setup(ds["P"]), OverwriteMode)
  OBVIOUS
<1>3. /\ pc = "set_P" /\ pc' = "set_P_done" /\ program' = program
      /\ Copy(HtoD([mode EXCEPT !.P = OverwriteMode]), {})
      /\ ds' = [ToGpu(mode) EXCEPT !.P = TransferToGpu(owned, "MOVE")]
  BY <1>1, <1>2 DEF SetP, Goto
<1>4. /\ DOMAIN ds = StageNames /\ copies = NoCopies
      /\ \A v \in StageNames : Entry(ds[v]) /\ ds[v].instance = FALSE
  BY <1>3 DEF StagesInv
<1>5. /\ DOMAIN mode = StageNames /\ mode["P"] = "MOVE"
      /\ mode["V"] = "READ_ONLY" /\ mode["T"] = "READ_ONLY"
  BY <1>1 DEF ArgumentModes, StageNames
<1>6. PICK g : g = ToGpu(mode)
  OBVIOUS
<1>7. /\ DOMAIN g = StageNames
      /\ \A v \in StageNames : g[v] = TransferToGpu(Setup(ds[v]), mode[v])
  BY <1>4, <1>5, <1>6, ToGpuAt
<1>8. "P" \in StageNames /\ "V" \in StageNames /\ "T" \in StageNames
  BY DEF StageNames
<1>9. /\ DOMAIN ds' = StageNames /\ ds'["P"] = TransferToGpu(owned, "MOVE")
      /\ ds'["V"] = TransferToGpu(Setup(ds["V"]), "READ_ONLY")
      /\ ds'["T"] = TransferToGpu(Setup(ds["T"]), "READ_ONLY")
  BY <1>3, <1>5, <1>6, <1>7, <1>8
<1>10. Is(ds'["V"], "UP_TO_DATE_READ", "UP_TO_DATE_READ") /\ ToGpuPush(Setup(ds["V"]), "READ_ONLY")
  BY <1>4, <1>8, <1>9, FirstRead
<1>11. Is(ds'["T"], "UP_TO_DATE_READ", "UP_TO_DATE_READ") /\ ToGpuPush(Setup(ds["T"]), "READ_ONLY")
  BY <1>4, <1>8, <1>9, FirstRead
<1>12. Is(ds'["P"], "OUT_OF_DATE", "UP_TO_DATE_WRITE")
  <2>1. PICK s : s = Setup(ds["P"])
    OBVIOUS
  <2>2. OnDevice(s) /\ s.cpu = "UP_TO_DATE_WRITE"
    BY <1>4, <1>8, <2>1, SetupOfNew
  <2>3. /\ OnDevice(owned) /\ owned.gpu = "UP_TO_DATE_WRITE" /\ owned.cpu = "OUT_OF_DATE"
    BY <1>2, <2>1, <2>2, ToGpuOf DEF OverwriteMode, CpuAfterToGpu, GpuAfterToGpu
  <2>4. PICK e : e = TransferToGpu(owned, "MOVE")
    OBVIOUS
  <2>5. Is(e, "OUT_OF_DATE", "UP_TO_DATE_WRITE")
    BY <2>3, <2>4, ToGpuOf DEF CpuAfterToGpu, GpuAfterToGpu, Is
  <2>6. QED
    BY <1>9, <2>4, <2>5
<1>13. HtoD([mode EXCEPT !.P = OverwriteMode]) = {"V", "T"}
  <2>1. PICK m : m = [mode EXCEPT !.P = OverwriteMode]
    OBVIOUS
  <2>2. /\ DOMAIN m = {"P", "V", "T"} /\ m["P"] = "NOT_INITIALIZE"
        /\ m["V"] = "READ_ONLY" /\ m["T"] = "READ_ONLY"
    BY <1>5, <2>1 DEF StageNames, OverwriteMode
  <2>3. ~ToGpuPush(Setup(ds["P"]), m["P"])
    BY <2>2 DEF ToGpuPush
  <2>4. ToGpuPush(Setup(ds["V"]), m["V"]) /\ ToGpuPush(Setup(ds["T"]), m["T"])
    BY <1>10, <1>11, <2>2
  <2>5. HtoD(m) = {v \in {"P", "V", "T"} : ToGpuPush(Setup(ds[v]), m[v])}
    BY <2>2 DEF HtoD
  <2>6. QED
    BY <2>1, <2>3, <2>4, <2>5
<1>14. copies' = [HtoD |-> 2, DtoH |-> 0]
  <2>1. copies' = [HtoD |-> 0 + Cardinality({"V", "T"}), DtoH |-> 0 + Cardinality({})]
    BY <1>3, <1>4, <1>13, CountedCopies
  <2>2. Cardinality({"V", "T"}) = 2 /\ Cardinality({}) = 0
    BY Cardinalities
  <2>3. QED
    BY <2>1, <2>2
<1>15. AfterP'
  BY <1>10, <1>11, <1>12 DEF AfterP
<1>16. QED
  BY <1>3, <1>9, <1>14, <1>15 DEF StagesInv, StagePcs, CopiesAsDocumented

LEMMA StageUpdateT ==
    ASSUME StagesInv, UpdateT, ~Iterating, "own_operator" \notin Waived
    PROVE  StagesInv'
<1>1. PICK P, T : P = Loaded(ds["P"], TRUE) /\ T = Loaded(ds["T"], FALSE)
  OBVIOUS
<1>2. /\ pc = "update_T" /\ pc' = "update_T_done" /\ program' = program
      /\ copies = NoCopies /\ Copy({}, DtoH({"P", "T"}))
      /\ ds' = [ds EXCEPT !.P = P, !.T = Stored(T, Sum(T.host, P.host))]
  BY <1>1 DEF UpdateT, Goto
<1>3. DOMAIN ds = StageNames /\ AfterP
  BY <1>2 DEF StagesInv
<1>4. /\ DOMAIN ds' = StageNames /\ ds'["P"] = P /\ ds'["V"] = ds["V"]
      /\ ds'["T"] = Stored(T, Sum(T.host, P.host))
  BY <1>2, <1>3 DEF StageNames
<1>5. PICK p : p = ds["P"]
  OBVIOUS
<1>6. /\ OnDevice(p) /\ p.cpu = "OUT_OF_DATE" /\ p.gpu = "UP_TO_DATE_WRITE" /\ ~Loadable(p)
  BY <1>3, <1>5, RightsAre DEF AfterP, Is
<1>7. Is(ds'["P"], "UP_TO_DATE_READ", "UP_TO_DATE_READ")
  <2>1. P = TransferToCpu(p, "READ_ONLY")
    BY <1>1, <1>5, <1>6 DEF Loaded, FaultTransfer
  <2>2. PICK e : e = TransferToCpu(p, "READ_ONLY")
    OBVIOUS
  <2>3. Is(e, "UP_TO_DATE_READ", "UP_TO_DATE_READ")
    BY <1>6, <2>2, ToCpuOf DEF CpuAfterToCpu, GpuAfterToCpu, Is
  <2>4. QED
    BY <1>4, <2>1, <2>2, <2>3
<1>8. PICK d : d = ds["T"]
  OBVIOUS
<1>9. /\ OnDevice(d) /\ d.cpu = "UP_TO_DATE_READ" /\ d.gpu = "UP_TO_DATE_READ"
      /\ Loadable(d) /\ ~Storable(d)
  BY <1>3, <1>8, RightsAre DEF AfterP, Is
<1>10. Is(ds'["T"], "UP_TO_DATE_WRITE", "OUT_OF_DATE")
  <2>1. T = d
    BY <1>1, <1>8, <1>9 DEF Loaded
  <2>2. PICK e : e = TransferToCpu(d, "MOVE")
    OBVIOUS
  <2>3. Is(e, "UP_TO_DATE_WRITE", "OUT_OF_DATE")
    BY <1>9, <2>2, ToCpuOf DEF CpuAfterToCpu, GpuAfterToCpu, UpToDate, Is
  <2>4. PICK term : term = Sum(T.host, P.host)
    OBVIOUS
  <2>5. ds'["T"] = HostStore(e, term)
    BY <1>4, <1>9, <2>1, <2>2, <2>4 DEF Stored, FaultTransfer
  <2>6. PICK h : h = HostStore(e, term)
    OBVIOUS
  <2>7. Is(h, "UP_TO_DATE_WRITE", "OUT_OF_DATE")
    BY <2>3, <2>6, StoredByHost DEF Is
  <2>8. QED
    BY <2>5, <2>6, <2>7
<1>11. DtoH({"P", "T"}) = {"P"}
  <2>1. ToCpuPull(ds["P"], "MOVE") /\ ~Loadable(ds["P"])
    BY <1>5, <1>6 DEF ToCpuPull
  <2>2. Loadable(ds["T"])
    BY <1>8, <1>9
  <2>3. QED
    BY <2>1, <2>2 DEF DtoH
<1>12. copies' = [HtoD |-> 0, DtoH |-> 1]
  <2>1. copies' = [HtoD |-> 0 + Cardinality({}), DtoH |-> 0 + Cardinality({"P"})]
    BY <1>2, <1>11, CountedCopies
  <2>2. Cardinality({"P"}) = 1 /\ Cardinality({}) = 0
    BY FS_Singleton, FS_EmptySet
  <2>3. QED
    BY <2>1, <2>2
<1>13. AfterT'
  BY <1>3, <1>4, <1>7, <1>10 DEF AfterP, AfterT
<1>14. QED
  BY <1>2, <1>4, <1>12, <1>13 DEF StagesInv, StagePcs, CopiesAsDocumented

LEMMA StageUpdateV ==
    ASSUME StagesInv, UpdateV, ~Iterating
    PROVE  StagesInv'
<1>1. PICK mode : mode = ArgumentModes({"V"}, {"P", "T"})
  OBVIOUS
<1>2. /\ pc = "update_V" /\ pc' = "update_V_done" /\ program' = program
      /\ ds' = ToGpu(mode) /\ Copy(HtoD(mode), {})
  BY <1>1 DEF UpdateV, Goto, Submit
<1>3. DOMAIN ds = StageNames /\ AfterT /\ copies = NoCopies
  BY <1>2 DEF StagesInv
<1>4. /\ DOMAIN mode = {"P", "V", "T"} /\ mode["V"] = "MOVE"
      /\ mode["P"] = "READ_ONLY" /\ mode["T"] = "READ_ONLY"
  BY <1>1 DEF ArgumentModes
<1>5. HtoD(mode) = {"T"}
  <2>1. Setup(ds["P"]) = ds["P"] /\ Setup(ds["V"]) = ds["V"] /\ Setup(ds["T"]) = ds["T"]
    BY <1>3, SetupAgain DEF AfterT, Is
  <2>2. ~ToGpuPush(ds["P"], mode["P"]) /\ ~ToGpuPush(ds["V"], mode["V"])
    BY <1>3 DEF AfterT, Is, ToGpuPush
  <2>3. ToGpuPush(ds["T"], mode["T"])
    BY <1>3, <1>4 DEF AfterT, Is, ToGpuPush
  <2>4. HtoD(mode) = {v \in {"P", "V", "T"} : ToGpuPush(Setup(ds[v]), mode[v])}
    BY <1>4 DEF HtoD
  <2>5. QED
    BY <2>1, <2>2, <2>3, <2>4
<1>6. copies' = [HtoD |-> 1, DtoH |-> 0]
  <2>1. copies' = [HtoD |-> 0 + Cardinality({"T"}), DtoH |-> 0 + Cardinality({})]
    BY <1>2, <1>3, <1>5, CountedCopies
  <2>2. Cardinality({"T"}) = 1 /\ Cardinality({}) = 0
    BY FS_Singleton, FS_EmptySet
  <2>3. QED
    BY <2>1, <2>2
<1>7. DOMAIN ds' = StageNames
  BY <1>2, <1>3, ToGpuAt
<1>8. QED
  BY <1>2, <1>6, <1>7 DEF StagesInv, StagePcs, CopiesAsDocumented

LEMMA StageKernel ==
    ASSUME StagesInv, RunKernel, ~Iterating
    PROVE  StagesInv'
<1>1. /\ DOMAIN ds' = DOMAIN ds /\ UNCHANGED <<program, pc, copies>>
      /\ \A v \in DOMAIN ds : ds'[v] = ds[v] \/ \E t : ds'[v] = [ds[v] EXCEPT !.dev = t]
  BY KernelLeaves
<1>2. /\ DOMAIN ds = StageNames /\ pc \in StagePcs
  BY DEF StagesInv
<1>3. ASSUME NEW v \in StageNames
      PROVE  \A cpu, gpu : Is(ds[v], cpu, gpu) => Is(ds'[v], cpu, gpu)
  BY <1>1, <1>2, <1>3, StillOnDevice
<1>4. "P" \in StageNames /\ "V" \in StageNames /\ "T" \in StageNames
  BY DEF StageNames
<1>5. (AfterP => AfterP') /\ (AfterT => AfterT')
  BY <1>3, <1>4 DEF AfterP, AfterT
<1>6. ASSUME NEW v \in StageNames, Entry(ds[v]), ds[v].instance = FALSE
      PROVE  Entry(ds'[v]) /\ ds'[v].instance = FALSE
  BY <1>1, <1>2, <1>6 DEF Entry, Fields
<1>7. CopiesAsDocumented'
  BY <1>1 DEF StagesInv, CopiesAsDocumented
<1>8. QED
  BY <1>1, <1>2, <1>5, <1>6, <1>7 DEF StagesInv

LEMMA StageEnd ==
    ASSUME StagesInv, StageEnds, ~Iterating
    PROVE  StagesInv'
<1>1. /\ \/ pc = "set_P_done" /\ pc' = "update_T"
         \/ pc = "update_T_done" /\ pc' = "update_V"
         \/ pc = "update_V_done" /\ pc' = "done"
      /\ copies' = NoCopies /\ UNCHANGED <<program, ds>>
  BY DEF StageEnds, Goto
<1>2. DOMAIN ds' = StageNames /\ pc' \in StagePcs
  BY <1>1 DEF StagesInv, StagePcs
<1>3. /\ pc' = "update_T" => AfterP'
      /\ pc' = "update_V" => AfterT'
  BY <1>1 DEF StagesInv, AfterP, AfterT
<1>4. QED
  BY <1>1, <1>2, <1>3 DEF StagesInv, CopiesAsDocumented

LEMMA StagesStep ==
    ASSUME "own_operator" \notin Waived
    PROVE  StagesInv /\ [Next]_vars => StagesInv'
<1>1. SUFFICES ASSUME StagesInv, [Next]_vars, ~Iterating'
               PROVE  StagesInv'
  BY DEF StagesInv
<1>2. CASE UNCHANGED vars
  BY <1>1, <1>2 DEF vars, StagesInv, Iterating, AfterP, AfterT, CopiesAsDocumented
<1>3. CASE Next /\ ~UNCHANGED vars
  <2>1. program' = program
    BY <1>3 DEF Next, HostStep, RunKernel, ComputeErrorNorm, While, SetXPrev, CopyFx,
                ComputeXNPlus1, Submitted, WriteOutput, MoveFx, GpuBarrier, SetP, UpdateT,
                UpdateV, StageEnds, Done
  <2>2. ~Iterating
    BY <1>1, <2>1 DEF Iterating
  <2>3. pc \in StagePcs
    BY <1>1, <2>2 DEF StagesInv
  <2>4. /\ ~(ComputeErrorNorm \/ While \/ SetXPrev \/ CopyFx \/ ComputeXNPlus1)
        /\ ~(Submitted \/ WriteOutput \/ MoveFx \/ GpuBarrier \/ Done)
    BY <1>3, <2>3 DEF ComputeErrorNorm, While, SetXPrev, CopyFx, ComputeXNPlus1, Submitted,
                      WriteOutput, MoveFx, GpuBarrier, Goto, Done, StagePcs
  <2>5. QED
    BY <1>1, <1>3, <2>2, <2>4, StageSetP, StageUpdateT, StageUpdateV, StageEnd, StageKernel
       DEF Next, HostStep
<1>4. QED
  BY <1>1, <1>2, <1>3

\* The stages of the porting scenario make the copies that its comments count,
\* whenever the kernels of the stages run.
THEOREM CopiesAlwaysAsDocumented ==
    ASSUME "own_operator" \notin Waived
    PROVE  Spec => []CopiesAsDocumented
<1>1. StagesInv /\ OwnStatements => CopiesAsDocumented
  BY DEF StagesInv, OwnStatements, NewtonPcs, CopiesAsDocumented
<1>2. QED
  BY <1>1, StagesStart, StagesStep, OwnStart, OwnStep, PTL DEF Spec
=============================================================================
