----------------------------- MODULE XpuDataSet -----------------------------
(***************************************************************************)
(* One named data set of the SILO and the operations the GPU framework     *)
(* performs on it.  A data set keeps a copy of its values in host memory   *)
(* (dataSetBase::m_data, whole pages whose access rights the framework     *)
(* changes with mprotect) and, once it has a GPUInstance_t, a copy in      *)
(* device memory; the pair of xpu_data_status_t tells which copy counts.   *)
(*                                                                         *)
(* The module has no variables: an operation is an operator from a data    *)
(* set to a data set, as the functions of GPUManager_t are functions of    *)
(* the dataSetBase they are given.  The build modelled is RELEASE, where   *)
(* assert() expands to nothing.                                            *)
(***************************************************************************)
EXTENDS Naturals

CONSTANTS
    Values,  \* what an owner can write into a data set
    Zero,    \* what the memset of fresh host pages leaves there
    Junk,    \* what cudaMalloc leaves in fresh device memory
    MaxSize  \* bound on the number of entries of a data set

ASSUME ValuesAssumption == Zero \in Values /\ Junk \notin Values
ASSUME MaxSizeAssumption == MaxSize \in Nat \ {0}

Content == Values \union {Junk}

XpuDataStatus == {"UP_TO_DATE_WRITE", "OUT_OF_DATE", "TEMP_WRITE",
                  "UP_TO_DATE_READ", "RESIZED_ON_CPU", "NOT_ALLOCATED"}

TransferMode == {"MOVE", "COPY", "NOT_INITIALIZE", "SYNC_AND_MOVE", "READ_ONLY"}

UpToDate == {"UP_TO_DATE_WRITE", "UP_TO_DATE_READ"}

(***************************************************************************)
(* exists is ~is_unresolved, mapped is m_data # nullptr, instance is       *)
(* gpu_instance # nullptr; buffer is the number of entries of the device   *)
(* buffer, 0 for a null pointer, and lost says that a non-null device      *)
(* pointer was overwritten.  Without an instance both statuses are         *)
(* NOT_ALLOCATED, a value the code never reads.                            *)
(***************************************************************************)
DataSet == [exists   : BOOLEAN,
            mapped   : BOOLEAN,
            size     : 0..MaxSize,
            prot     : {"none", "read", "rw"},
            host     : Content,
            instance : BOOLEAN,
            cpu      : XpuDataStatus,
            gpu      : XpuDataStatus,
            buffer   : 0..MaxSize,
            dev      : Content,
            lost     : BOOLEAN]

\* dataSetBase::dataSetBase: a registered entry is zero-filled, one that was
\* only retrieved stays unresolved and owns no memory
NewDataSet(exists, n) ==
    [exists |-> exists, mapped |-> exists /\ n > 0, size |-> n, prot |-> "rw",
     host |-> Zero, instance |-> FALSE, cpu |-> "NOT_ALLOCATED",
     gpu |-> "NOT_ALLOCATED", buffer |-> 0, dev |-> Junk, lost |-> FALSE]

-----------------------------------------------------------------------------
(* Device memory and the GPU instance.                                     *)

\* an empty data set keeps its device pointer: the code only asserts it null
DeallocateGpuDataPtr(d) ==
    [d EXCEPT !.buffer = IF d.size = 0 THEN @ ELSE 0,
              !.gpu = "NOT_ALLOCATED",
              !.cpu = "UP_TO_DATE_WRITE"]

BufferOf(d) == d.size

AllocateGpuDataPtr(d) ==
    [d EXCEPT !.lost = @ \/ d.buffer > 0,
              !.buffer = BufferOf(d),
              !.dev = Junk,
              !.cpu = "UP_TO_DATE_WRITE",
              !.gpu = "OUT_OF_DATE"]

BufferReused(d) ==                                     \* mutant
    [d EXCEPT !.cpu = "UP_TO_DATE_WRITE", !.gpu = "OUT_OF_DATE"]
ResizeGpuDataPtr(d) == AllocateGpuDataPtr(DeallocateGpuDataPtr(d))

AllocateGpuInstance(d) ==
    IF d.instance
    THEN d
    ELSE [d EXCEPT !.instance = TRUE,
                   !.cpu = IF d.exists THEN "UP_TO_DATE_WRITE" ELSE "NOT_ALLOCATED",
                   !.gpu = "NOT_ALLOCATED"]

SetupOfAnyEntry(d) ==                                  \* mutant
    LET s == AllocateGpuInstance(d)
    IN  IF s.gpu = "NOT_ALLOCATED" THEN AllocateGpuDataPtr(s) ELSE s
Setup(d) ==
    LET s == AllocateGpuInstance(d)
    IN  IF s.exists /\ s.gpu = "NOT_ALLOCATED" THEN AllocateGpuDataPtr(s) ELSE s

-----------------------------------------------------------------------------
(* Transfers.                                                              *)

\* the rights protect_m_data gives the pages, from the status of the CPU
RightsForgetReaders(d) ==                              \* mutant
    IF d.cpu = "OUT_OF_DATE" THEN "none" ELSE "rw"
RightsNeverReturned(d) ==                              \* mutant
    CASE d.cpu = "OUT_OF_DATE" -> "none"
      [] d.cpu = "UP_TO_DATE_READ" -> "read"
      [] OTHER -> d.prot
Rights(d) ==
    CASE d.cpu = "OUT_OF_DATE"     -> "none"
      [] d.cpu = "UP_TO_DATE_READ" -> "read"
      [] d.cpu \in {"UP_TO_DATE_WRITE", "TEMP_WRITE"} -> "rw"
      [] OTHER -> d.prot

ProtectMData(d) == [d EXCEPT !.prot = Rights(d)]

\* memcpy_gpu_var copies nothing when the data set is empty
HostToDevice(d) == IF d.size = 0 THEN d ELSE [d EXCEPT !.dev = d.host]
DeviceToHost(d) == IF d.size = 0 THEN d ELSE [d EXCEPT !.host = d.dev]

\* the do_memcpy switch of transfer_to_gpu_internal
ToGpuPushKeepsScratch(d, mode) ==                      \* mutant
    d.gpu \in {"OUT_OF_DATE", "RESIZED_ON_CPU"} /\ mode # "NOT_INITIALIZE"
ToGpuPush(d, mode) ==
    /\ d.gpu \in {"OUT_OF_DATE", "TEMP_WRITE", "RESIZED_ON_CPU"}
    /\ mode # "NOT_INITIALIZE"
ToGpuPull(d, mode) ==
    /\ mode = "SYNC_AND_MOVE"
    /\ \/ d.gpu = "UP_TO_DATE_WRITE"
       \/ d.gpu = "UP_TO_DATE_READ" /\ d.cpu # "UP_TO_DATE_READ"

\* the ownership switch of transfer_to_gpu_internal
CpuAfterToGpu(d, mode) ==
    CASE mode \in {"MOVE", "NOT_INITIALIZE"} ->
            IF d.cpu = "TEMP_WRITE" THEN d.cpu ELSE "OUT_OF_DATE"
      [] mode = "READ_ONLY" ->
            IF d.cpu = "UP_TO_DATE_WRITE" THEN "UP_TO_DATE_READ" ELSE d.cpu
      [] mode = "COPY"          -> d.cpu
      [] mode = "SYNC_AND_MOVE" -> "TEMP_WRITE"
GpuAfterToGpu(d, mode) ==
    CASE mode = "READ_ONLY" -> "UP_TO_DATE_READ"
      [] mode = "COPY"      -> "TEMP_WRITE"
      [] OTHER              -> "UP_TO_DATE_WRITE"

ToGpuStatus(d, mode) ==
    [d EXCEPT !.cpu = CpuAfterToGpu(d, mode), !.gpu = GpuAfterToGpu(d, mode)]

TransferToGpu(d, mode) ==
    IF d.gpu = "NOT_ALLOCATED"
    THEN d
    ELSE LET sized  == IF d.gpu = "RESIZED_ON_CPU" THEN ResizeGpuDataPtr(d) ELSE d
             synced == IF ToGpuPush(d, mode) THEN HostToDevice(sized)
                       ELSE IF ToGpuPull(d, mode) THEN DeviceToHost(sized)
                       ELSE sized
         IN  ProtectMData(ToGpuStatus(synced, mode))

\* the do_memcpy switch of transfer_to_cpu_internal
ToCpuPullKeepsScratch(d, mode) ==                      \* mutant
    d.cpu = "OUT_OF_DATE" /\ mode # "NOT_INITIALIZE"
ToCpuPull(d, mode) ==
    /\ d.cpu \in {"OUT_OF_DATE", "TEMP_WRITE"}
    /\ mode # "NOT_INITIALIZE"
ToCpuPush(d, mode) ==
    /\ mode = "SYNC_AND_MOVE"
    /\ \/ d.cpu = "UP_TO_DATE_WRITE"
       \/ d.cpu = "UP_TO_DATE_READ" /\ d.gpu # "UP_TO_DATE_READ"

\* the ownership switch of transfer_to_cpu_internal
CpuAfterToCpu(d, mode) ==
    CASE mode \in {"MOVE", "NOT_INITIALIZE"} -> "UP_TO_DATE_WRITE"
      [] mode = "READ_ONLY"                  -> "UP_TO_DATE_READ"
      [] OTHER                               -> "TEMP_WRITE"
OnlyWriterInvalidated(d, mode) ==                      \* mutant
    IF mode = "SYNC_AND_MOVE" THEN "UP_TO_DATE_WRITE"
    ELSE IF d.gpu # "UP_TO_DATE_WRITE" \/ mode = "COPY" THEN d.gpu
    ELSE IF mode = "READ_ONLY" THEN "UP_TO_DATE_READ" ELSE "OUT_OF_DATE"
GpuAfterToCpu(d, mode) ==
    CASE mode \in {"MOVE", "NOT_INITIALIZE"} ->
            IF d.gpu \in UpToDate THEN "OUT_OF_DATE" ELSE d.gpu
      [] mode = "READ_ONLY" ->
            IF d.gpu = "UP_TO_DATE_WRITE" THEN "UP_TO_DATE_READ" ELSE d.gpu
      [] mode = "COPY"          -> d.gpu
      [] mode = "SYNC_AND_MOVE" -> "UP_TO_DATE_WRITE"

ToCpuStatus(d, mode) ==
    [d EXCEPT !.cpu = CpuAfterToCpu(d, mode), !.gpu = GpuAfterToCpu(d, mode)]

TransferToCpu(d, mode) ==
    IF ~d.instance \/ d.cpu = "NOT_ALLOCATED"
    THEN d
    ELSE LET sized  == IF ToCpuPush(d, mode) /\ d.gpu = "RESIZED_ON_CPU"
                       THEN ResizeGpuDataPtr(d) ELSE d
             synced == IF ToCpuPull(d, mode) THEN DeviceToHost(sized)
                       ELSE IF ToCpuPush(d, mode) THEN HostToDevice(sized)
                       ELSE sized
         IN  ProtectMData(ToCpuStatus(synced, mode))

\* a cudaMemcpy from or to the null m_data of a data set that claims to hold
\* entries: CHECK_CUDA ends the program
ToGpuFails(d, mode) ==
    (ToGpuPush(d, mode) \/ ToGpuPull(d, mode)) /\ ~d.mapped /\ d.size > 0
ToCpuFails(d, mode) ==
    /\ d.instance /\ d.cpu # "NOT_ALLOCATED"
    /\ ToCpuPush(d, mode) \/ ToCpuPull(d, mode)
    /\ ~d.mapped /\ d.size > 0

-----------------------------------------------------------------------------
(* Host memory.                                                            *)

\* what the page fault handler calls, with the value of in_const_operator
AlwaysReadOnly(d, inConst) == TransferToCpu(d, "READ_ONLY")  \* mutant
FaultTransfer(d, inConst) == TransferToCpu(d, IF inConst THEN "READ_ONLY" ELSE "MOVE")

\* the memcpy of copy_over_and_resize_page_aligned_memory reads the old pages
ResizeFaults(d, n) == n > 0 /\ d.exists /\ d.mapped /\ d.prot = "none"

SetGpuDataStatusToResized(d) ==
    IF d.instance
    THEN [d EXCEPT !.gpu = "RESIZED_ON_CPU", !.cpu = "UP_TO_DATE_WRITE"]
    ELSE d

ResizeInternal(d, n, inConst) ==
    LET old     == IF ResizeFaults(d, n) THEN FaultTransfer(d, inConst) ELSE d
        resized == IF n > 0 /\ ~d.exists
                   THEN [old EXCEPT !.size = n]
                   ELSE [old EXCEPT !.size = n,
                                    !.mapped = n > 0,
                                    !.prot = "rw",
                                    !.host = IF n > 0 /\ d.mapped THEN @ ELSE Zero]
    IN  SetGpuDataStatusToResized(resized)

\* silo::register_entry on an entry that was retrieved before
RegisterUnresolved(d, inConst) ==
    ResizeInternal([d EXCEPT !.exists = TRUE], d.size, inConst)

-----------------------------------------------------------------------------
(* Programs.                                                               *)

Loadable(d)  == d.prot \in {"read", "rw"}
Storable(d)  == d.prot = "rw"

HostStore(d, x) == [d EXCEPT !.host = x]

\* a kernel loops over the entries: it touches nothing of an empty data set
KernelStore(d, x) == IF d.size = 0 THEN d ELSE [d EXCEPT !.dev = x]
=============================================================================
