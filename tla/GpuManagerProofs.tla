--------------------------- MODULE GpuManagerProofs ---------------------------
(***************************************************************************)
(* Proofs about GpuManager, for any data sets, kernels and expressions, in *)
(* three parts: what the operations of one data set preserve; the safety   *)
(* of the framework; and that it implements SingleCopy.                    *)
(***************************************************************************)
EXTENDS GpuManagerRefinement, SequenceTheorems, TLAPS

(***************************************************************************)
(* What the operations of one data set preserve: its type, and Coherent,   *)
(* the invariant that relates statuses, page rights, copies and buffers.   *)
(***************************************************************************)

\* the pairs of statuses of a data set with a GPU instance: one device owns it,
\* or both may read it
Owned(d) ==
    \/ /\ d.cpu = "UP_TO_DATE_WRITE"
       /\ d.gpu \in {"OUT_OF_DATE", "TEMP_WRITE", "RESIZED_ON_CPU"}
    \/ /\ d.cpu = "UP_TO_DATE_READ"
       /\ d.gpu \in {"UP_TO_DATE_READ", "OUT_OF_DATE", "TEMP_WRITE", "RESIZED_ON_CPU"}
    \/ /\ d.cpu \in {"OUT_OF_DATE", "TEMP_WRITE"}
       /\ d.gpu \in UpToDate

Guarded(d) ==
    /\ Storable(d) => d.cpu \in {"UP_TO_DATE_WRITE", "TEMP_WRITE"}
    /\ Loadable(d) => d.cpu # "OUT_OF_DATE"

Agree(d) == d.cpu \in UpToDate /\ d.gpu \in UpToDate => d.size = 0 \/ d.host = d.dev

Fits(d) == d.gpu # "RESIZED_ON_CPU" => d.buffer = d.size

Coherent(d) ==
    /\ d.mapped <=> d.exists /\ d.size > 0
    /\ ~d.instance => d.prot = "rw"
    /\ ~(d.instance /\ d.exists) => d.cpu = "NOT_ALLOCATED" /\ d.gpu = "NOT_ALLOCATED"
    /\ d.instance /\ d.exists => Owned(d) /\ Guarded(d) /\ Agree(d) /\ Fits(d)

-----------------------------------------------------------------------------
(* Types.                                                                  *)

LEMMA ContentFacts == Zero \in Content /\ Junk \in Content /\ Values \subseteq Content
BY ValuesAssumption DEF Content

LEMMA SizeFacts == MaxSize \in Nat /\ 0 \in 0..MaxSize
BY MaxSizeAssumption

LEMMA NewDataSetType ==
    ASSUME NEW e \in BOOLEAN, NEW n \in 0..MaxSize
    PROVE  NewDataSet(e, n) \in DataSet /\ Coherent(NewDataSet(e, n))
<1>1. NewDataSet(e, n) \in DataSet
  BY ContentFacts, SizeFacts DEF NewDataSet, DataSet, XpuDataStatus
<1>2. Coherent(NewDataSet(e, n))
  BY DEF NewDataSet, Coherent
<1>3. QED
  BY <1>1, <1>2

LEMMA AllocateType ==
    ASSUME NEW d \in DataSet
    PROVE  AllocateGpuDataPtr(d) \in DataSet
BY ContentFacts DEF AllocateGpuDataPtr, BufferOf, DataSet, XpuDataStatus

LEMMA DeallocateType ==
    ASSUME NEW d \in DataSet
    PROVE  DeallocateGpuDataPtr(d) \in DataSet
BY SizeFacts DEF DeallocateGpuDataPtr, DataSet, XpuDataStatus

LEMMA ResizeGpuType ==
    ASSUME NEW d \in DataSet
    PROVE  ResizeGpuDataPtr(d) \in DataSet
BY AllocateType, DeallocateType DEF ResizeGpuDataPtr

LEMMA AllocateInstanceType ==
    ASSUME NEW d \in DataSet
    PROVE  AllocateGpuInstance(d) \in DataSet
BY DEF AllocateGpuInstance, DataSet, XpuDataStatus

LEMMA SetupType ==
    ASSUME NEW d \in DataSet
    PROVE  Setup(d) \in DataSet
BY AllocateInstanceType, AllocateType DEF Setup

LEMMA ProtectType ==
    ASSUME NEW d \in DataSet
    PROVE  ProtectMData(d) \in DataSet
<1>1. Rights(d) \in {"none", "read", "rw"}
  BY DEF Rights, DataSet
<1>2. QED
  BY <1>1 DEF ProtectMData, DataSet

LEMMA CopyType ==
    ASSUME NEW d \in DataSet
    PROVE  HostToDevice(d) \in DataSet /\ DeviceToHost(d) \in DataSet
BY DEF HostToDevice, DeviceToHost, DataSet

LEMMA StatusType ==
    ASSUME NEW d \in DataSet, NEW mode \in TransferMode
    PROVE  ToGpuStatus(d, mode) \in DataSet /\ ToCpuStatus(d, mode) \in DataSet
<1>1. /\ CpuAfterToGpu(d, mode) \in XpuDataStatus
      /\ GpuAfterToGpu(d, mode) \in XpuDataStatus
  BY DEF CpuAfterToGpu, GpuAfterToGpu, DataSet, XpuDataStatus, TransferMode
<1>2. /\ CpuAfterToCpu(d, mode) \in XpuDataStatus
      /\ GpuAfterToCpu(d, mode) \in XpuDataStatus
  BY DEF CpuAfterToCpu, GpuAfterToCpu, DataSet, XpuDataStatus, TransferMode
<1>3. QED
  BY <1>1, <1>2 DEF ToGpuStatus, ToCpuStatus, DataSet

LEMMA TransferToGpuType ==
    ASSUME NEW d \in DataSet, NEW mode \in TransferMode
    PROVE  TransferToGpu(d, mode) \in DataSet
<1> DEFINE sized  == IF d.gpu = "RESIZED_ON_CPU" THEN ResizeGpuDataPtr(d) ELSE d
           synced == IF ToGpuPush(d, mode) THEN HostToDevice(sized)
                     ELSE IF ToGpuPull(d, mode) THEN DeviceToHost(sized)
                     ELSE sized
<1>1. sized \in DataSet
  BY ResizeGpuType
<1>2. synced \in DataSet
  BY <1>1, CopyType
<1>3. ProtectMData(ToGpuStatus(synced, mode)) \in DataSet
  BY <1>2, StatusType, ProtectType
<1>4. QED
  BY <1>3 DEF TransferToGpu

LEMMA TransferToCpuType ==
    ASSUME NEW d \in DataSet, NEW mode \in TransferMode
    PROVE  TransferToCpu(d, mode) \in DataSet
<1> DEFINE sized  == IF ToCpuPush(d, mode) /\ d.gpu = "RESIZED_ON_CPU"
                     THEN ResizeGpuDataPtr(d) ELSE d
           synced == IF ToCpuPull(d, mode) THEN DeviceToHost(sized)
                     ELSE IF ToCpuPush(d, mode) THEN HostToDevice(sized)
                     ELSE sized
<1>1. sized \in DataSet
  BY ResizeGpuType
<1>2. synced \in DataSet
  BY <1>1, CopyType
<1>3. ProtectMData(ToCpuStatus(synced, mode)) \in DataSet
  BY <1>2, StatusType, ProtectType
<1>4. QED
  BY <1>3 DEF TransferToCpu

LEMMA FaultTransferType ==
    ASSUME NEW d \in DataSet, NEW asConst \in BOOLEAN
    PROVE  FaultTransfer(d, asConst) \in DataSet
BY TransferToCpuType DEF FaultTransfer, TransferMode

LEMMA ResizeInternalType ==
    ASSUME NEW d \in DataSet, NEW n \in 0..MaxSize, NEW asConst \in BOOLEAN
    PROVE  ResizeInternal(d, n, asConst) \in DataSet
<1> DEFINE old     == IF ResizeFaults(d, n) THEN FaultTransfer(d, asConst) ELSE d
           resized == IF n > 0 /\ ~d.exists
                      THEN [old EXCEPT !.size = n]
                      ELSE [old EXCEPT !.size = n,
                                       !.mapped = n > 0,
                                       !.prot = "rw",
                                       !.host = IF n > 0 /\ d.mapped THEN @ ELSE Zero]
<1>1. old \in DataSet
  BY FaultTransferType
<1> HIDE DEF old
<1>2. resized \in DataSet
  <2>1. (n > 0) \in BOOLEAN
    OBVIOUS
  <2>2. CASE n > 0 /\ ~d.exists
    BY <1>1, <2>2 DEF DataSet
  <2>3. CASE ~(n > 0 /\ ~d.exists)
    BY <1>1, <2>1, <2>3, ContentFacts DEF DataSet
  <2>4. QED
    BY <2>2, <2>3
<1> HIDE DEF resized
<1>3. SetGpuDataStatusToResized(resized) \in DataSet
  BY <1>2 DEF SetGpuDataStatusToResized, DataSet, XpuDataStatus
<1> USE DEF old, resized
<1>4. QED
  BY <1>3 DEF ResizeInternal

-----------------------------------------------------------------------------
(* Coherence.                                                              *)

\* what the asserts of the code demand before a COPY
CopyToGpuAllowed(d) == d.cpu \in UpToDate \union {"NOT_ALLOCATED"}
CopyToCpuAllowed(d) == d.gpu \in UpToDate \union {"NOT_ALLOCATED"}

LEMMA SetupCoherent ==
    ASSUME NEW d \in DataSet, Coherent(d)
    PROVE  /\ Coherent(Setup(d))
           /\ Setup(d).instance
           /\ Setup(d).exists = d.exists
           /\ Setup(d).size = d.size
           /\ d.instance => Setup(d) = d
           /\ ~d.instance => Setup(d).gpu \in {"OUT_OF_DATE", "NOT_ALLOCATED"}
<1>1. CASE d.instance
  BY <1>1 DEF Setup, AllocateGpuInstance, Coherent, Owned, UpToDate
<1>2. CASE ~d.instance /\ ~d.exists
  BY <1>2 DEF Setup, AllocateGpuInstance, Coherent, DataSet
<1>3. CASE ~d.instance /\ d.exists
  BY <1>3 DEF Setup, AllocateGpuInstance, AllocateGpuDataPtr, BufferOf, Coherent, DataSet,
              Owned, Guarded, Agree, Fits, UpToDate, Storable, Loadable
<1>4. QED
  BY <1>1, <1>2, <1>3 DEF DataSet

\* the part of a data set that a transfer leaves alone
SameShape(d, r) ==
    /\ r.exists = d.exists /\ r.mapped = d.mapped
    /\ r.size = d.size /\ r.instance = d.instance

LEMMA ResizeGpuFields ==
    ASSUME NEW d \in DataSet
    PROVE  LET r == ResizeGpuDataPtr(d)
           IN  /\ r \in DataSet
               /\ SameShape(d, r)
               /\ r.buffer = d.size /\ r.host = d.host /\ r.prot = d.prot
               /\ r.cpu = "UP_TO_DATE_WRITE" /\ r.gpu = "OUT_OF_DATE"
<1> DEFINE e == DeallocateGpuDataPtr(d)
<1>1. /\ e \in DataSet
      /\ SameShape(d, e)
      /\ e.host = d.host /\ e.prot = d.prot
  BY DeallocateType DEF DeallocateGpuDataPtr, DataSet, SameShape
<1> HIDE DEF e
<1>2. LET r == AllocateGpuDataPtr(e)
      IN  /\ r \in DataSet
          /\ SameShape(e, r)
          /\ r.buffer = e.size /\ r.host = e.host /\ r.prot = e.prot
          /\ r.cpu = "UP_TO_DATE_WRITE" /\ r.gpu = "OUT_OF_DATE"
  BY <1>1, AllocateType DEF AllocateGpuDataPtr, BufferOf, DataSet, SameShape
<1>3. QED
  BY <1>1, <1>2 DEF e, ResizeGpuDataPtr, SameShape

LEMMA TransferToGpuFields ==
    ASSUME NEW d \in DataSet, NEW mode \in TransferMode,
           Coherent(d), d.exists, d.instance
    PROVE  LET r == TransferToGpu(d, mode)
           IN  /\ SameShape(d, r)
               /\ r.prot = Rights(r)
               /\ r.gpu = GpuAfterToGpu(d, mode)
               /\ d.gpu # "RESIZED_ON_CPU" => r.cpu = CpuAfterToGpu(d, mode)
               /\ d.gpu = "RESIZED_ON_CPU" =>
                     r.cpu = CASE mode \in {"MOVE", "NOT_INITIALIZE"} -> "OUT_OF_DATE"
                               [] mode = "READ_ONLY"     -> "UP_TO_DATE_READ"
                               [] mode = "COPY"          -> "UP_TO_DATE_WRITE"
                               [] mode = "SYNC_AND_MOVE" -> "TEMP_WRITE"
               /\ r.buffer = d.size
               /\ ToGpuPush(d, mode) => d.size = 0 \/ (r.dev = d.host /\ r.host = d.host)
               /\ ToGpuPull(d, mode) => d.size = 0 \/ (r.host = d.dev /\ r.dev = d.dev)
               /\ ~ToGpuPush(d, mode) /\ ~ToGpuPull(d, mode) =>
                     /\ r.host = d.host
                     /\ d.gpu # "RESIZED_ON_CPU" => r.dev = d.dev
<1> DEFINE sized  == IF d.gpu = "RESIZED_ON_CPU" THEN ResizeGpuDataPtr(d) ELSE d
           synced == IF ToGpuPush(d, mode) THEN HostToDevice(sized)
                     ELSE IF ToGpuPull(d, mode) THEN DeviceToHost(sized)
                     ELSE sized
           result == ProtectMData(ToGpuStatus(synced, mode))
<1>1. d.gpu # "NOT_ALLOCATED"
  BY DEF Coherent, Owned, UpToDate
<1>2. TransferToGpu(d, mode) = result
  BY <1>1 DEF TransferToGpu
<1>3. /\ sized \in DataSet
      /\ SameShape(d, sized)
      /\ sized.buffer = d.size
      /\ sized.host = d.host
      /\ d.gpu # "RESIZED_ON_CPU" => sized = d
      /\ d.gpu = "RESIZED_ON_CPU" => sized.cpu = "UP_TO_DATE_WRITE"
  <2>1. CASE d.gpu = "RESIZED_ON_CPU"
    BY <2>1, ResizeGpuFields DEF SameShape
  <2>2. CASE d.gpu # "RESIZED_ON_CPU"
    BY <2>2 DEF SameShape, Coherent, Fits
  <2>3. QED
    BY <2>1, <2>2
<1>4. ToGpuPull(d, mode) => d.gpu # "RESIZED_ON_CPU" /\ ~ToGpuPush(d, mode)
  BY DEF ToGpuPull, ToGpuPush
<1> HIDE DEF sized
<1>5. /\ synced \in DataSet
      /\ SameShape(d, synced)
      /\ synced.buffer = d.size
      /\ synced.cpu = sized.cpu
      /\ ToGpuPush(d, mode) => d.size = 0 \/ (synced.dev = d.host /\ synced.host = d.host)
      /\ ToGpuPull(d, mode) => d.size = 0 \/ (synced.host = d.dev /\ synced.dev = d.dev)
      /\ ~ToGpuPush(d, mode) /\ ~ToGpuPull(d, mode) => synced = sized
  BY <1>3, <1>4 DEF HostToDevice, DeviceToHost, DataSet, SameShape
<1> HIDE DEF synced
<1>6. /\ SameShape(synced, result)
      /\ result.prot = Rights(result)
      /\ result.cpu = CpuAfterToGpu(synced, mode)
      /\ result.gpu = GpuAfterToGpu(synced, mode)
      /\ result.buffer = synced.buffer /\ result.host = synced.host /\ result.dev = synced.dev
  BY <1>5 DEF ProtectMData, ToGpuStatus, Rights, DataSet, SameShape
<1>7. GpuAfterToGpu(synced, mode) = GpuAfterToGpu(d, mode)
  BY DEF GpuAfterToGpu
<1>8. d.gpu # "RESIZED_ON_CPU" => CpuAfterToGpu(synced, mode) = CpuAfterToGpu(d, mode)
  BY <1>3, <1>5 DEF CpuAfterToGpu
<1>9. d.gpu = "RESIZED_ON_CPU" =>
        CpuAfterToGpu(synced, mode) =
            CASE mode \in {"MOVE", "NOT_INITIALIZE"} -> "OUT_OF_DATE"
              [] mode = "READ_ONLY"     -> "UP_TO_DATE_READ"
              [] mode = "COPY"          -> "UP_TO_DATE_WRITE"
              [] mode = "SYNC_AND_MOVE" -> "TEMP_WRITE"
  BY <1>3, <1>5 DEF CpuAfterToGpu, TransferMode
<1> HIDE DEF result
<1>10. QED
  BY <1>2, <1>3, <1>5, <1>6, <1>7, <1>8, <1>9 DEF SameShape

LEMMA TransferToGpuCoherent ==
    ASSUME NEW d \in DataSet, NEW mode \in TransferMode, Coherent(d),
           mode = "COPY" => CopyToGpuAllowed(d)
    PROVE  Coherent(TransferToGpu(d, mode))
<1>1. CASE d.gpu = "NOT_ALLOCATED"
  BY <1>1 DEF TransferToGpu
<1>2. CASE d.gpu # "NOT_ALLOCATED" /\ d.instance /\ d.exists
  <2> DEFINE r == TransferToGpu(d, mode)
  <2>1. SameShape(d, r) /\ r.prot = Rights(r) /\ r.buffer = d.size
    BY <1>2, TransferToGpuFields
  <2>2. Owned(r)
    BY <1>2, TransferToGpuFields
       DEF Owned, Coherent, GpuAfterToGpu, CpuAfterToGpu, CopyToGpuAllowed, UpToDate, TransferMode
  <2>3. Guarded(r)
    BY <2>1, <2>2 DEF Owned, Guarded, Rights, Storable, Loadable, UpToDate
  <2>4. Agree(r)
    <3>1. SUFFICES ASSUME r.cpu \in UpToDate, r.gpu \in UpToDate, d.size # 0
                   PROVE  r.host = r.dev
      BY <2>1 DEF Agree, SameShape
    <3>2. r.cpu = "UP_TO_DATE_READ" /\ mode = "READ_ONLY"
      BY <1>2, <2>2, <3>1, TransferToGpuFields
         DEF Owned, GpuAfterToGpu, CpuAfterToGpu, UpToDate, TransferMode, Coherent
    <3>3. CASE ToGpuPush(d, mode)
      BY <1>2, <3>1, <3>3, TransferToGpuFields
    <3>4. CASE ~ToGpuPush(d, mode)
      <4>1. d.gpu \in UpToDate /\ ~ToGpuPull(d, mode)
        BY <1>2, <3>2, <3>4 DEF ToGpuPush, ToGpuPull, Coherent, Owned, UpToDate
      <4>2. d.cpu = "UP_TO_DATE_READ"
        BY <1>2, <3>2, <4>1, TransferToGpuFields DEF CpuAfterToGpu, Coherent, Owned, UpToDate
      <4>3. d.host = d.dev
        BY <1>2, <3>1, <4>1, <4>2 DEF Coherent, Agree, UpToDate
      <4>4. QED
        BY <1>2, <3>4, <4>1, <4>3, TransferToGpuFields DEF UpToDate
    <3>5. QED
      BY <3>3, <3>4
  <2>5. QED
    BY <1>2, <2>1, <2>2, <2>3, <2>4 DEF Coherent, Fits, SameShape
<1>3. QED
  BY <1>1, <1>2 DEF Coherent

LEMMA TransferToCpuFields ==
    ASSUME NEW d \in DataSet, NEW mode \in TransferMode,
           Coherent(d), d.exists, d.instance
    PROVE  LET r == TransferToCpu(d, mode)
           IN  /\ SameShape(d, r)
               /\ r.prot = Rights(r)
               /\ r.cpu = CpuAfterToCpu(d, mode)
               /\ r.gpu = GpuAfterToCpu(d, mode)
               /\ d.gpu # "RESIZED_ON_CPU" => r.buffer = d.size
               /\ mode = "SYNC_AND_MOVE" => r.buffer = d.size
               /\ ToCpuPull(d, mode) => d.size = 0 \/ (r.dev = d.dev /\ r.host = d.dev)
               /\ ToCpuPush(d, mode) => d.size = 0 \/ (r.host = d.host /\ r.dev = d.host)
               /\ ~ToCpuPush(d, mode) /\ ~ToCpuPull(d, mode) => r.host = d.host /\ r.dev = d.dev
<1> DEFINE sized  == IF ToCpuPush(d, mode) /\ d.gpu = "RESIZED_ON_CPU"
                     THEN ResizeGpuDataPtr(d) ELSE d
           synced == IF ToCpuPull(d, mode) THEN DeviceToHost(sized)
                     ELSE IF ToCpuPush(d, mode) THEN HostToDevice(sized)
                     ELSE sized
           result == ProtectMData(ToCpuStatus(synced, mode))
<1>1. d.cpu # "NOT_ALLOCATED"
  BY DEF Coherent, Owned, UpToDate
<1>2. TransferToCpu(d, mode) = result
  BY <1>1 DEF TransferToCpu
<1>3. /\ ToCpuPull(d, mode) => ~ToCpuPush(d, mode)
      /\ mode = "SYNC_AND_MOVE" /\ d.gpu = "RESIZED_ON_CPU" => ToCpuPush(d, mode)
  BY DEF ToCpuPull, ToCpuPush, Coherent, Owned, UpToDate
<1>4. /\ sized \in DataSet
      /\ SameShape(d, sized)
      /\ sized.host = d.host
      /\ d.gpu # "RESIZED_ON_CPU" \/ mode = "SYNC_AND_MOVE" => sized.buffer = d.size
      /\ ~(ToCpuPush(d, mode) /\ d.gpu = "RESIZED_ON_CPU") => sized = d
  <2>1. CASE ToCpuPush(d, mode) /\ d.gpu = "RESIZED_ON_CPU"
    BY <2>1, ResizeGpuFields DEF SameShape
  <2>2. CASE ~(ToCpuPush(d, mode) /\ d.gpu = "RESIZED_ON_CPU")
    BY <1>3, <2>2 DEF SameShape, Coherent, Fits
  <2>3. QED
    BY <2>1, <2>2
<1>5. ToCpuPush(d, mode) /\ d.gpu = "RESIZED_ON_CPU" => mode = "SYNC_AND_MOVE"
  BY DEF ToCpuPush
<1> HIDE DEF sized
<1>6. /\ synced \in DataSet
      /\ SameShape(d, synced)
      /\ synced.buffer = sized.buffer
      /\ synced.gpu = sized.gpu
      /\ ToCpuPull(d, mode) => d.size = 0 \/ (synced.dev = d.dev /\ synced.host = d.dev)
      /\ ToCpuPush(d, mode) => d.size = 0 \/ (synced.host = d.host /\ synced.dev = d.host)
      /\ ~ToCpuPush(d, mode) /\ ~ToCpuPull(d, mode) => synced = d
  BY <1>3, <1>4 DEF HostToDevice, DeviceToHost, DataSet, SameShape
<1> HIDE DEF synced
<1>7. /\ SameShape(synced, result)
      /\ result.prot = Rights(result)
      /\ result.cpu = CpuAfterToCpu(synced, mode)
      /\ result.gpu = GpuAfterToCpu(synced, mode)
      /\ result.buffer = synced.buffer /\ result.host = synced.host /\ result.dev = synced.dev
  BY <1>6 DEF ProtectMData, ToCpuStatus, Rights, DataSet, SameShape
<1>8. CpuAfterToCpu(synced, mode) = CpuAfterToCpu(d, mode)
  BY DEF CpuAfterToCpu
<1>9. GpuAfterToCpu(synced, mode) = GpuAfterToCpu(d, mode)
  BY <1>4, <1>5, <1>6 DEF GpuAfterToCpu
<1> HIDE DEF result
<1>10. QED
  BY <1>2, <1>4, <1>6, <1>7, <1>8, <1>9 DEF SameShape

LEMMA TransferToCpuCoherent ==
    ASSUME NEW d \in DataSet, NEW mode \in TransferMode, Coherent(d),
           mode = "COPY" /\ d.instance => CopyToCpuAllowed(d)
    PROVE  Coherent(TransferToCpu(d, mode))
<1>1. CASE ~d.instance \/ d.cpu = "NOT_ALLOCATED"
  BY <1>1 DEF TransferToCpu
<1>2. CASE d.instance /\ d.cpu # "NOT_ALLOCATED"
  <2> DEFINE r == TransferToCpu(d, mode)
  <2>1. d.exists
    BY <1>2 DEF Coherent
  <2>2. SameShape(d, r) /\ r.prot = Rights(r)
    BY <1>2, <2>1, TransferToCpuFields
  <2>3. Owned(r)
    BY <1>2, <2>1, TransferToCpuFields
       DEF Owned, Coherent, GpuAfterToCpu, CpuAfterToCpu, CopyToCpuAllowed, UpToDate, TransferMode
  <2>4. Guarded(r)
    BY <2>2, <2>3 DEF Owned, Guarded, Rights, Storable, Loadable, UpToDate
  <2>5. Agree(r)
    <3>1. SUFFICES ASSUME r.cpu \in UpToDate, r.gpu \in UpToDate, d.size # 0
                   PROVE  r.host = r.dev
      BY <2>2 DEF Agree, SameShape
    <3>2. mode = "READ_ONLY" /\ d.gpu \in UpToDate /\ ~ToCpuPush(d, mode)
      BY <1>2, <2>1, <2>3, <3>1, TransferToCpuFields
         DEF Owned, GpuAfterToCpu, CpuAfterToCpu, UpToDate, TransferMode, Coherent,
             CopyToCpuAllowed, ToCpuPush
    <3>3. CASE ToCpuPull(d, mode)
      BY <1>2, <2>1, <3>1, <3>3, TransferToCpuFields
    <3>4. CASE ~ToCpuPull(d, mode)
      <4>1. d.cpu = "UP_TO_DATE_READ"
        BY <1>2, <2>1, <3>2, <3>4 DEF ToCpuPull, Coherent, Owned, UpToDate
      <4>2. d.host = d.dev
        BY <1>2, <2>1, <3>1, <3>2, <4>1 DEF Coherent, Agree, UpToDate
      <4>3. QED
        BY <1>2, <2>1, <3>2, <3>4, <4>2, TransferToCpuFields
    <3>5. QED
      BY <3>3, <3>4
  <2>6. Fits(r)
    BY <1>2, <2>1, <2>2, TransferToCpuFields
       DEF Fits, GpuAfterToCpu, SameShape, TransferMode, UpToDate
  <2>7. QED
    BY <1>2, <2>1, <2>2, <2>3, <2>4, <2>5, <2>6 DEF Coherent, SameShape
<1>3. QED
  BY <1>1, <1>2

\* after a fault the CPU has the right the handler was asked for
LEMMA FaultTransferFacts ==
    ASSUME NEW d \in DataSet, NEW asConst \in BOOLEAN, Coherent(d), d.exists
    PROVE  LET r == FaultTransfer(d, asConst)
           IN  /\ Coherent(r)
               /\ SameShape(d, r)
               /\ d.instance => r.prot = IF asConst THEN "read" ELSE "rw"
               /\ ~d.instance => r = d
<1> DEFINE mode == IF asConst THEN "READ_ONLY" ELSE "MOVE"
<1>1. mode \in TransferMode /\ mode # "COPY"
  BY DEF TransferMode
<1>2. Coherent(TransferToCpu(d, mode))
  BY <1>1, TransferToCpuCoherent
<1>3. CASE ~d.instance
  BY <1>2, <1>3 DEF FaultTransfer, TransferToCpu, SameShape
<1>4. CASE d.instance
  <2>1. /\ SameShape(d, TransferToCpu(d, mode))
        /\ TransferToCpu(d, mode).prot = Rights(TransferToCpu(d, mode))
        /\ TransferToCpu(d, mode).cpu = CpuAfterToCpu(d, mode)
    BY <1>1, <1>4, TransferToCpuFields
  <2>2. QED
    BY <1>2, <1>4, <2>1 DEF FaultTransfer, Rights, CpuAfterToCpu
<1>5. QED
  BY <1>3, <1>4 DEF DataSet

LEMMA ResizeInternalFacts ==
    ASSUME NEW d \in DataSet, NEW n \in 0..MaxSize, NEW asConst \in BOOLEAN,
           Coherent(d), d.exists \/ ~d.instance
    PROVE  LET r == ResizeInternal(d, n, asConst)
           IN  Coherent(r) /\ r.exists = d.exists /\ r.instance = d.instance /\ r.size = n
<1> DEFINE old     == IF ResizeFaults(d, n) THEN FaultTransfer(d, asConst) ELSE d
           resized == IF n > 0 /\ ~d.exists
                      THEN [old EXCEPT !.size = n]
                      ELSE [old EXCEPT !.size = n,
                                       !.mapped = n > 0,
                                       !.prot = "rw",
                                       !.host = IF n > 0 /\ d.mapped THEN @ ELSE Zero]
<1>1. old \in DataSet /\ Coherent(old) /\ SameShape(d, old)
  <2>1. CASE ResizeFaults(d, n)
    BY <2>1, FaultTransferFacts, FaultTransferType DEF ResizeFaults
  <2>2. CASE ~ResizeFaults(d, n)
    BY <2>2 DEF SameShape
  <2>3. QED
    BY <2>1, <2>2
<1> HIDE DEF old
<1>2. /\ resized.size = n
      /\ resized.exists = d.exists /\ resized.instance = d.instance
      /\ resized.cpu = old.cpu /\ resized.gpu = old.gpu
      /\ resized.mapped = (d.exists /\ n > 0)
      /\ d.exists => resized.prot = "rw"
      /\ ~d.instance => resized.prot = "rw"
  BY <1>1 DEF DataSet, SameShape, Coherent
<1>3. resized \in DataSet
  <2>1. (n > 0) \in BOOLEAN
    OBVIOUS
  <2>2. CASE n > 0 /\ ~d.exists
    BY <1>1, <2>2 DEF DataSet
  <2>3. CASE ~(n > 0 /\ ~d.exists)
    BY <1>1, <2>1, <2>3, ContentFacts DEF DataSet
  <2>4. QED
    BY <2>2, <2>3
<1>4. ResizeInternal(d, n, asConst) = SetGpuDataStatusToResized(resized)
  BY DEF ResizeInternal, old
<1> HIDE DEF resized
<1>5. CASE ~d.instance
  BY <1>1, <1>2, <1>4, <1>5 DEF SetGpuDataStatusToResized, Coherent, SameShape
<1>6. CASE d.instance
  <2>1. /\ SetGpuDataStatusToResized(resized).gpu = "RESIZED_ON_CPU"
        /\ SetGpuDataStatusToResized(resized).cpu = "UP_TO_DATE_WRITE"
        /\ SetGpuDataStatusToResized(resized).prot = resized.prot
        /\ SetGpuDataStatusToResized(resized).mapped = resized.mapped
        /\ SameShape(resized, SetGpuDataStatusToResized(resized))
    BY <1>2, <1>3, <1>6 DEF SetGpuDataStatusToResized, DataSet, SameShape
  <2>2. QED
    BY <1>2, <1>4, <1>6, <2>1
       DEF Coherent, Owned, Guarded, Agree, Fits, UpToDate, Storable, Loadable, SameShape
<1>7. QED
  BY <1>5, <1>6 DEF DataSet

LEMMA RegisterUnresolvedFacts ==
    ASSUME NEW d \in DataSet, NEW asConst \in BOOLEAN, Coherent(d), ~d.exists
    PROVE  LET r == RegisterUnresolved(d, asConst)
           IN  r \in DataSet /\ Coherent(r) /\ r.exists /\ r.instance = d.instance
<1> DEFINE e       == [d EXCEPT !.exists = TRUE]
           resized == [e EXCEPT !.size = e.size,
                                !.mapped = e.size > 0,
                                !.prot = "rw",
                                !.host = IF e.size > 0 /\ e.mapped THEN @ ELSE Zero]
<1>1. /\ e \in DataSet
      /\ e.exists /\ e.size = d.size /\ ~e.mapped /\ e.instance = d.instance
      /\ ~d.instance => e.cpu = "NOT_ALLOCATED" /\ e.gpu = "NOT_ALLOCATED"
  BY DEF DataSet, Coherent
<1> HIDE DEF e
<1>2. /\ resized.exists /\ resized.size = d.size /\ resized.mapped = (d.size > 0)
      /\ resized.prot = "rw" /\ resized.instance = d.instance
      /\ resized.cpu = e.cpu /\ resized.gpu = e.gpu
  BY <1>1 DEF DataSet
<1>3. resized \in DataSet
  <2>1. (e.size > 0) \in BOOLEAN
    OBVIOUS
  <2>2. QED
    BY <1>1, <2>1, ContentFacts DEF DataSet
<1>4. RegisterUnresolved(d, asConst) = SetGpuDataStatusToResized(resized)
  BY <1>1 DEF RegisterUnresolved, ResizeInternal, ResizeFaults, e
<1> HIDE DEF resized
<1>5. CASE ~d.instance
  BY <1>1, <1>2, <1>3, <1>4, <1>5 DEF SetGpuDataStatusToResized, Coherent
<1>6. CASE d.instance
  <2>1. /\ SetGpuDataStatusToResized(resized).gpu = "RESIZED_ON_CPU"
        /\ SetGpuDataStatusToResized(resized).cpu = "UP_TO_DATE_WRITE"
        /\ SetGpuDataStatusToResized(resized).prot = "rw"
        /\ SetGpuDataStatusToResized(resized).mapped = (d.size > 0)
        /\ SameShape(resized, SetGpuDataStatusToResized(resized))
        /\ SetGpuDataStatusToResized(resized) \in DataSet
    BY <1>2, <1>3, <1>6 DEF SetGpuDataStatusToResized, DataSet, SameShape, XpuDataStatus
  <2>2. QED
    BY <1>2, <1>4, <1>6, <2>1
       DEF Coherent, Owned, Guarded, Agree, Fits, UpToDate, Storable, Loadable, SameShape
<1>7. QED
  BY <1>5, <1>6 DEF DataSet

LEMMA HostStoreFacts ==
    ASSUME NEW d \in DataSet, NEW x \in Values, Coherent(d), Storable(d)
    PROVE  LET r == HostStore(d, x)
           IN  r \in DataSet /\ Coherent(r) /\ SameShape(d, r)
<1> DEFINE r == HostStore(d, x)
<1>1. /\ r \in DataSet /\ SameShape(d, r)
      /\ r.cpu = d.cpu /\ r.gpu = d.gpu /\ r.prot = d.prot /\ r.buffer = d.buffer
  BY ContentFacts DEF HostStore, DataSet, SameShape
<1>2. QED
  BY <1>1 DEF Coherent, Owned, Guarded, Agree, Fits, UpToDate, Storable, Loadable, SameShape

\* a kernel stores where no host copy counts
LEMMA KernelStoreFacts ==
    ASSUME NEW d \in DataSet, NEW x \in Values, Coherent(d),
           d.cpu \in UpToDate => d.gpu = "TEMP_WRITE"
    PROVE  LET r == KernelStore(d, x)
           IN  r \in DataSet /\ Coherent(r) /\ SameShape(d, r)
<1> DEFINE r == KernelStore(d, x)
<1>1. /\ r \in DataSet /\ SameShape(d, r)
      /\ r.cpu = d.cpu /\ r.gpu = d.gpu /\ r.prot = d.prot /\ r.buffer = d.buffer
  BY ContentFacts DEF KernelStore, DataSet, SameShape
<1>2. QED
  BY <1>1 DEF Coherent, Owned, Guarded, Agree, Fits, UpToDate, Storable, Loadable, SameShape

(***************************************************************************)
(* Safety of the framework.                                                *)
(***************************************************************************)

\* what todo holds depends on the task
TypeInv ==
    /\ TypeOK
    /\ task = "launch"     => todo \in Seq(Argument)
    /\ task = "expression" => todo \in Seq(Operand)

LEMMA CallType ==
    ASSUME NEW request, NEW new, NEW fails,
           TypeInv, Call(request, new, fails), fails \in BOOLEAN,
           new \in [Vars -> DataSet], inConst' \in BOOLEAN
    PROVE  TypeInv'
BY DEF Call, Idle, TypeInv, TypeOK

LEMMA OneTransferred ==
    ASSUME ds \in [Vars -> DataSet], NEW v \in Vars, NEW d \in DataSet
    PROVE  [ds EXCEPT ![v] = d] \in [Vars -> DataSet]
OBVIOUS

LEMMA StoreType ==
    ASSUME NEW d \in DataSet, NEW x \in Content
    PROVE  [d EXCEPT !.dev = x] \in DataSet /\ [d EXCEPT !.host = x] \in DataSet
BY DEF DataSet

LEMMA KernelStoreType ==
    ASSUME NEW d \in DataSet, NEW x \in Values
    PROVE  KernelStore(d, x) \in DataSet
BY StoreType, ContentFacts DEF KernelStore

LEMMA HeadOperand ==
    ASSUME NEW s \in Seq(Operand), s # <<>>
    PROVE  Head(s) \in Operand /\ Head(s).var \in Vars /\ Tail(s) \in Seq(Operand)
<1>1. Head(s) \in Operand /\ Tail(s) \in Seq(Operand)
  OBVIOUS
<1>2. QED
  BY <1>1 DEF Operand

LEMMA HeadArgument ==
    ASSUME NEW s \in Seq(Argument), s # <<>>
    PROVE  Head(s) \in Argument /\ Head(s).var \in Vars /\ Tail(s) \in Seq(Argument)
<1>1. Head(s) \in Argument /\ Tail(s) \in Seq(Argument)
  OBVIOUS
<1>2. QED
  BY <1>1 DEF Argument

LEMMA ElementArgument ==
    ASSUME NEW s \in Seq(Argument), NEW i \in DOMAIN s
    PROVE  s[i] \in Argument /\ s[i].var \in Vars /\ s[i].mutable \in BOOLEAN
<1>1. s[i] \in Argument
  OBVIOUS
<1>2. QED
  BY <1>1 DEF Argument

LEMMA ElementOperand ==
    ASSUME NEW s \in Seq(Operand), NEW i \in DOMAIN s
    PROVE  s[i].var \in Vars
<1>1. s[i] \in Operand
  OBVIOUS
<1>2. QED
  BY <1>1 DEF Operand

LEMMA ElementOfTail ==
    ASSUME NEW S, NEW s \in Seq(S), s # <<>>
    PROVE  /\ \A j \in DOMAIN s : j # 1 => j - 1 \in DOMAIN Tail(s) /\ Tail(s)[j - 1] = s[j]
           /\ \A j \in DOMAIN Tail(s) : j + 1 \in DOMAIN s /\ Tail(s)[j] = s[j + 1]
           /\ 1 \in DOMAIN s /\ s[1] = Head(s)
OBVIOUS

LEMMA SourcedType ==
    ASSUME NEW d \in DataSet
    PROVE  Sourced(d) \in DataSet
BY SetupType, TransferToGpuType DEF Sourced, TransferMode

LEMMA TypeInit == Init => TypeInv
<1> SUFFICES ASSUME Init PROVE TypeInv
  OBVIOUS
<1>1. {NewDataSet(e, n) : e \in BOOLEAN, n \in 0..MaxSize} \subseteq DataSet
  BY NewDataSetType
<1>2. ds \in [Vars -> DataSet]
  BY <1>1 DEF Init
<1>3. <<>> \in Seq(Argument)
  OBVIOUS
<1>4. faults \in 0..FaultLimit
  BY DEF Init, FaultLimit
<1>5. QED
  BY <1>2, <1>3, <1>4 DEF Init, TypeInv, TypeOK

LEMMA TypeStep == TypeInv /\ [Next]_vars => TypeInv'
<1> SUFFICES ASSUME TypeInv, [Next]_vars PROVE TypeInv'
  OBVIOUS
<1> USE DEF TypeInv, TypeOK
<1>1. ASSUME NEW v \in Vars, NEW mode \in TransferMode, TransferToGpuCall(v, mode)
      PROVE  TypeInv'
  <2>1. TransferToGpu(Setup(ds[v]), mode) \in DataSet
    BY SetupType, TransferToGpuType
  <2>2. [ds EXCEPT ![v] = TransferToGpu(Setup(ds[v]), mode)] \in [Vars -> DataSet]
    BY <2>1
  <2>3. ToGpuFails(Setup(ds[v]), mode) \in BOOLEAN
    BY DEF ToGpuFails
  <2>4. QED
    BY <1>1, <2>2, <2>3, CallType DEF TransferToGpuCall
<1>2. ASSUME NEW v \in Vars, NEW mode \in TransferMode, TransferToCpuCall(v, mode)
      PROVE  TypeInv'
  <2>1. [ds EXCEPT ![v] = TransferToCpu(ds[v], mode)] \in [Vars -> DataSet]
    BY TransferToCpuType
  <2>2. ToCpuFails(ds[v], mode) \in BOOLEAN
    BY DEF ToCpuFails
  <2>3. QED
    BY <1>2, <2>1, <2>2, CallType DEF TransferToCpuCall
<1>3. ASSUME NEW mode \in {"COPY", "MOVE"}, TransferAllToCpu(mode)
      PROVE  TypeInv'
  <2> DEFINE Registered == {v \in Vars : ds[v].exists}
             new == [v \in Vars |-> IF v \in Registered THEN TransferToCpu(ds[v], mode) ELSE ds[v]]
  <2>1. new \in [Vars -> DataSet]
    BY TransferToCpuType DEF TransferMode
  <2>2. QED
    BY <1>3, <2>1, CallType DEF TransferAllToCpu
<1>4. ASSUME NEW dest \in Vars, NEW src \in Vars, MemcpyVar(dest, src)
      PROVE  TypeInv'
  <2> DEFINE ready == [ds EXCEPT ![src] = Sourced(ds[src])]
             owned == [ready EXCEPT ![dest] = TransferToGpu(Setup(ready[dest]), "NOT_INITIALIZE")]
  <2>1. ready \in [Vars -> DataSet]
    BY SourcedType
  <2>2. owned \in [Vars -> DataSet]
    BY <2>1, SetupType, TransferToGpuType DEF TransferMode
  <2>3. owned[src].dev \in Content
    BY <2>2 DEF DataSet
  <2>4. [owned[dest] EXCEPT !.dev = owned[src].dev] \in DataSet
    BY <2>2, <2>3, StoreType
  <2>5. [owned EXCEPT ![dest].dev = owned[src].dev] \in [Vars -> DataSet]
    BY <2>2, <2>4
  <2>6. QED
    BY <1>4, <2>5, CallType DEF MemcpyVar
<1>5. ASSUME NEW args \in Kernels, LaunchBegin(args)
      PROVE  TypeInv'
  <2>1. args \in Seq(Argument)
    BY KernelsAssumption
  <2>2. ds' \in [Vars -> DataSet]
    BY <1>5, SetupType DEF LaunchBegin
  <2>3. QED
    BY <1>5, <2>1, <2>2 DEF LaunchBegin
<1>6. ASSUME TransferArgument
      PROVE  TypeInv'
  <2>1. todo \in Seq(Argument) /\ todo # <<>>
    BY <1>6 DEF TransferArgument
  <2>2. Tail(todo) \in Seq(Argument) /\ Head(todo).var \in Vars
    BY <2>1, HeadArgument
  <2>3. ArgumentMode(Head(todo)) \in TransferMode
    BY DEF ArgumentMode, TransferMode
  <2>4. ds' \in [Vars -> DataSet]
    BY <1>6, <2>2, <2>3, TransferToGpuType DEF TransferArgument
  <2>5. aborted' \in BOOLEAN
    BY <1>6 DEF TransferArgument
  <2>6. QED
    BY <1>6, <2>2, <2>4, <2>5 DEF TransferArgument
<1>7. ASSUME RunKernel
      PROVE  TypeInv'
  <2> DEFINE Touched(S) == {v \in S : ds[v].exists /\ ds[v].size > 0}
  <2>1. ASSUME NEW x \in [Touched(MutableVars) -> Values],
               ds' = [v \in Vars |-> IF v \in Touched(MutableVars)
                                     THEN KernelStore(ds[v], x[v]) ELSE ds[v]]
        PROVE  ds' \in [Vars -> DataSet]
    <3>1. ASSUME NEW v \in Vars
          PROVE  (IF v \in Touched(MutableVars) THEN KernelStore(ds[v], x[v]) ELSE ds[v]) \in DataSet
      BY KernelStoreType
    <3>2. QED
      BY <2>1, <3>1
  <2>2. ds' \in [Vars -> DataSet]
    BY <1>7, <2>1 DEF RunKernel
  <2>3. <<>> \in Seq(Argument)
    OBVIOUS
  <2>4. QED
    BY <1>7, <2>2, <2>3 DEF RunKernel
<1>8. ASSUME NEW v \in Vars, NEW n \in 0..MaxSize, Resize(v, n)
      PROVE  TypeInv'
  <2>1. [ds EXCEPT ![v] = ResizeInternal(ds[v], n, inConst)] \in [Vars -> DataSet]
    BY ResizeInternalType
  <2>2. inConst' \in BOOLEAN
    BY <1>8 DEF Resize
  <2>3. QED
    BY <1>8, <2>1, <2>2, CallType DEF Resize
<1>9. ASSUME NEW v \in Vars, Register(v)
      PROVE  TypeInv'
  <2>1. [ds[v] EXCEPT !.exists = TRUE] \in DataSet /\ ds[v].size \in 0..MaxSize
    BY DEF DataSet
  <2>2. RegisterUnresolved(ds[v], inConst) \in DataSet
    BY <2>1, ResizeInternalType DEF RegisterUnresolved
  <2>3. QED
    BY <1>9, <2>2, CallType DEF Register
<1>10. ASSUME NEW e \in Expressions, Evaluate(e)
       PROVE  TypeInv'
  <2>1. e \in Seq(Operand)
    BY ExpressionsAssumption
  <2>2. inConst' \in BOOLEAN
    BY <1>10 DEF Evaluate
  <2>3. QED
    BY <1>10, <2>1, <2>2 DEF Evaluate, FaultLimit
<1>11. ASSUME Fault
       PROVE  TypeInv'
  <2>1. Head(todo).var \in Vars
    BY <1>11, HeadOperand DEF Fault
  <2>2. ds' \in [Vars -> DataSet]
    BY <1>11, <2>1, FaultTransferType DEF Fault
  <2>3. QED
    <3>1. faults' \in 0..FaultLimit
      BY <1>11 DEF Fault, FaultLimit
    <3>2. QED
      BY <1>11, <2>2, <3>1 DEF Fault, FlagAfterFault
<1>12. ASSUME Perform
       PROVE  TypeInv'
  <2>1. Head(todo).var \in Vars /\ Tail(todo) \in Seq(Operand)
    BY <1>12, HeadOperand DEF Perform
  <2>2. ASSUME NEW x \in Values
        PROVE  [ds EXCEPT ![Head(todo).var] = HostStore(ds[Head(todo).var], x)] \in [Vars -> DataSet]
    BY <2>1, ContentFacts, StoreType DEF HostStore
  <2>3. ds' \in [Vars -> DataSet]
    BY <1>12, <2>2 DEF Perform
  <2>4. QED
    BY <1>12, <2>1, <2>3 DEF Perform, FaultLimit
<1>13. CASE UNCHANGED vars
  BY <1>13 DEF vars
<1>14. QED
  BY <1>1, <1>2, <1>3, <1>4, <1>5, <1>6, <1>7, <1>8, <1>9, <1>10, <1>11, <1>12, <1>13 DEF Next

\* The variables keep their types, whatever the program does, also when it
\* ignores the obligations.
THEOREM TypeCorrect == Spec => []TypeOK
<1>1. Spec => []TypeInv
  BY TypeInit, TypeStep, PTL DEF Spec
<1>2. TypeInv => TypeOK
  BY DEF TypeInv
<1>3. QED
  BY <1>1, <1>2, PTL

-----------------------------------------------------------------------------
(* Safety, for a program that meets the obligations.                       *)

\* what a kernel needs of one of its arguments
Ready(d, mutable) ==
    /\ Extractable(d)
    /\ mutable /\ d.cpu \in UpToDate => d.gpu = "TEMP_WRITE"

\* every argument of a launch is ready or still to be transferred
LaunchInv ==
    /\ \A i \in DOMAIN kernel :
          /\ ds[kernel[i].var].instance
          /\ \/ Ready(ds[kernel[i].var], kernel[i].mutable)
             \/ \E j \in DOMAIN todo : todo[j] = kernel[i]
    /\ \A j \in DOMAIN todo : \E i \in DOMAIN kernel : todo[j] = kernel[i]

\* the first fault of an operand clears in_const_operator, the second makes
\* its pages writable
ExpressionInv ==
    /\ todo # <<>>
    /\ \A i \in DOMAIN todo : ds[todo[i].var].exists
    /\ \/ faults = 0
       \/ faults = 1 /\ ~inConst
       \/ faults = 2 /\ Storable(ds[Head(todo).var])

\* the inductive invariant
SafeInv ==
    /\ TypeInv
    /\ ~aborted
    /\ faults = 0 \/ task = "expression"
    /\ \A v \in Vars : Coherent(ds[v])
    /\ task = "launch" => LaunchInv
    /\ task = "expression" => ExpressionInv

\* a transfer never meets a null m_data
LEMMA NoFailure ==
    ASSUME NEW d \in DataSet, NEW mode \in TransferMode, Coherent(d)
    PROVE  ~ToGpuFails(d, mode) /\ ~ToCpuFails(d, mode)
BY SizeFacts DEF ToGpuFails, ToGpuPush, ToGpuPull, ToCpuFails, ToCpuPush, ToCpuPull, Coherent,
                 DataSet

\* a call keeps the invariant when it keeps every data set coherent
LEMMA CallSafe ==
    ASSUME SafeInv, TypeInv',
           NEW request, NEW new, NEW fails, Call(request, new, fails),
           ~fails, \A v \in Vars : Coherent(new[v])
    PROVE  SafeInv'
BY DEF SafeInv, Call, Idle

LEMMA SourcedCoherent ==
    ASSUME NEW d \in DataSet, Coherent(d)
    PROVE  Coherent(Sourced(d)) /\ Sourced(d).exists = d.exists
<1>1. ASSUME NEW e \in DataSet, Coherent(e), NEW mode \in {"MOVE", "READ_ONLY"}
      PROVE  Coherent(TransferToGpu(e, mode)) /\ TransferToGpu(e, mode).exists = e.exists
  <2>1. mode \in TransferMode
    BY DEF TransferMode
  <2>2. CASE e.exists /\ e.instance
    BY <1>1, <2>1, <2>2, TransferToGpuCoherent, TransferToGpuFields DEF SameShape
  <2>3. CASE ~(e.exists /\ e.instance)
    BY <1>1, <2>3 DEF Coherent, TransferToGpu
  <2>4. QED
    BY <2>2, <2>3
<1>2. QED
  BY <1>1, SetupCoherent, SetupType DEF Sourced

\* NOT_INITIALIZE leaves no copy on the CPU
LEMMA TransferTakesOver ==
    ASSUME NEW d \in DataSet, Coherent(d), d.exists, d.instance
    PROVE  LET r == TransferToGpu(d, "NOT_INITIALIZE")
           IN  r \in DataSet /\ Coherent(r) /\ r.cpu \notin UpToDate
<1>1. "NOT_INITIALIZE" \in TransferMode
  BY DEF TransferMode
<1>2. TransferToGpu(d, "NOT_INITIALIZE").cpu \in {"OUT_OF_DATE", "TEMP_WRITE"}
  BY <1>1, TransferToGpuFields DEF CpuAfterToGpu
<1>3. QED
  BY <1>1, <1>2, TransferToGpuType, TransferToGpuCoherent DEF UpToDate

LEMMA DeviceStoreCoherent ==
    ASSUME NEW d \in DataSet, NEW x \in Content, Coherent(d), d.cpu \notin UpToDate
    PROVE  Coherent([d EXCEPT !.dev = x])
<1> DEFINE r == [d EXCEPT !.dev = x]
<1>1. /\ SameShape(d, r)
      /\ r.cpu = d.cpu /\ r.gpu = d.gpu /\ r.prot = d.prot /\ r.buffer = d.buffer
  BY DEF DataSet, SameShape
<1>2. QED
  BY <1>1 DEF Coherent, Owned, Guarded, Agree, Fits, Storable, Loadable, SameShape

LEMMA SafeInit == Init => SafeInv
<1> SUFFICES ASSUME Init PROVE SafeInv
  OBVIOUS
<1>1. ASSUME NEW v \in Vars
      PROVE  Coherent(ds[v])
  BY NewDataSetType DEF Init
<1>2. QED
  BY <1>1, TypeInit DEF Init, SafeInv

\* a transfer for a later argument leaves an earlier one ready
LEMMA TransferKeepsReady ==
    ASSUME NEW d \in DataSet, Coherent(d), d.instance, NEW a \in Argument, NEW m \in BOOLEAN,
           d.gpu # "TEMP_WRITE"
    PROVE  LET r == TransferToGpu(d, ArgumentMode(a))
           IN  /\ r.instance
               /\ Ready(r, a.mutable)
               /\ Ready(d, m) => Ready(r, m)
<1>1. ArgumentMode(a) \in TransferMode /\ ArgumentMode(a) \in {"MOVE", "READ_ONLY"}
  BY DEF ArgumentMode, TransferMode
<1>2. CASE d.exists
  <2> DEFINE r == TransferToGpu(d, ArgumentMode(a))
  <2>1. /\ r.instance
        /\ r.gpu = GpuAfterToGpu(d, ArgumentMode(a))
        /\ d.gpu # "RESIZED_ON_CPU" => r.cpu = CpuAfterToGpu(d, ArgumentMode(a))
        /\ ArgumentMode(a) = "MOVE" => r.cpu \notin UpToDate
    BY <1>1, <1>2, TransferToGpuFields DEF SameShape, CpuAfterToGpu, UpToDate
  <2>2. Extractable(r)
    BY <1>1, <2>1 DEF Extractable, GpuAfterToGpu
  <2>3. Ready(r, a.mutable)
    BY <2>1, <2>2 DEF Ready, ArgumentMode
  <2>4. ASSUME Ready(d, m)
        PROVE  Ready(r, m)
    BY <1>1, <2>1, <2>2, <2>4 DEF Ready, CpuAfterToGpu, UpToDate, Extractable
  <2>5. QED
    BY <2>1, <2>3, <2>4
<1>3. CASE ~d.exists
  BY <1>3 DEF TransferToGpu, Coherent, Ready, Extractable, UpToDate
<1>4. QED
  BY <1>2, <1>3 DEF DataSet

LEMMA LaunchBeginSafe ==
    ASSUME SafeInv, TypeInv', NEW args \in Kernels, LaunchBegin(args)
    PROVE  SafeInv'
<1>1. args \in Seq(Argument)
  BY KernelsAssumption
<1>2. \A v \in Vars : ds[v] \in DataSet /\ Coherent(ds[v])
  BY DEF SafeInv, TypeInv, TypeOK
<1>3. ASSUME NEW v \in Vars
      PROVE  Coherent(ds'[v])
  BY <1>2, SetupCoherent DEF LaunchBegin
<1>4. ASSUME NEW i \in DOMAIN args
      PROVE  ds'[args[i].var].instance
  <2>1. args[i].var \in Vars
    BY <1>1, ElementArgument
  <2>2. ds'[args[i].var] = Setup(ds[args[i].var])
    BY <2>1 DEF LaunchBegin
  <2>3. QED
    BY <1>2, <2>1, <2>2, SetupCoherent
<1>5. LaunchInv'
  BY <1>4 DEF LaunchBegin, LaunchInv
<1>6. QED
  BY <1>3, <1>5 DEF SafeInv, LaunchBegin, Idle

LEMMA TransferArgumentSafe ==
    ASSUME SafeInv, TypeInv', TransferArgument
    PROVE  SafeInv'
<1> DEFINE a == Head(todo)
           d == ds[a.var]
<1>1. /\ todo \in Seq(Argument) /\ todo # <<>>
      /\ kernel \in Seq(Argument)
      /\ LaunchInv
  BY DEF SafeInv, TypeInv, TypeOK, TransferArgument
<1>2. a \in Argument /\ a.var \in Vars /\ Tail(todo) \in Seq(Argument)
  BY <1>1, HeadArgument
<1>3. \A v \in Vars : ds[v] \in DataSet /\ Coherent(ds[v])
  BY DEF SafeInv, TypeInv, TypeOK
<1>4. ArgumentMode(a) \in TransferMode /\ ArgumentMode(a) # "COPY"
  BY DEF ArgumentMode, TransferMode
<1>5. ~aborted'
  BY <1>2, <1>3, <1>4, NoFailure DEF TransferArgument
<1>6. d.instance
  <2>1. 1 \in DOMAIN todo /\ todo[1] = a
    BY <1>1
  <2>2. QED
    BY <1>1, <2>1 DEF LaunchInv
<1>7. ds' = IF d.gpu = "TEMP_WRITE" THEN ds
            ELSE [ds EXCEPT ![a.var] = TransferToGpu(d, ArgumentMode(a))]
  BY <1>5 DEF TransferArgument
<1>8. ds \in [Vars -> DataSet]
  BY DEF SafeInv, TypeInv, TypeOK
<1>9. ASSUME NEW v \in Vars
      PROVE  Coherent(ds'[v])
  BY <1>2, <1>3, <1>4, <1>7, <1>8, TransferToGpuCoherent
<1>10. ASSUME NEW v \in Vars, NEW m \in BOOLEAN, ds[v].instance
       PROVE  ds'[v].instance /\ (Ready(ds[v], m) => Ready(ds'[v], m))
  BY <1>2, <1>3, <1>7, <1>8, <1>10, TransferKeepsReady
<1>11. Ready(ds'[a.var], a.mutable)
  <2>1. CASE d.gpu = "TEMP_WRITE"
    BY <1>7, <2>1 DEF Ready, Extractable
  <2>2. CASE d.gpu # "TEMP_WRITE"
    <3>1. ds'[a.var] = TransferToGpu(d, ArgumentMode(a))
      BY <1>2, <1>7, <1>8, <2>2
    <3>2. QED
      BY <1>2, <1>3, <1>6, <2>2, <3>1, TransferKeepsReady
  <2>3. QED
    BY <2>1, <2>2
<1>12. ASSUME NEW i \in DOMAIN kernel
       PROVE  /\ ds'[kernel[i].var].instance
              /\ \/ Ready(ds'[kernel[i].var], kernel[i].mutable)
                 \/ \E j \in DOMAIN Tail(todo) : Tail(todo)[j] = kernel[i]
  <2>1. kernel[i].var \in Vars /\ kernel[i].mutable \in BOOLEAN
    BY <1>1, ElementArgument
  <2>2. ds[kernel[i].var].instance
    BY <1>1 DEF LaunchInv
  <2>3. CASE Ready(ds[kernel[i].var], kernel[i].mutable)
    BY <1>10, <2>1, <2>2, <2>3
  <2>4. CASE \E j \in DOMAIN todo : todo[j] = kernel[i]
    <3>1. PICK j \in DOMAIN todo : todo[j] = kernel[i]
      BY <2>4
    <3>2. CASE j = 1
      <4>1. kernel[i] = a
        BY <1>1, <3>1, <3>2, ElementOfTail
      <4>2. QED
        BY <1>10, <1>11, <2>1, <2>2, <4>1
    <3>3. CASE j # 1
      <4>1. j - 1 \in DOMAIN Tail(todo) /\ Tail(todo)[j - 1] = kernel[i]
        BY <1>1, <3>1, <3>3, ElementOfTail
      <4>2. QED
        BY <1>10, <2>1, <2>2, <4>1
    <3>4. QED
      BY <3>2, <3>3
  <2>5. QED
    BY <1>1, <2>3, <2>4 DEF LaunchInv
<1>13. \A j \in DOMAIN Tail(todo) : \E i \in DOMAIN kernel : Tail(todo)[j] = kernel[i]
  BY <1>1, ElementOfTail DEF LaunchInv
<1>14. todo' = Tail(todo) /\ kernel' = kernel /\ task' = task /\ task = "launch"
       /\ faults' = faults
  BY DEF TransferArgument
<1>15. LaunchInv'
  BY <1>12, <1>13, <1>14 DEF LaunchInv
<1>16. QED
  BY <1>5, <1>9, <1>14, <1>15 DEF SafeInv

\* when the last argument is transferred the kernel may start
LEMMA LaunchReady ==
    ASSUME SafeInv, task = "launch", todo = <<>>
    PROVE  /\ \A v \in ArgumentVars : v \in Vars /\ Extractable(ds[v])
           /\ \A v \in MutableVars : v \in Vars /\ (ds[v].cpu \in UpToDate => ds[v].gpu = "TEMP_WRITE")
<1>1. kernel \in Seq(Argument) /\ LaunchInv
  BY DEF SafeInv, TypeInv, TypeOK
<1>2. \A i \in DOMAIN kernel : kernel[i].var \in Vars /\ Ready(ds[kernel[i].var], kernel[i].mutable)
  BY <1>1, ElementArgument DEF LaunchInv
<1>3. QED
  BY <1>2 DEF ArgumentVars, MutableVars, Ready

LEMMA RunKernelSafe ==
    ASSUME SafeInv, TypeInv', RunKernel
    PROVE  SafeInv'
<1> DEFINE Touched(S) == {v \in S : ds[v].exists /\ ds[v].size > 0}
<1>1. /\ \A v \in ArgumentVars : v \in Vars /\ Extractable(ds[v])
      /\ \A v \in MutableVars : v \in Vars /\ (ds[v].cpu \in UpToDate => ds[v].gpu = "TEMP_WRITE")
  BY LaunchReady DEF RunKernel
<1>2. PICK x \in [Touched(MutableVars) -> Values] :
         ds' = [v \in Vars |-> IF v \in Touched(MutableVars) THEN KernelStore(ds[v], x[v]) ELSE ds[v]]
  BY <1>1 DEF RunKernel
<1>3. \A v \in Vars : ds[v] \in DataSet /\ Coherent(ds[v])
  BY DEF SafeInv, TypeInv, TypeOK
<1>4. ASSUME NEW v \in Vars
      PROVE  Coherent(ds'[v])
  <2>1. CASE v \in Touched(MutableVars)
    <3>1. x[v] \in Values /\ ds'[v] = KernelStore(ds[v], x[v])
      BY <1>2, <2>1
    <3>2. QED
      BY <1>1, <1>3, <2>1, <3>1, KernelStoreFacts
  <2>2. CASE v \notin Touched(MutableVars)
    BY <1>2, <1>3, <2>2
  <2>3. QED
    BY <2>1, <2>2
<1>5. ~aborted' /\ task' = "none" /\ faults' = faults
  BY <1>1 DEF RunKernel
<1>6. faults = 0
  BY DEF SafeInv, RunKernel
<1>7. QED
  BY <1>4, <1>5, <1>6 DEF SafeInv

LEMMA FaultSafe ==
    ASSUME SafeInv, TypeInv', Fault
    PROVE  SafeInv'
<1> DEFINE v == Head(todo).var
<1>1. /\ todo \in Seq(Operand) /\ todo # <<>> /\ ExpressionInv
      /\ ds \in [Vars -> DataSet] /\ inConst \in BOOLEAN
  BY DEF Fault, SafeInv, TypeInv, TypeOK
<1>2. v \in Vars /\ ds[v] \in DataSet /\ Coherent(ds[v]) /\ ds[v].exists
  <2>1. v \in Vars /\ todo[1] = Head(todo) /\ 1 \in DOMAIN todo
    BY <1>1, HeadOperand, ElementOfTail
  <2>2. QED
    BY <1>1, <2>1 DEF SafeInv, ExpressionInv
<1> DEFINE r == FaultTransfer(ds[v], inConst)
<1>3. /\ Coherent(r) /\ SameShape(ds[v], r)
      /\ ds[v].instance => r.prot = IF inConst THEN "read" ELSE "rw"
      /\ ~ds[v].instance => r = ds[v]
  BY <1>1, <1>2, FaultTransferFacts
<1> HIDE DEF r
<1>4. ds' = [ds EXCEPT ![v] = r]
  BY DEF Fault, r
<1>5. ~Storable(ds[v]) /\ ds[v].instance
  BY <1>2 DEF Fault, Permitted, Storable, Loadable, Coherent
<1>6. \A w \in Vars : Coherent(ds'[w]) /\ ds'[w].exists = ds[w].exists
  BY <1>1, <1>2, <1>3, <1>4 DEF SafeInv, SameShape
<1>7. todo' = todo /\ task' = task /\ task = "expression" /\ ~inConst' /\ aborted' = aborted
  BY DEF Fault, FlagAfterFault
<1>8. faults' = 1 \/ (faults' = 2 /\ Storable(ds'[v]))
  <2>1. CASE faults = 0
    BY <2>1 DEF Fault, FaultLimit
  <2>2. CASE faults = 1 /\ ~inConst
    <3>1. faults' = 2
      BY <2>2 DEF Fault, FaultLimit
    <3>2. ds'[v].prot = "rw"
      BY <1>1, <1>2, <1>3, <1>4, <1>5, <2>2
    <3>3. QED
      BY <3>1, <3>2 DEF Storable
  <2>3. QED
    BY <1>1, <1>5, <2>1, <2>2 DEF ExpressionInv
<1>9. \A i \in DOMAIN todo : todo[i].var \in Vars
  BY <1>1, ElementOperand
<1>10. ExpressionInv'
  BY <1>1, <1>6, <1>7, <1>8, <1>9 DEF ExpressionInv
<1>11. QED
  BY <1>6, <1>7, <1>10 DEF SafeInv

LEMMA PerformSafe ==
    ASSUME SafeInv, TypeInv', Perform
    PROVE  SafeInv'
<1> DEFINE v == Head(todo).var
<1>1. /\ todo \in Seq(Operand) /\ todo # <<>> /\ ExpressionInv
      /\ ds \in [Vars -> DataSet]
  BY DEF Perform, SafeInv, TypeInv, TypeOK
<1>2. v \in Vars /\ ds[v] \in DataSet /\ Coherent(ds[v])
  BY <1>1, HeadOperand DEF SafeInv
<1>3. \A w \in Vars : Coherent(ds'[w]) /\ ds'[w].exists = ds[w].exists
  <2>1. CASE Head(todo).store
    <3>1. PICK x \in Values : ds' = [ds EXCEPT ![v] = HostStore(ds[v], x)]
      BY <2>1 DEF Perform
    <3>2. Storable(ds[v])
      BY <2>1 DEF Perform, Permitted
    <3>3. Coherent(HostStore(ds[v], x)) /\ SameShape(ds[v], HostStore(ds[v], x))
      BY <1>2, <3>2, HostStoreFacts
    <3>4. QED
      BY <1>1, <1>2, <3>1, <3>3 DEF SafeInv, SameShape
  <2>2. CASE ~Head(todo).store
    BY <2>2 DEF Perform, SafeInv
  <2>3. QED
    BY <2>1, <2>2
<1>4. todo' = Tail(todo) /\ task' = (IF Len(todo) = 1 THEN "none" ELSE task)
      /\ task = "expression" /\ faults' = 0 /\ aborted' = aborted
  BY DEF Perform
<1>5. ASSUME Len(todo) # 1
      PROVE  ExpressionInv'
  <2>1. Tail(todo) # <<>>
    <3>1. Len(todo) \in Nat \ {0}
      BY <1>1, EmptySeq
    <3>2. Len(Tail(todo)) = Len(todo) - 1
      BY <1>1, HeadTailProperties
    <3>3. Len(Tail(todo)) # 0
      BY <1>5, <3>1, <3>2
    <3>4. Len(<<>>) = 0
      OBVIOUS
    <3>5. QED
      BY <3>3, <3>4
  <2>2. \A j \in DOMAIN Tail(todo) : j + 1 \in DOMAIN todo /\ Tail(todo)[j] = todo[j + 1]
    BY <1>1, ElementOfTail
  <2>3. \A i \in DOMAIN todo : todo[i].var \in Vars /\ ds[todo[i].var].exists
    BY <1>1, ElementOperand DEF ExpressionInv
  <2>4. \A j \in DOMAIN Tail(todo) : ds'[Tail(todo)[j].var].exists
    BY <1>3, <2>2, <2>3
  <2>5. QED
    BY <1>4, <2>1, <2>4 DEF ExpressionInv
<1>6. QED
  BY <1>3, <1>4, <1>5 DEF SafeInv

LEMMA EvaluateSafe ==
    ASSUME SafeInv, TypeInv', NEW e \in Expressions, Evaluate(e)
    PROVE  SafeInv'
<1>1. e # <<>>
  BY ExpressionsAssumption
<1>2. QED
  BY <1>1 DEF SafeInv, Evaluate, Idle, ExpressionInv

LEMMA SafeStep ==
    ASSUME Waived = {}
    PROVE  SafeInv /\ [Next]_vars => SafeInv'
<1> SUFFICES ASSUME SafeInv, [Next]_vars PROVE SafeInv'
  OBVIOUS
<1>1. TypeInv'
  BY TypeStep DEF SafeInv
<1>2. /\ ds \in [Vars -> DataSet] /\ inConst \in BOOLEAN
      /\ \A v \in Vars : ds[v] \in DataSet /\ Coherent(ds[v])
  BY DEF SafeInv, TypeInv, TypeOK
<1>3. ASSUME NEW v \in Vars, NEW mode \in TransferMode, TransferToGpuCall(v, mode)
      PROVE  SafeInv'
  <2> DEFINE d       == Setup(ds[v])
             request == IF d.exists THEN Request(Operation(mode), "gpu", {v}) ELSE Internal
             new     == [ds EXCEPT ![v] = TransferToGpu(d, mode)]
  <2>1. d \in DataSet /\ Coherent(d)
    BY <1>2, SetupType, SetupCoherent
  <2>2. mode = "COPY" => CopyToGpuAllowed(d)
    BY <1>3 DEF TransferToGpuCall, CopyToGpuAllowed
  <2>3. Coherent(TransferToGpu(d, mode)) /\ ~ToGpuFails(d, mode)
    BY <2>1, <2>2, TransferToGpuCoherent, NoFailure
  <2>4. \A w \in Vars : Coherent(new[w])
    BY <1>2, <2>3
  <2>5. Call(request, new, ToGpuFails(d, mode))
    BY <1>3 DEF TransferToGpuCall
  <2> HIDE DEF request, new, d
  <2>6. QED
    BY <1>1, <2>3, <2>4, <2>5, CallSafe
<1>4. ASSUME NEW v \in Vars, NEW mode \in TransferMode, TransferToCpuCall(v, mode)
      PROVE  SafeInv'
  <2> DEFINE request == IF ds[v].exists /\ ds[v].instance
                        THEN Request(Operation(mode), "cpu", {v}) ELSE Internal
             new == [ds EXCEPT ![v] = TransferToCpu(ds[v], mode)]
  <2>1. mode = "COPY" /\ ds[v].instance => CopyToCpuAllowed(ds[v])
    BY <1>4 DEF TransferToCpuCall, CopyToCpuAllowed
  <2>2. Coherent(TransferToCpu(ds[v], mode)) /\ ~ToCpuFails(ds[v], mode)
    BY <1>2, <2>1, TransferToCpuCoherent, NoFailure
  <2>3. \A w \in Vars : Coherent(new[w])
    BY <1>2, <2>2
  <2>4. Call(request, new, ToCpuFails(ds[v], mode))
    BY <1>4 DEF TransferToCpuCall
  <2> HIDE DEF request, new
  <2>5. QED
    BY <1>1, <2>2, <2>3, <2>4, CallSafe
<1>5. ASSUME NEW mode \in {"COPY", "MOVE"}, TransferAllToCpu(mode)
      PROVE  SafeInv'
  <2> DEFINE Registered == {v \in Vars : ds[v].exists}
             new == [v \in Vars |-> IF v \in Registered THEN TransferToCpu(ds[v], mode) ELSE ds[v]]
  <2>1. mode \in TransferMode
    BY DEF TransferMode
  <2>2. ASSUME NEW v \in Registered
        PROVE  Coherent(TransferToCpu(ds[v], mode)) /\ ~ToCpuFails(ds[v], mode)
    <3>1. mode = "COPY" /\ ds[v].instance => CopyToCpuAllowed(ds[v])
      BY <1>5 DEF TransferAllToCpu, CopyToCpuAllowed
    <3>2. QED
      BY <1>2, <2>1, <3>1, TransferToCpuCoherent, NoFailure
  <2>3. \A w \in Vars : Coherent(new[w])
    BY <1>2, <2>2
  <2>4. PICK request, fails :
           Call(request, new, fails) /\ (fails = \E v \in Registered : ToCpuFails(ds[v], mode))
    BY <1>5 DEF TransferAllToCpu
  <2>5. ~fails
    BY <2>2, <2>4
  <2> HIDE DEF new
  <2>6. QED
    BY <1>1, <2>3, <2>4, <2>5, CallSafe
<1>6. ASSUME NEW dest \in Vars, NEW src \in Vars, MemcpyVar(dest, src)
      PROVE  SafeInv'
  <2> DEFINE ready == [ds EXCEPT ![src] = Sourced(ds[src])]
             owned == [ready EXCEPT ![dest] = TransferToGpu(Setup(ready[dest]), "NOT_INITIALIZE")]
             new   == [owned EXCEPT ![dest].dev = owned[src].dev]
  <2>1. /\ ready \in [Vars -> DataSet]
        /\ \A w \in Vars : Coherent(ready[w]) /\ ready[w].exists = ds[w].exists
    BY <1>2, SourcedType, SourcedCoherent
  <2> HIDE DEF ready
  <2>2. /\ Setup(ready[dest]) \in DataSet /\ Coherent(Setup(ready[dest]))
        /\ Setup(ready[dest]).instance /\ Setup(ready[dest]).exists
    BY <1>6, <2>1, SetupType, SetupCoherent DEF MemcpyVar
  <2>3. LET r == TransferToGpu(Setup(ready[dest]), "NOT_INITIALIZE")
        IN  r \in DataSet /\ Coherent(r) /\ r.cpu \notin UpToDate
    BY <2>2, TransferTakesOver
  <2>4. /\ owned \in [Vars -> DataSet]
        /\ \A w \in Vars : Coherent(owned[w])
        /\ owned[dest].cpu \notin UpToDate
    BY <2>1, <2>3
  <2> HIDE DEF owned
  <2>5. owned[src].dev \in Content
    BY <2>4 DEF DataSet
  <2>6. Coherent([owned[dest] EXCEPT !.dev = owned[src].dev])
    BY <2>4, <2>5, DeviceStoreCoherent
  <2>7. \A w \in Vars : Coherent(new[w])
    BY <2>4, <2>6
  <2>8. PICK request : Call(request, new, FALSE)
    BY <1>6 DEF MemcpyVar, owned, ready
  <2> HIDE DEF new
  <2>9. QED
    BY <1>1, <2>7, <2>8, CallSafe
<1>7. ASSUME NEW v \in Vars, NEW n \in 0..MaxSize, Resize(v, n)
      PROVE  SafeInv'
  <2>1. ds[v].exists \/ ~ds[v].instance
    BY <1>7 DEF Resize
  <2>2. Coherent(ResizeInternal(ds[v], n, inConst))
    BY <1>2, <2>1, ResizeInternalFacts
  <2>3. \A w \in Vars : Coherent([ds EXCEPT ![v] = ResizeInternal(ds[v], n, inConst)][w])
    BY <1>2, <2>2
  <2>4. QED
    BY <1>1, <1>7, <2>3, CallSafe DEF Resize
<1>8. ASSUME NEW v \in Vars, Register(v)
      PROVE  SafeInv'
  <2>1. Coherent(RegisterUnresolved(ds[v], inConst))
    BY <1>2, <1>8, RegisterUnresolvedFacts DEF Register
  <2>2. \A w \in Vars : Coherent([ds EXCEPT ![v] = RegisterUnresolved(ds[v], inConst)][w])
    BY <1>2, <2>1
  <2>3. QED
    BY <1>1, <1>8, <2>2, CallSafe DEF Register
<1>9. CASE UNCHANGED vars
  BY <1>9 DEF vars, SafeInv, TypeInv, TypeOK, LaunchInv, ExpressionInv
<1>10. QED
  BY <1>1, <1>3, <1>4, <1>5, <1>6, <1>7, <1>8, <1>9, LaunchBeginSafe, TransferArgumentSafe,
     RunKernelSafe, EvaluateSafe, FaultSafe, PerformSafe DEF Next

LEMMA SafeInvariant ==
    ASSUME Waived = {}
    PROVE  Spec => []SafeInv
BY SafeInit, SafeStep, PTL DEF Spec

\* A registered data set with a GPU instance always has an owner, and never two.
THEOREM OneOwnerAlways ==
    ASSUME Waived = {}
    PROVE  Spec => []OneOwner
<1>1. SafeInv => OneOwner
  BY DEF SafeInv, OneOwner, Shared, Coherent, Owned, UpToDate
<1>2. QED
  BY <1>1, SafeInvariant, PTL

\* Copies that both count as up to date are equal.
THEOREM SharedCopiesAlwaysAgree ==
    ASSUME Waived = {}
    PROVE  Spec => []SharedCopiesAgree
<1>1. SafeInv => SharedCopiesAgree
  BY DEF SafeInv, SharedCopiesAgree, Shared, Coherent, Agree
<1>2. QED
  BY <1>1, SafeInvariant, PTL

\* No page is accessible that its status does not let the host use: an access
\* that must fault does.
THEOREM PagesAlwaysGuarded ==
    ASSUME Waived = {}
    PROVE  Spec => []PagesGuarded
<1>1. SafeInv => PagesGuarded
  BY DEF SafeInv, PagesGuarded, Shared, Coherent, Guarded
<1>2. QED
  BY <1>1, SafeInvariant, PTL

\* The device buffer has the size of its data set whenever it may be used.
THEOREM BufferAlwaysFits ==
    ASSUME Waived = {}
    PROVE  Spec => []BufferFits
<1>1. SafeInv => BufferFits
  BY DEF SafeInv, BufferFits, Shared, Coherent, Fits
<1>2. QED
  BY <1>1, SafeInvariant, PTL

\* A kernel starts with arguments it can use, for argument lists of any length
\* that may name a data set more than once.
THEOREM KernelArgumentsAlwaysReady ==
    ASSUME Waived = {}
    PROVE  Spec => []KernelArgumentsReady
<1>1. SafeInv => KernelArgumentsReady
  BY LaunchReady DEF KernelArgumentsReady
<1>2. QED
  BY <1>1, SafeInvariant, PTL

\* No access faults more than twice, for statements of any length.
THEOREM FaultsAlwaysBounded ==
    ASSUME Waived = {}
    PROVE  Spec => []FaultsBounded
<1>1. SafeInv => FaultsBounded
  BY DEF SafeInv, ExpressionInv, FaultsBounded
<1>2. QED
  BY <1>1, SafeInvariant, PTL

\* A program that meets its obligations is never ended by the framework.
THEOREM AlwaysRuns ==
    ASSUME Waived = {}
    PROVE  Spec => []NeverAborted
<1>1. SafeInv => NeverAborted
  BY DEF SafeInv, NeverAborted
<1>2. QED
  BY <1>1, SafeInvariant, PTL

(***************************************************************************)
(* GpuManager implements SingleCopy: every step of the framework is one of *)
(* the single-copy store or leaves it alone.                               *)
(***************************************************************************)

-----------------------------------------------------------------------------
(* What becomes of a data set as the user sees it.                         *)

Same(d, r) ==
    /\ r.size = d.size /\ ValueOf(r) = ValueOf(d)
    /\ HolderOf(r) = HolderOf(d) /\ PrivateOf(r) = PrivateOf(d)

\* the device gives up a private copy
GivesUp(device, d, r) ==
    /\ HolderOf(r) = IF HolderOf(d) = device THEN "none" ELSE HolderOf(d)
    /\ PrivateOf(r) = IF HolderOf(d) = device THEN Zero ELSE PrivateOf(d)

TakenOver(device, d, r) ==
    r.size = d.size /\ ValueOf(r) = ValueOf(d) /\ GivesUp(device, d, r)

\* the device gets a private copy
Copied(device, d, r) ==
    /\ r.size = d.size /\ ValueOf(r) = ValueOf(d)
    /\ HolderOf(r) = device /\ PrivateOf(r) = ValueOf(d)

\* an entry without memory has nothing to show, and the CPU may always write
\* its scratch copy
Visible(d) ==
    /\ ~d.exists => d.host = Zero
    /\ d.cpu = "TEMP_WRITE" => d.prot = "rw"

LEMMA SetupView ==
    ASSUME NEW d \in DataSet, Coherent(d), Visible(d)
    PROVE  Same(d, Setup(d)) /\ Visible(Setup(d))
<1>1. CASE d.instance
  BY <1>1, SetupCoherent DEF Same
<1>2. CASE ~d.instance /\ ~d.exists
  <2>1. /\ Setup(d).size = d.size /\ Setup(d).host = d.host /\ ~Setup(d).exists
        /\ Setup(d).cpu = "NOT_ALLOCATED" /\ Setup(d).gpu = "NOT_ALLOCATED"
        /\ Setup(d).instance /\ d.cpu = "NOT_ALLOCATED" /\ d.gpu = "NOT_ALLOCATED"
    BY <1>2 DEF Setup, AllocateGpuInstance, DataSet, Coherent
  <2>2. QED
    BY <1>2, <2>1 DEF Same, Visible, ValueOf, HolderOf, PrivateOf, UpToDate
<1>3. CASE ~d.instance /\ d.exists
  <2>1. /\ Setup(d).size = d.size /\ Setup(d).host = d.host /\ Setup(d).exists
        /\ Setup(d).cpu = "UP_TO_DATE_WRITE" /\ Setup(d).gpu = "OUT_OF_DATE"
        /\ Setup(d).instance /\ d.cpu = "NOT_ALLOCATED" /\ d.gpu = "NOT_ALLOCATED"
    BY <1>3 DEF Setup, AllocateGpuInstance, AllocateGpuDataPtr, BufferOf, DataSet, Coherent
  <2>2. QED
    BY <1>3, <2>1 DEF Same, Visible, ValueOf, HolderOf, PrivateOf, UpToDate
<1>4. QED
  BY <1>1, <1>2, <1>3 DEF DataSet

\* what the statuses of a shared data set say about its value
LEMMA ValueFacts ==
    ASSUME NEW d \in DataSet, Coherent(d), d.exists, d.instance, d.size # 0
    PROVE  /\ d.cpu \in UpToDate => ValueOf(d) = d.host
           /\ d.gpu \in UpToDate => ValueOf(d) = d.dev
           /\ d.cpu \in UpToDate \/ d.gpu \in UpToDate
           /\ d.cpu = "TEMP_WRITE" => HolderOf(d) = "cpu" /\ PrivateOf(d) = d.host
           /\ d.gpu = "TEMP_WRITE" => HolderOf(d) = "gpu" /\ PrivateOf(d) = d.dev
           /\ d.cpu # "TEMP_WRITE" /\ d.gpu # "TEMP_WRITE" =>
                 HolderOf(d) = "none" /\ PrivateOf(d) = Zero
BY DEF ValueOf, HolderOf, PrivateOf, Coherent, Agree, Owned, UpToDate

LEMMA EmptyFacts ==
    ASSUME NEW d \in DataSet, d.size = 0
    PROVE  ValueOf(d) = Zero /\ PrivateOf(d) = Zero
BY DEF ValueOf, PrivateOf

LEMMA ToGpuOwn ==
    ASSUME NEW d \in DataSet, Coherent(d), d.exists, d.instance, NEW mode \in {"MOVE", "READ_ONLY"}
    PROVE  TakenOver("gpu", d, TransferToGpu(d, mode))
<1> DEFINE r == TransferToGpu(d, mode)
<1>1. mode \in TransferMode /\ mode # "COPY"
  BY DEF TransferMode
<1>2. r \in DataSet /\ Coherent(r) /\ SameShape(d, r)
  BY <1>1, TransferToGpuType, TransferToGpuCoherent, TransferToGpuFields
<1>3. /\ r.gpu \in UpToDate
      /\ r.cpu = "TEMP_WRITE" <=> d.cpu = "TEMP_WRITE"
  BY <1>1, TransferToGpuFields DEF GpuAfterToGpu, CpuAfterToGpu, UpToDate, Coherent, Owned
<1>4. /\ d.size # 0 /\ d.gpu \notin UpToDate => r.dev = d.host /\ r.host = d.host
      /\ d.gpu \in UpToDate => r.dev = d.dev /\ r.host = d.host
  BY <1>1, TransferToGpuFields DEF ToGpuPush, ToGpuPull, UpToDate, Coherent, Owned
<1> SUFFICES TakenOver("gpu", d, r)
  OBVIOUS
<1> HIDE DEF r
<1>5. HolderOf(r) = IF HolderOf(d) = "gpu" THEN "none" ELSE HolderOf(d)
  BY <1>3 DEF HolderOf, UpToDate, Coherent, Owned
<1>6. CASE d.size = 0
  BY <1>2, <1>5, <1>6, EmptyFacts DEF TakenOver, GivesUp, SameShape
<1>7. CASE d.size # 0
  <2>1. ValueOf(r) = ValueOf(d)
    BY <1>2, <1>3, <1>4, <1>7, ValueFacts DEF SameShape
  <2>2. CASE d.cpu = "TEMP_WRITE"
    BY <1>2, <1>3, <1>4, <1>5, <1>7, <2>1, <2>2, ValueFacts
       DEF TakenOver, GivesUp, SameShape, Coherent, Owned, UpToDate
  <2>3. CASE d.cpu # "TEMP_WRITE"
    BY <1>2, <1>3, <1>5, <1>7, <2>1, <2>3, ValueFacts DEF TakenOver, GivesUp, SameShape, UpToDate
  <2>4. QED
    BY <2>2, <2>3
<1>8. QED
  BY <1>6, <1>7

LEMMA ToGpuCopy ==
    ASSUME NEW d \in DataSet, Coherent(d), d.exists, d.instance, CopyToGpuAllowed(d)
    PROVE  Copied("gpu", d, TransferToGpu(d, "COPY"))
<1> DEFINE r == TransferToGpu(d, "COPY")
<1>1. "COPY" \in TransferMode
  BY DEF TransferMode
<1>2. r \in DataSet /\ Coherent(r) /\ SameShape(d, r)
  BY <1>1, TransferToGpuType, TransferToGpuCoherent, TransferToGpuFields
<1>3. d.cpu \in UpToDate
  BY DEF CopyToGpuAllowed, Coherent, Owned, UpToDate
<1>4. r.gpu = "TEMP_WRITE" /\ r.cpu \in UpToDate
  BY <1>1, <1>3, TransferToGpuFields DEF GpuAfterToGpu, CpuAfterToGpu, UpToDate
<1>5. d.size # 0 => r.host = d.host /\ r.dev = d.host
  BY <1>1, <1>3, TransferToGpuFields
     DEF ToGpuPush, ToGpuPull, UpToDate, Coherent, Owned, Agree
<1> SUFFICES Copied("gpu", d, r)
  OBVIOUS
<1> HIDE DEF r
<1>6. HolderOf(r) = "gpu"
  BY <1>4 DEF HolderOf, UpToDate
<1>7. CASE d.size = 0
  BY <1>2, <1>6, <1>7, EmptyFacts DEF Copied, SameShape
<1>8. CASE d.size # 0
  BY <1>2, <1>3, <1>4, <1>5, <1>6, <1>8, ValueFacts DEF Copied, SameShape
<1>9. QED
  BY <1>7, <1>8

LEMMA ToGpuSync ==
    ASSUME NEW d \in DataSet, Coherent(d), d.exists, d.instance
    PROVE  Copied("cpu", d, TransferToGpu(d, "SYNC_AND_MOVE"))
<1> DEFINE r == TransferToGpu(d, "SYNC_AND_MOVE")
<1>1. "SYNC_AND_MOVE" \in TransferMode /\ "SYNC_AND_MOVE" # "COPY"
  BY DEF TransferMode
<1>2. r \in DataSet /\ Coherent(r) /\ SameShape(d, r)
  BY <1>1, TransferToGpuType, TransferToGpuCoherent, TransferToGpuFields
<1>3. r.gpu \in UpToDate /\ r.cpu = "TEMP_WRITE"
  BY <1>1, TransferToGpuFields DEF GpuAfterToGpu, CpuAfterToGpu, UpToDate
<1>4. d.size # 0 => /\ d.gpu \in UpToDate => r.host = d.dev /\ r.dev = d.dev
                    /\ d.gpu \notin UpToDate => r.host = d.host /\ r.dev = d.host
  BY <1>1, TransferToGpuFields
     DEF ToGpuPush, ToGpuPull, UpToDate, Coherent, Owned, Agree
<1> SUFFICES Copied("cpu", d, r)
  OBVIOUS
<1> HIDE DEF r
<1>5. HolderOf(r) = "cpu"
  BY <1>3 DEF HolderOf
<1>6. CASE d.size = 0
  BY <1>2, <1>5, <1>6, EmptyFacts DEF Copied, SameShape
<1>7. CASE d.size # 0
  BY <1>2, <1>3, <1>4, <1>5, <1>7, ValueFacts DEF Copied, SameShape
<1>8. QED
  BY <1>6, <1>7

LEMMA ToGpuNoInit ==
    ASSUME NEW d \in DataSet, Coherent(d), d.exists, d.instance
    PROVE  LET r == TransferToGpu(d, "NOT_INITIALIZE")
           IN  r.size = d.size /\ ValueOf(r) \in Content /\ GivesUp("gpu", d, r)
<1> DEFINE r == TransferToGpu(d, "NOT_INITIALIZE")
<1>1. "NOT_INITIALIZE" \in TransferMode /\ "NOT_INITIALIZE" # "COPY"
  BY DEF TransferMode
<1>2. r \in DataSet /\ Coherent(r) /\ SameShape(d, r)
  BY <1>1, TransferToGpuType, TransferToGpuCoherent, TransferToGpuFields
<1>3. r.gpu \in UpToDate /\ (r.cpu = "TEMP_WRITE" <=> d.cpu = "TEMP_WRITE")
  BY <1>1, TransferToGpuFields DEF GpuAfterToGpu, CpuAfterToGpu, UpToDate, Coherent, Owned
<1>4. r.host = d.host
  BY <1>1, TransferToGpuFields DEF ToGpuPush, ToGpuPull
<1> SUFFICES r.size = d.size /\ ValueOf(r) \in Content /\ GivesUp("gpu", d, r)
  OBVIOUS
<1> HIDE DEF r
<1>5. HolderOf(r) = IF HolderOf(d) = "gpu" THEN "none" ELSE HolderOf(d)
  BY <1>3 DEF HolderOf, UpToDate, Coherent, Owned
<1>6. ValueOf(r) \in Content
  BY <1>2, ContentFacts DEF ValueOf, DataSet
<1>7. CASE d.size = 0
  BY <1>2, <1>5, <1>6, <1>7, EmptyFacts DEF GivesUp, SameShape
<1>8. CASE d.size # 0
  <2>1. CASE d.cpu = "TEMP_WRITE"
    BY <1>2, <1>3, <1>4, <1>5, <1>6, <1>8, <2>1, ValueFacts
       DEF GivesUp, SameShape, Coherent, Owned, UpToDate
  <2>2. CASE d.cpu # "TEMP_WRITE"
    BY <1>2, <1>3, <1>5, <1>6, <1>8, <2>2, ValueFacts DEF GivesUp, SameShape, UpToDate
  <2>3. QED
    BY <2>1, <2>2
<1>9. QED
  BY <1>7, <1>8

LEMMA ToCpuOwn ==
    ASSUME NEW d \in DataSet, Coherent(d), d.exists, d.instance, NEW mode \in {"MOVE", "READ_ONLY"}
    PROVE  TakenOver("cpu", d, TransferToCpu(d, mode))
<1> DEFINE r == TransferToCpu(d, mode)
<1>1. mode \in TransferMode /\ mode # "COPY"
  BY DEF TransferMode
<1>2. r \in DataSet /\ Coherent(r) /\ SameShape(d, r)
  BY <1>1, TransferToCpuType, TransferToCpuCoherent, TransferToCpuFields
<1>3. /\ r.cpu \in UpToDate
      /\ r.gpu = "TEMP_WRITE" <=> d.gpu = "TEMP_WRITE"
  BY <1>1, TransferToCpuFields DEF GpuAfterToCpu, CpuAfterToCpu, UpToDate
<1>4. /\ d.size # 0 /\ d.cpu \notin UpToDate => r.host = d.dev /\ r.dev = d.dev
      /\ d.cpu \in UpToDate => r.host = d.host /\ r.dev = d.dev
  BY <1>1, TransferToCpuFields DEF ToCpuPush, ToCpuPull, UpToDate, Coherent, Owned
<1> SUFFICES TakenOver("cpu", d, r)
  OBVIOUS
<1> HIDE DEF r
<1>5. HolderOf(r) = IF HolderOf(d) = "cpu" THEN "none" ELSE HolderOf(d)
  BY <1>3 DEF HolderOf, UpToDate, Coherent, Owned
<1>6. CASE d.size = 0
  BY <1>2, <1>5, <1>6, EmptyFacts DEF TakenOver, GivesUp, SameShape
<1>7. CASE d.size # 0
  <2>1. ValueOf(r) = ValueOf(d)
    BY <1>2, <1>3, <1>4, <1>7, ValueFacts DEF SameShape
  <2>2. CASE d.gpu = "TEMP_WRITE"
    BY <1>2, <1>3, <1>4, <1>5, <1>7, <2>1, <2>2, ValueFacts
       DEF TakenOver, GivesUp, SameShape, Coherent, Owned, UpToDate
  <2>3. CASE d.gpu # "TEMP_WRITE"
    BY <1>2, <1>3, <1>5, <1>7, <2>1, <2>3, ValueFacts DEF TakenOver, GivesUp, SameShape, UpToDate
  <2>4. QED
    BY <2>2, <2>3
<1>8. QED
  BY <1>6, <1>7

LEMMA ToCpuCopy ==
    ASSUME NEW d \in DataSet, Coherent(d), d.exists, d.instance, CopyToCpuAllowed(d)
    PROVE  Copied("cpu", d, TransferToCpu(d, "COPY"))
<1> DEFINE r == TransferToCpu(d, "COPY")
<1>1. "COPY" \in TransferMode
  BY DEF TransferMode
<1>2. r \in DataSet /\ Coherent(r) /\ SameShape(d, r)
  BY <1>1, TransferToCpuType, TransferToCpuCoherent, TransferToCpuFields
<1>3. d.gpu \in UpToDate
  BY DEF CopyToCpuAllowed, Coherent, Owned, UpToDate
<1>4. r.cpu = "TEMP_WRITE" /\ r.gpu \in UpToDate
  BY <1>1, <1>3, TransferToCpuFields DEF GpuAfterToCpu, CpuAfterToCpu, UpToDate
<1>5. d.size # 0 => r.host = d.dev /\ r.dev = d.dev
  BY <1>1, <1>3, TransferToCpuFields
     DEF ToCpuPush, ToCpuPull, UpToDate, Coherent, Owned, Agree
<1> SUFFICES Copied("cpu", d, r)
  OBVIOUS
<1> HIDE DEF r
<1>6. HolderOf(r) = "cpu"
  BY <1>4 DEF HolderOf
<1>7. CASE d.size = 0
  BY <1>2, <1>6, <1>7, EmptyFacts DEF Copied, SameShape
<1>8. CASE d.size # 0
  BY <1>2, <1>3, <1>4, <1>5, <1>6, <1>8, ValueFacts DEF Copied, SameShape
<1>9. QED
  BY <1>7, <1>8

LEMMA ToCpuSync ==
    ASSUME NEW d \in DataSet, Coherent(d), d.exists, d.instance
    PROVE  Copied("cpu", d, TransferToCpu(d, "SYNC_AND_MOVE"))
<1> DEFINE r == TransferToCpu(d, "SYNC_AND_MOVE")
<1>1. "SYNC_AND_MOVE" \in TransferMode /\ "SYNC_AND_MOVE" # "COPY"
  BY DEF TransferMode
<1>2. r \in DataSet /\ Coherent(r) /\ SameShape(d, r)
  BY <1>1, TransferToCpuType, TransferToCpuCoherent, TransferToCpuFields
<1>3. r.gpu \in UpToDate /\ r.cpu = "TEMP_WRITE"
  BY <1>1, TransferToCpuFields DEF GpuAfterToCpu, CpuAfterToCpu, UpToDate
<1>4. d.size # 0 => /\ d.cpu \in UpToDate => r.host = d.host /\ r.dev = d.host
                    /\ d.cpu \notin UpToDate => r.host = d.dev /\ r.dev = d.dev
  BY <1>1, TransferToCpuFields
     DEF ToCpuPush, ToCpuPull, UpToDate, Coherent, Owned, Agree
<1> SUFFICES Copied("cpu", d, r)
  OBVIOUS
<1> HIDE DEF r
<1>5. HolderOf(r) = "cpu"
  BY <1>3 DEF HolderOf
<1>6. CASE d.size = 0
  BY <1>2, <1>5, <1>6, EmptyFacts DEF Copied, SameShape
<1>7. CASE d.size # 0
  BY <1>2, <1>3, <1>4, <1>5, <1>7, ValueFacts DEF Copied, SameShape
<1>8. QED
  BY <1>6, <1>7

LEMMA ToCpuNoInit ==
    ASSUME NEW d \in DataSet, Coherent(d), d.exists, d.instance
    PROVE  LET r == TransferToCpu(d, "NOT_INITIALIZE")
           IN  r.size = d.size /\ ValueOf(r) \in Content /\ GivesUp("cpu", d, r)
<1> DEFINE r == TransferToCpu(d, "NOT_INITIALIZE")
<1>1. "NOT_INITIALIZE" \in TransferMode /\ "NOT_INITIALIZE" # "COPY"
  BY DEF TransferMode
<1>2. r \in DataSet /\ Coherent(r) /\ SameShape(d, r)
  BY <1>1, TransferToCpuType, TransferToCpuCoherent, TransferToCpuFields
<1>3. r.cpu \in UpToDate /\ (r.gpu = "TEMP_WRITE" <=> d.gpu = "TEMP_WRITE")
  BY <1>1, TransferToCpuFields DEF GpuAfterToCpu, CpuAfterToCpu, UpToDate
<1>4. r.dev = d.dev
  BY <1>1, TransferToCpuFields DEF ToCpuPush, ToCpuPull
<1> SUFFICES r.size = d.size /\ ValueOf(r) \in Content /\ GivesUp("cpu", d, r)
  OBVIOUS
<1> HIDE DEF r
<1>5. HolderOf(r) = IF HolderOf(d) = "cpu" THEN "none" ELSE HolderOf(d)
  BY <1>3 DEF HolderOf, UpToDate, Coherent, Owned
<1>6. ValueOf(r) \in Content
  BY <1>2, ContentFacts DEF ValueOf, DataSet
<1>7. CASE d.size = 0
  BY <1>2, <1>5, <1>6, <1>7, EmptyFacts DEF GivesUp, SameShape
<1>8. CASE d.size # 0
  <2>1. CASE d.gpu = "TEMP_WRITE"
    BY <1>2, <1>3, <1>4, <1>5, <1>6, <1>8, <2>1, ValueFacts
       DEF GivesUp, SameShape, Coherent, Owned, UpToDate
  <2>2. CASE d.gpu # "TEMP_WRITE"
    BY <1>2, <1>3, <1>5, <1>6, <1>8, <2>2, ValueFacts DEF GivesUp, SameShape, UpToDate
  <2>3. QED
    BY <2>1, <2>2
<1>9. QED
  BY <1>7, <1>8

LEMMA TransferVisible ==
    ASSUME NEW d \in DataSet, Coherent(d), Visible(d), NEW mode \in TransferMode
    PROVE  /\ Visible(TransferToGpu(d, mode))
           /\ Visible(TransferToCpu(d, mode))
<1>1. CASE d.exists /\ d.instance
  BY <1>1, TransferToGpuFields, TransferToCpuFields DEF Visible, SameShape, Rights
<1>2. CASE ~(d.exists /\ d.instance)
  BY <1>2 DEF Coherent, TransferToGpu, TransferToCpu
<1>3. QED
  BY <1>1, <1>2

\* a fault changes nothing the program can see: it is never taken on the CPU's
\* scratch copy
LEMMA FaultView ==
    ASSUME NEW d \in DataSet, NEW flag \in BOOLEAN, Coherent(d), Visible(d), d.exists,
           ~Storable(d)
    PROVE  LET r == FaultTransfer(d, flag)
           IN  /\ r \in DataSet /\ Coherent(r) /\ SameShape(d, r)
               /\ Same(d, r) /\ Visible(r)
               /\ r.cpu \in UpToDate
<1> DEFINE mode == IF flag THEN "READ_ONLY" ELSE "MOVE"
<1>1. mode \in {"MOVE", "READ_ONLY"} /\ mode \in TransferMode
  BY DEF TransferMode
<1>2. d.instance /\ d.cpu # "TEMP_WRITE"
  BY DEF Storable, Visible, Coherent
<1>3. HolderOf(d) # "cpu"
  BY <1>2 DEF HolderOf
<1>4. TakenOver("cpu", d, TransferToCpu(d, mode)) /\ Visible(TransferToCpu(d, mode))
  BY <1>1, <1>2, ToCpuOwn, TransferVisible
<1>5. Same(d, TransferToCpu(d, mode))
  BY <1>3, <1>4 DEF TakenOver, GivesUp, Same
<1>6. TransferToCpu(d, mode).cpu \in UpToDate
  BY <1>1, <1>2, TransferToCpuFields DEF CpuAfterToCpu, UpToDate
<1>7. FaultTransfer(d, flag) = TransferToCpu(d, mode)
  BY DEF FaultTransfer
<1> HIDE DEF mode
<1>8. QED
  BY <1>4, <1>5, <1>6, <1>7, FaultTransferFacts, FaultTransferType

LEMMA ResizeView ==
    ASSUME NEW d \in DataSet, NEW n \in 0..MaxSize, NEW flag \in BOOLEAN,
           Coherent(d), Visible(d), d.exists \/ ~d.instance, d.cpu # "TEMP_WRITE"
    PROVE  LET r == ResizeInternal(d, n, flag)
           IN  /\ r.size = n /\ ValueOf(r) = IF n = 0 THEN Zero ELSE ValueOf(d)
               /\ HolderOf(r) = "none" /\ PrivateOf(r) = Zero
               /\ Visible(r)
<1> DEFINE old     == IF ResizeFaults(d, n) THEN FaultTransfer(d, flag) ELSE d
           resized == IF n > 0 /\ ~d.exists
                      THEN [old EXCEPT !.size = n]
                      ELSE [old EXCEPT !.size = n,
                                       !.mapped = n > 0,
                                       !.prot = "rw",
                                       !.host = IF n > 0 /\ d.mapped THEN @ ELSE Zero]
           r       == SetGpuDataStatusToResized(resized)
<1>1. /\ old \in DataSet /\ Coherent(old) /\ SameShape(d, old) /\ Visible(old)
      /\ ValueOf(old) = ValueOf(d)
      /\ ~d.exists => old = d
      /\ n > 0 /\ d.exists /\ d.size # 0 /\ d.instance => old.cpu \in UpToDate
  <2>1. CASE ResizeFaults(d, n)
    BY <2>1, FaultView DEF ResizeFaults, Storable, Same
  <2>2. CASE ~ResizeFaults(d, n)
    <3>1. n > 0 /\ d.exists /\ d.size # 0 /\ d.instance => d.cpu \in UpToDate
      <4>1. d.size # 0 => d.size > 0
        BY SizeFacts DEF DataSet
      <4>2. d.prot \in {"none", "read", "rw"}
        BY DEF DataSet
      <4>3. QED
        BY <2>2, <4>1, <4>2
           DEF ResizeFaults, Coherent, Owned, Guarded, Loadable, UpToDate
    <3>2. QED
      BY <2>2, <3>1 DEF SameShape
  <2>3. QED
    BY <2>1, <2>2
<1> HIDE DEF old
<1>2. /\ resized.size = n
      /\ resized.exists = d.exists /\ resized.instance = d.instance
      /\ resized.cpu = old.cpu /\ resized.gpu = old.gpu
      /\ resized.host = IF n > 0 /\ (d.mapped \/ ~d.exists) THEN old.host ELSE Zero
  BY <1>1 DEF DataSet, SameShape
<1>3. resized \in DataSet
  <2>1. (n > 0) \in BOOLEAN
    OBVIOUS
  <2>2. CASE n > 0 /\ ~d.exists
    BY <1>1, <2>2 DEF DataSet
  <2>3. CASE ~(n > 0 /\ ~d.exists)
    BY <1>1, <2>1, <2>3, ContentFacts DEF DataSet
  <2>4. QED
    BY <2>2, <2>3
<1> HIDE DEF resized
<1>4. ResizeInternal(d, n, flag) = r
  BY DEF ResizeInternal, old, resized
<1>5. /\ SameShape(resized, r) /\ r.host = resized.host
      /\ d.instance => r.cpu = "UP_TO_DATE_WRITE" /\ r.gpu = "RESIZED_ON_CPU"
      /\ ~d.instance => r = resized
  BY <1>2, <1>3 DEF SetGpuDataStatusToResized, DataSet, SameShape
<1> HIDE DEF r
<1>6. /\ r.size = n /\ r.exists = d.exists /\ r.instance = d.instance
      /\ ~d.instance => r.cpu = "NOT_ALLOCATED" /\ r.gpu = "NOT_ALLOCATED"
      /\ r.cpu # "TEMP_WRITE" /\ r.gpu # "TEMP_WRITE"
  BY <1>1, <1>2, <1>5 DEF SameShape, Coherent
<1>7. HolderOf(r) = "none" /\ PrivateOf(r) = Zero
  BY <1>6 DEF HolderOf, PrivateOf
<1>8. Visible(r)
  BY <1>1, <1>2, <1>5, <1>6 DEF Visible
<1>9. n # 0 => r.host = ValueOf(d)
  <2>1. n # 0 => n > 0
    BY SizeFacts
  <2>2. d.mapped <=> d.exists /\ d.size # 0
    BY SizeFacts DEF Coherent, DataSet
  <2>3. CASE ~d.exists
    BY <1>1, <1>2, <1>5, <2>1, <2>3 DEF Visible, ValueOf, Coherent
  <2>4. CASE d.exists /\ d.size = 0
    BY <1>2, <1>5, <2>2, <2>4 DEF ValueOf
  <2>5. CASE d.exists /\ d.size # 0
    <3>1. n # 0 => r.host = old.host
      BY <1>2, <1>5, <2>1, <2>2, <2>5
    <3>2. n # 0 => ValueOf(old) = old.host
      BY <1>1, <2>1, <2>5 DEF ValueOf, SameShape
    <3>3. QED
      BY <1>1, <3>1, <3>2
  <2>6. QED
    BY <2>3, <2>4, <2>5
<1>10. ValueOf(r) = IF n = 0 THEN Zero ELSE ValueOf(d)
  <2>1. d.instance \/ ~d.instance
    OBVIOUS
  <2>2. QED
    BY <1>5, <1>6, <1>9, <2>1 DEF ValueOf, UpToDate
<1>11. QED
  BY <1>4, <1>6, <1>7, <1>8, <1>10

LEMMA RegisterView ==
    ASSUME NEW d \in DataSet, NEW flag \in BOOLEAN, Coherent(d), Visible(d), ~d.exists
    PROVE  LET r == RegisterUnresolved(d, flag)
           IN  Same(d, r) /\ Visible(r)
<1> DEFINE e       == [d EXCEPT !.exists = TRUE]
           resized == [e EXCEPT !.size = e.size,
                                !.mapped = e.size > 0,
                                !.prot = "rw",
                                !.host = IF e.size > 0 /\ e.mapped THEN @ ELSE Zero]
           r       == SetGpuDataStatusToResized(resized)
<1>1. /\ e \in DataSet
      /\ e.exists /\ e.size = d.size /\ ~e.mapped /\ e.instance = d.instance
      /\ e.cpu = "NOT_ALLOCATED" /\ e.gpu = "NOT_ALLOCATED"
      /\ d.cpu = "NOT_ALLOCATED" /\ d.gpu = "NOT_ALLOCATED"
  BY DEF DataSet, Coherent
<1> HIDE DEF e
<1>2. /\ resized.exists /\ resized.size = d.size /\ resized.host = Zero
      /\ resized.prot = "rw" /\ resized.instance = d.instance
      /\ resized.cpu = e.cpu /\ resized.gpu = e.gpu
  BY <1>1 DEF DataSet
<1>3. resized \in DataSet
  <2>1. (e.size > 0) \in BOOLEAN
    OBVIOUS
  <2>2. QED
    BY <1>1, <2>1, ContentFacts DEF DataSet
<1>4. RegisterUnresolved(d, flag) = r
  BY <1>1 DEF RegisterUnresolved, ResizeInternal, ResizeFaults, e
<1> HIDE DEF resized
<1>5. /\ SameShape(resized, r) /\ r.host = Zero
      /\ d.instance => r.cpu = "UP_TO_DATE_WRITE" /\ r.gpu = "RESIZED_ON_CPU"
      /\ ~d.instance => r = resized
  BY <1>2, <1>3 DEF SetGpuDataStatusToResized, DataSet, SameShape
<1> HIDE DEF r
<1>6. /\ r.size = d.size /\ r.exists /\ r.cpu # "TEMP_WRITE" /\ r.gpu # "TEMP_WRITE"
  BY <1>1, <1>2, <1>5 DEF SameShape
<1>7. /\ HolderOf(r) = "none" /\ PrivateOf(r) = Zero
      /\ HolderOf(d) = "none" /\ PrivateOf(d) = Zero
  BY <1>1, <1>6 DEF HolderOf, PrivateOf
<1>8. ValueOf(r) = Zero
  BY <1>2, <1>5 DEF ValueOf, UpToDate, SameShape
<1>9. ValueOf(d) = Zero
  BY <1>1 DEF ValueOf, Visible, UpToDate
<1>10. QED
  BY <1>4, <1>6, <1>7, <1>8, <1>9 DEF Same, Visible

\* what a device sees of a data set, and what becomes of it when it stores x
Seen(device, d) == IF HolderOf(d) = device THEN PrivateOf(d) ELSE ValueOf(d)

Stored(device, d, x, r) ==
    /\ r.size = d.size /\ HolderOf(r) = HolderOf(d)
    /\ ValueOf(r) = IF HolderOf(d) = device THEN ValueOf(d) ELSE x
    /\ PrivateOf(r) = IF HolderOf(d) = device THEN x ELSE PrivateOf(d)

LEMMA LoadView ==
    ASSUME NEW d \in DataSet, Coherent(d), d.exists, d.size # 0, Loadable(d)
    PROVE  d.host = Seen("cpu", d)
<1>1. CASE ~d.instance
  BY <1>1 DEF Coherent, Seen, HolderOf, ValueOf
<1>2. CASE d.instance
  BY <1>2 DEF Coherent, Owned, Guarded, Seen, HolderOf, ValueOf, PrivateOf, UpToDate
<1>3. QED
  BY <1>1, <1>2

LEMMA StoreView ==
    ASSUME NEW d \in DataSet, Coherent(d), Visible(d), d.exists, d.size # 0, Storable(d),
           NEW x \in Values
    PROVE  Stored("cpu", d, x, HostStore(d, x)) /\ Visible(HostStore(d, x))
<1> DEFINE r == HostStore(d, x)
<1>1. /\ SameShape(d, r) /\ r.host = x /\ r.dev = d.dev
      /\ r.cpu = d.cpu /\ r.gpu = d.gpu /\ r.prot = d.prot
  BY DEF HostStore, DataSet, SameShape
<1> SUFFICES Stored("cpu", d, x, r) /\ Visible(r)
  OBVIOUS
<1> HIDE DEF r
<1>2. HolderOf(r) = HolderOf(d) /\ Visible(r)
  BY <1>1 DEF HolderOf, Visible, SameShape
<1>3. CASE ~d.instance
  BY <1>1, <1>2, <1>3 DEF Coherent, Stored, HolderOf, ValueOf, PrivateOf, SameShape
<1>4. CASE d.instance
  BY <1>1, <1>2, <1>4
     DEF Coherent, Owned, Guarded, Stored, HolderOf, ValueOf, PrivateOf, UpToDate, SameShape
<1>5. QED
  BY <1>2, <1>3, <1>4

LEMMA KernelView ==
    ASSUME NEW d \in DataSet, Coherent(d), d.exists, d.instance, d.size # 0, Extractable(d)
    PROVE  d.dev = Seen("gpu", d)
BY DEF Coherent, Owned, Agree, Extractable, Seen, HolderOf, ValueOf, PrivateOf, UpToDate

LEMMA KernelStoreView ==
    ASSUME NEW d \in DataSet, Coherent(d), Visible(d), d.exists, d.instance, d.size # 0,
           Extractable(d), d.cpu \in UpToDate => d.gpu = "TEMP_WRITE",
           NEW x \in Values
    PROVE  Stored("gpu", d, x, KernelStore(d, x)) /\ Visible(KernelStore(d, x))
<1> DEFINE r == KernelStore(d, x)
<1>1. /\ SameShape(d, r) /\ r.host = d.host /\ r.dev = x
      /\ r.cpu = d.cpu /\ r.gpu = d.gpu /\ r.prot = d.prot
  BY DEF KernelStore, DataSet, SameShape
<1> SUFFICES Stored("gpu", d, x, r) /\ Visible(r)
  OBVIOUS
<1> HIDE DEF r
<1>2. HolderOf(r) = HolderOf(d) /\ Visible(r)
  BY <1>1 DEF HolderOf, Visible, SameShape
<1>3. QED
  BY <1>1, <1>2
     DEF Coherent, Owned, Extractable, Stored, HolderOf, ValueOf, PrivateOf, UpToDate, SameShape

\* the source of a device-side copy ends up with its value on the GPU
LEMMA SourcedView ==
    ASSUME NEW d \in DataSet, Coherent(d), Visible(d), d.exists
    PROVE  LET r == Sourced(d)
           IN  /\ r \in DataSet /\ Coherent(r) /\ Visible(r)
               /\ r.exists /\ r.instance /\ r.gpu \in UpToDate
               /\ TakenOver("gpu", d, r)
<1>1. "MOVE" \in TransferMode /\ "READ_ONLY" \in TransferMode
  BY DEF TransferMode
<1>2. CASE ~d.instance
  <2> DEFINE s == Setup(d)
  <2>1. /\ s \in DataSet /\ Coherent(s) /\ Visible(s) /\ s.exists /\ s.instance
        /\ Same(d, s)
    BY SetupType, SetupCoherent, SetupView
  <2> HIDE DEF s
  <2> DEFINE r == TransferToGpu(s, "MOVE")
  <2>2. /\ r.gpu \in UpToDate /\ SameShape(s, r)
    BY <1>1, <2>1, TransferToGpuFields DEF GpuAfterToGpu, UpToDate
  <2>3. r \in DataSet /\ Coherent(r) /\ Visible(r)
    BY <1>1, <2>1, TransferToGpuType, TransferToGpuCoherent, TransferVisible
  <2>4. TakenOver("gpu", s, r)
    BY <2>1, ToGpuOwn
  <2> HIDE DEF r
  <2>5. TakenOver("gpu", d, r)
    BY <2>1, <2>4 DEF TakenOver, GivesUp, Same
  <2>6. Sourced(d) = r
    BY <1>2 DEF Sourced, r, s
  <2>7. QED
    BY <2>1, <2>2, <2>3, <2>5, <2>6 DEF SameShape
<1>3. CASE d.instance /\ d.gpu \notin UpToDate
  <2> DEFINE r == TransferToGpu(d, "READ_ONLY")
  <2>1. r.gpu \in UpToDate /\ SameShape(d, r)
    BY <1>1, <1>3, TransferToGpuFields DEF GpuAfterToGpu, UpToDate
  <2>2. r \in DataSet /\ Coherent(r) /\ Visible(r) /\ TakenOver("gpu", d, r)
    BY <1>1, <1>3, TransferToGpuType, TransferToGpuCoherent, TransferVisible, ToGpuOwn
  <2> HIDE DEF r
  <2>3. Sourced(d) = r
    BY <1>3, SetupCoherent DEF Sourced, r
  <2>4. QED
    BY <1>3, <2>1, <2>2, <2>3 DEF SameShape
<1>4. CASE d.instance /\ d.gpu \in UpToDate
  <2>1. Sourced(d) = d
    BY <1>4 DEF Sourced
  <2>2. HolderOf(d) # "gpu"
    BY <1>4 DEF HolderOf, UpToDate
  <2>3. QED
    BY <1>4, <2>1, <2>2 DEF TakenOver, GivesUp
<1>5. QED
  BY <1>2, <1>3, <1>4 DEF DataSet

\* what a data set becomes when it is overwritten on the GPU
Overwritten(d, x, r) == r.size = d.size /\ ValueOf(r) = x /\ GivesUp("gpu", d, r)

LEMMA OverwrittenView ==
    ASSUME NEW d \in DataSet, Coherent(d), Visible(d), d.exists, d.size # 0, NEW x \in Content
    PROVE  LET o == TransferToGpu(Setup(d), "NOT_INITIALIZE")
               r == [o EXCEPT !.dev = x]
           IN  /\ Overwritten(d, x, r) /\ Visible(r)
               /\ d.instance /\ d.gpu \in UpToDate => o.dev = d.dev
<1> DEFINE s == Setup(d)
           o == TransferToGpu(s, "NOT_INITIALIZE")
           r == [o EXCEPT !.dev = x]
<1>1. "NOT_INITIALIZE" \in TransferMode
  BY DEF TransferMode
<1>2. /\ s \in DataSet /\ Coherent(s) /\ Visible(s) /\ s.exists /\ s.instance
      /\ Same(d, s) /\ (d.instance => s = d)
  BY SetupType, SetupCoherent, SetupView
<1> HIDE DEF s
<1>3. /\ SameShape(s, o) /\ o.gpu = "UP_TO_DATE_WRITE"
      /\ o.cpu \in {"TEMP_WRITE", "OUT_OF_DATE"}
      /\ s.gpu \in UpToDate => o.dev = s.dev
  BY <1>1, <1>2, TransferToGpuFields
     DEF GpuAfterToGpu, CpuAfterToGpu, ToGpuPush, ToGpuPull, UpToDate
<1>4. o \in DataSet /\ Visible(o) /\ GivesUp("gpu", s, o)
  BY <1>1, <1>2, TransferToGpuType, TransferVisible, ToGpuNoInit
<1> HIDE DEF o
<1>5. /\ SameShape(o, r) /\ r.host = o.host /\ r.dev = x
      /\ r.cpu = o.cpu /\ r.gpu = o.gpu /\ r.prot = o.prot
  BY <1>4 DEF DataSet, SameShape
<1> HIDE DEF r
<1>6. ValueOf(r) = x
  BY <1>2, <1>3, <1>5 DEF ValueOf, UpToDate, SameShape, Same
<1>7. HolderOf(r) = HolderOf(o) /\ PrivateOf(r) = PrivateOf(o)
  BY <1>3, <1>5 DEF HolderOf, PrivateOf, SameShape
<1>8. GivesUp("gpu", d, r)
  BY <1>2, <1>4, <1>7 DEF GivesUp, Same
<1>9. Visible(r) /\ r.size = d.size
  BY <1>2, <1>3, <1>4, <1>5 DEF Visible, SameShape, Same
<1>10. d.instance /\ d.gpu \in UpToDate => o.dev = d.dev
  BY <1>2, <1>3
<1>11. QED
  BY <1>6, <1>8, <1>9, <1>10 DEF Overwritten, o, r, s

-----------------------------------------------------------------------------
(* What becomes of each data set decides the step of the single-copy store. *)

Others(S) == \A v \in Vars \ S : Same(ds[v], ds'[v])

LEMMA InternalRefines ==
    ASSUME \A v \in Vars : Same(ds[v], ds'[v]), event' = Internal
    PROVE  Promise!AbstractNext
<1>1. Promise!InternalStep
  BY DEF Promise!InternalStep, Promise!store, Same, Internal, Request
<1>2. QED
  BY <1>1 DEF Promise!AbstractNext

LEMMA OwnRefines ==
    ASSUME NEW device \in {"cpu", "gpu"}, NEW S \in SUBSET Vars,
           \A v \in S : TakenOver(device, ds[v], ds'[v]), Others(S),
           event' = Request("own", device, S)
    PROVE  Promise!AbstractNext
<1>1. Promise!Asked("own", device, S)
  BY DEF Promise!Asked, Request
<1>2. \A v \in Vars : ds'[v].size = ds[v].size /\ ValueOf(ds'[v]) = ValueOf(ds[v])
  BY DEF Others, Same, TakenOver
<1>3. Promise!EndPrivate(device, S)
  BY DEF Promise!EndPrivate, TakenOver, GivesUp, Others, Same
<1>4. Promise!Own(device, S)
  BY <1>1, <1>2, <1>3 DEF Promise!Own
<1>5. QED
  BY <1>4 DEF Promise!AbstractNext

LEMMA CopyRefines ==
    ASSUME NEW device \in {"cpu", "gpu"}, NEW S \in SUBSET Vars,
           \A v \in S : Copied(device, ds[v], ds'[v]), Others(S),
           event' = Request("copy", device, S)
    PROVE  Promise!AbstractNext
<1>1. Promise!Asked("copy", device, S)
  BY DEF Promise!Asked, Request
<1>2. Promise!BeginPrivate(device, S)
  BY DEF Promise!BeginPrivate, Copied, Others, Same
<1>3. Promise!Copy(device, S)
  BY <1>1, <1>2 DEF Promise!Copy
<1>4. QED
  BY <1>3 DEF Promise!AbstractNext

LEMMA SyncRefines ==
    ASSUME NEW device \in {"cpu", "gpu"}, NEW S \in SUBSET Vars,
           \A v \in S : Copied("cpu", ds[v], ds'[v]), Others(S),
           event' = Request("sync", device, S)
    PROVE  Promise!AbstractNext
<1>1. Promise!Asked("sync", device, S)
  BY DEF Promise!Asked, Request
<1>2. Promise!BeginPrivate("cpu", S)
  BY DEF Promise!BeginPrivate, Copied, Others, Same
<1>3. Promise!Sync(device, S)
  BY <1>1, <1>2 DEF Promise!Sync
<1>4. QED
  BY <1>3 DEF Promise!AbstractNext

LEMMA NoInitRefines ==
    ASSUME NEW device \in {"cpu", "gpu"}, NEW v \in Vars,
           ds'[v].size = ds[v].size, ValueOf(ds'[v]) \in Content,
           GivesUp(device, ds[v], ds'[v]), Others({v}),
           event' = Request("noinit", device, {v})
    PROVE  Promise!AbstractNext
<1>1. Promise!Asked("noinit", device, {v})
  BY DEF Promise!Asked, Request
<1>2. Promise!EndPrivate(device, {v})
  BY DEF Promise!EndPrivate, GivesUp, Others, Same
<1>3. [w \in Vars |-> ValueOf(ds'[w])]
        = [[w \in Vars |-> ValueOf(ds[w])] EXCEPT ![v] = ValueOf(ds'[v])]
  BY DEF Others, Same
<1>4. \A w \in Vars : ds'[w].size = ds[w].size
  BY DEF Others, Same
<1>5. Promise!TakeUninitialized(device, v)
  BY <1>1, <1>2, <1>3, <1>4 DEF Promise!TakeUninitialized, Promise!Content, Content
<1>6. QED
  BY <1>5 DEF Promise!AbstractNext

LEMMA MemcpyRefines ==
    ASSUME NEW dest \in Vars, NEW src \in Vars,
           src # dest => TakenOver("gpu", ds[src], ds'[src]),
           Overwritten(ds[dest], ValueOf(ds[src]), ds'[dest]),
           Others({dest, src}),
           event'.op = "memcpy", event'.device = "gpu", event'.vars = {dest, src},
           event'.saw = [v \in {src} |-> ValueOf(ds[src])]
    PROVE  Promise!AbstractNext
<1>1. Promise!Asked("memcpy", "gpu", {dest, src})
  BY DEF Promise!Asked
<1>2. Promise!EndPrivate("gpu", {dest, src})
  BY DEF Promise!EndPrivate, GivesUp, TakenOver, Overwritten, Others, Same
<1>3. [w \in Vars |-> ValueOf(ds'[w])]
        = [[w \in Vars |-> ValueOf(ds[w])] EXCEPT ![dest] = ValueOf(ds[src])]
  BY DEF Others, Same, TakenOver, Overwritten
<1>4. \A w \in Vars : ds'[w].size = ds[w].size
  BY DEF Others, Same, TakenOver, Overwritten
<1>5. Promise!CopyValue(dest, src)
  BY <1>1, <1>2, <1>3, <1>4 DEF Promise!CopyValue
<1>6. QED
  BY <1>5 DEF Promise!AbstractNext

LEMMA ResizeRefines ==
    ASSUME NEW v \in Vars, NEW n \in 0..MaxSize,
           ds'[v].size = n, ValueOf(ds'[v]) = IF n = 0 THEN Zero ELSE ValueOf(ds[v]),
           HolderOf(ds'[v]) = "none", PrivateOf(ds'[v]) = Zero, Others({v}),
           event' = Request("resize", "cpu", {v})
    PROVE  Promise!AbstractNext
<1>1. Promise!Asked("resize", "cpu", {v})
  BY DEF Promise!Asked, Request
<1>2. /\ [w \in Vars |-> ds'[w].size] = [[w \in Vars |-> ds[w].size] EXCEPT ![v] = n]
      /\ [w \in Vars |-> ValueOf(ds'[w])] =
            [[w \in Vars |-> ValueOf(ds[w])] EXCEPT
                ![v] = IF n = 0 THEN Zero ELSE ValueOf(ds[v])]
      /\ [w \in Vars |-> HolderOf(ds'[w])] = [[w \in Vars |-> HolderOf(ds[w])] EXCEPT ![v] = "none"]
      /\ [w \in Vars |-> PrivateOf(ds'[w])] = [[w \in Vars |-> PrivateOf(ds[w])] EXCEPT ![v] = Zero]
  BY DEF Others, Same
<1>3. Promise!ResizeValue(v)
  BY <1>1, <1>2 DEF Promise!ResizeValue
<1>4. QED
  BY <1>3 DEF Promise!AbstractNext

LEMMA LoadRefines ==
    ASSUME NEW v \in Vars, ds' = ds,
           event'.op = "load", event'.device = "cpu", event'.vars = {v},
           event'.saw = [w \in {v} |-> Seen("cpu", ds[v])]
    PROVE  Promise!AbstractNext
<1>1. Promise!Asked("load", "cpu", {v})
  BY DEF Promise!Asked
<1>2. Promise!Sees("cpu", {v})
  BY DEF Promise!Sees, Promise!View, Seen
<1>3. Promise!Load(v)
  BY <1>1, <1>2 DEF Promise!Load, Promise!store
<1>4. QED
  BY <1>3 DEF Promise!AbstractNext

LEMMA StoreRefines ==
    ASSUME NEW v \in Vars, NEW x \in Values,
           Stored("cpu", ds[v], x, ds'[v]), Others({v}),
           event'.op = "store", event'.device = "cpu", event'.vars = {v},
           event'.wrote = [w \in {v} |-> x]
    PROVE  Promise!AbstractNext
<1>1. Promise!Asked("store", "cpu", {v})
  BY DEF Promise!Asked
<1>2. Promise!StoreAll("cpu", {v}, event'.wrote)
  BY DEF Promise!StoreAll, Stored, Others, Same
<1>3. \A w \in Vars : ds'[w].size = ds[w].size /\ HolderOf(ds'[w]) = HolderOf(ds[w])
  BY DEF Stored, Others, Same
<1>4. Promise!Store(v)
  BY <1>1, <1>2, <1>3 DEF Promise!Store
<1>5. QED
  BY <1>4 DEF Promise!AbstractNext

LEMMA KernelRefines ==
    ASSUME NEW R \in SUBSET Vars, NEW W \in SUBSET Vars, NEW x \in [W -> Values],
           \A v \in W : Stored("gpu", ds[v], x[v], ds'[v]), Others(W),
           event'.op = "kernel", event'.device = "gpu", event'.vars = R,
           event'.saw = [v \in R |-> Seen("gpu", ds[v])], event'.wrote = x
    PROVE  Promise!AbstractNext
<1>1. Promise!Asked("kernel", "gpu", R)
  BY DEF Promise!Asked
<1>2. Promise!Sees("gpu", R)
  BY DEF Promise!Sees, Promise!View, Seen
<1>3. Promise!StoreAll("gpu", W, x)
  BY DEF Promise!StoreAll, Stored, Others, Same
<1>4. \A w \in Vars : ds'[w].size = ds[w].size /\ HolderOf(ds'[w]) = HolderOf(ds[w])
  BY DEF Stored, Others, Same
<1>5. Promise!Kernel(R)
  BY <1>1, <1>2, <1>3, <1>4 DEF Promise!Kernel
<1>6. QED
  BY <1>5 DEF Promise!AbstractNext

-----------------------------------------------------------------------------
(* Every action of the framework.                                          *)

SeenInv ==
    /\ \A v \in Vars : Visible(ds[v])
    /\ task = "expression" => \A i \in DOMAIN todo : ds[todo[i].var].size # 0

LEMMA StateFacts ==
    ASSUME SafeInv, SeenInv
    PROVE  /\ ds \in [Vars -> DataSet] /\ inConst \in BOOLEAN
           /\ \A v \in Vars : ds[v] \in DataSet /\ Coherent(ds[v]) /\ Visible(ds[v])
BY DEF SafeInv, SeenInv, TypeInv, TypeOK

LEMMA CallFacts ==
    ASSUME NEW request, NEW new, Call(request, new, FALSE)
    PROVE  /\ ds' = new /\ event' = request
           /\ (\A v \in Vars : Visible(new[v])) => SeenInv'
BY DEF Call, Idle, SeenInv

\* a transfer after which the data set is Same as before but for the transfer
LEMMA AfterSame ==
    ASSUME NEW d, NEW s, NEW r, Same(d, s)
    PROVE  /\ \A device : TakenOver(device, s, r) => TakenOver(device, d, r)
           /\ \A device : Copied(device, s, r) => Copied(device, d, r)
           /\ \A device : GivesUp(device, s, r) => GivesUp(device, d, r)
BY DEF Same, TakenOver, Copied, GivesUp

LEMMA TransferToGpuRefines ==
    ASSUME Waived = {}, SafeInv, SeenInv, NEW v \in Vars, NEW mode \in TransferMode,
           TransferToGpuCall(v, mode)
    PROVE  Promise!AbstractNext /\ SeenInv'
<1> DEFINE d       == Setup(ds[v])
           r       == TransferToGpu(d, mode)
           request == IF d.exists THEN Request(Operation(mode), "gpu", {v}) ELSE Internal
<1>1. /\ ds \in [Vars -> DataSet]
      /\ \A w \in Vars : ds[w] \in DataSet /\ Coherent(ds[w]) /\ Visible(ds[w])
  BY StateFacts
<1>2. /\ d \in DataSet /\ Coherent(d) /\ Visible(d) /\ d.instance /\ Same(ds[v], d)
  BY <1>1, SetupType, SetupCoherent, SetupView
<1>3. mode = "COPY" => CopyToGpuAllowed(d)
  BY DEF TransferToGpuCall, CopyToGpuAllowed
<1>4. ToGpuFails(d, mode) = FALSE
  BY <1>2, NoFailure DEF ToGpuFails
<1>5. Call(request, [ds EXCEPT ![v] = r], FALSE)
  BY <1>4 DEF TransferToGpuCall
<1>6. ds' = [ds EXCEPT ![v] = r] /\ event' = request
  BY <1>5 DEF Call
<1>7. Visible(r)
  BY <1>2, TransferVisible
<1> HIDE DEF d
<1>8. SeenInv'
  <2>1. \A w \in Vars : Visible([ds EXCEPT ![v] = r][w])
    BY <1>1, <1>7
  <2> HIDE DEF r, request
  <2>2. QED
    BY <1>5, <2>1, CallFacts
<1>9. ds'[v] = r /\ Others({v})
  BY <1>1, <1>6 DEF Others, Same
<1>10. CASE ~d.exists
  <2>1. r = d
    BY <1>2, <1>10 DEF TransferToGpu, Coherent
  <2>2. \A w \in Vars : Same(ds[w], ds'[w])
    BY <1>2, <1>9, <2>1 DEF Others
  <2>3. QED
    BY <1>6, <1>8, <1>10, <2>2, InternalRefines
<1>11. CASE d.exists
  <2>1. event' = Request(Operation(mode), "gpu", {v})
    BY <1>6, <1>11
  <2>2. CASE mode \in {"MOVE", "READ_ONLY"}
    <3>1. TakenOver("gpu", ds[v], r)
      BY <1>2, <1>11, <2>2, ToGpuOwn, AfterSame
    <3>2. event' = Request("own", "gpu", {v})
      BY <2>1, <2>2 DEF Operation
    <3>3. QED
      BY <1>8, <1>9, <3>1, <3>2, OwnRefines
  <2>3. CASE mode = "COPY"
    <3>1. Copied("gpu", ds[v], r)
      BY <1>2, <1>3, <1>11, <2>3, ToGpuCopy, AfterSame
    <3>2. event' = Request("copy", "gpu", {v})
      BY <2>1, <2>3 DEF Operation
    <3>3. QED
      BY <1>8, <1>9, <3>1, <3>2, CopyRefines
  <2>4. CASE mode = "SYNC_AND_MOVE"
    <3>1. Copied("cpu", ds[v], r)
      BY <1>2, <1>11, <2>4, ToGpuSync, AfterSame
    <3>2. event' = Request("sync", "gpu", {v})
      BY <2>1, <2>4 DEF Operation
    <3>3. QED
      BY <1>8, <1>9, <3>1, <3>2, SyncRefines
  <2>5. CASE mode = "NOT_INITIALIZE"
    <3>1. r.size = ds[v].size /\ ValueOf(r) \in Content /\ GivesUp("gpu", ds[v], r)
      BY <1>2, <1>11, <2>5, ToGpuNoInit, AfterSame DEF Same
    <3>2. event' = Request("noinit", "gpu", {v})
      BY <2>1, <2>5 DEF Operation
    <3>3. QED
      BY <1>8, <1>9, <3>1, <3>2, NoInitRefines
  <2>6. QED
    BY <2>2, <2>3, <2>4, <2>5 DEF TransferMode
<1>12. QED
  BY <1>10, <1>11

LEMMA TransferToCpuRefines ==
    ASSUME Waived = {}, SafeInv, SeenInv, NEW v \in Vars, NEW mode \in TransferMode,
           TransferToCpuCall(v, mode)
    PROVE  Promise!AbstractNext /\ SeenInv'
<1> DEFINE d       == ds[v]
           r       == TransferToCpu(d, mode)
           request == IF d.exists /\ d.instance
                      THEN Request(Operation(mode), "cpu", {v}) ELSE Internal
<1>1. /\ ds \in [Vars -> DataSet]
      /\ \A w \in Vars : ds[w] \in DataSet /\ Coherent(ds[w]) /\ Visible(ds[w])
  BY StateFacts
<1>2. /\ d \in DataSet /\ Coherent(d) /\ Visible(d)
  BY <1>1
<1>3. mode = "COPY" /\ d.instance => CopyToCpuAllowed(d)
  BY DEF TransferToCpuCall, CopyToCpuAllowed
<1>4. ToCpuFails(d, mode) = FALSE
  BY <1>2, NoFailure DEF ToCpuFails
<1>5. Call(request, [ds EXCEPT ![v] = r], FALSE)
  BY <1>4 DEF TransferToCpuCall
<1>6. ds' = [ds EXCEPT ![v] = r] /\ event' = request
  BY <1>5 DEF Call
<1>7. Visible(r)
  BY <1>2, TransferVisible
<1> HIDE DEF d
<1>8. SeenInv'
  <2>1. \A w \in Vars : Visible([ds EXCEPT ![v] = r][w])
    BY <1>1, <1>7
  <2> HIDE DEF r, request
  <2>2. QED
    BY <1>5, <2>1, CallFacts
<1>9. ds'[v] = r /\ Others({v})
  BY <1>1, <1>6 DEF Others, Same
<1>10. CASE ~(d.exists /\ d.instance)
  <2>1. r = d
    BY <1>2, <1>10 DEF TransferToCpu, Coherent
  <2>2. \A w \in Vars : Same(ds[w], ds'[w])
    BY <1>9, <2>1 DEF Others, Same, d
  <2>3. QED
    BY <1>6, <1>8, <1>10, <2>2, InternalRefines
<1>11. CASE d.exists /\ d.instance
  <2>1. event' = Request(Operation(mode), "cpu", {v}) /\ d = ds[v]
    BY <1>6, <1>11 DEF d
  <2>2. CASE mode \in {"MOVE", "READ_ONLY"}
    <3>1. TakenOver("cpu", d, r)
      BY <1>2, <1>11, <2>2, ToCpuOwn
    <3>2. event' = Request("own", "cpu", {v})
      BY <2>1, <2>2 DEF Operation
    <3>3. QED
      BY <1>8, <1>9, <2>1, <3>1, <3>2, OwnRefines
  <2>3. CASE mode = "COPY"
    <3>1. Copied("cpu", d, r)
      BY <1>2, <1>3, <1>11, <2>3, ToCpuCopy
    <3>2. event' = Request("copy", "cpu", {v})
      BY <2>1, <2>3 DEF Operation
    <3>3. QED
      BY <1>8, <1>9, <2>1, <3>1, <3>2, CopyRefines
  <2>4. CASE mode = "SYNC_AND_MOVE"
    <3>1. Copied("cpu", d, r)
      BY <1>2, <1>11, <2>4, ToCpuSync
    <3>2. event' = Request("sync", "cpu", {v})
      BY <2>1, <2>4 DEF Operation
    <3>3. QED
      BY <1>8, <1>9, <2>1, <3>1, <3>2, SyncRefines
  <2>5. CASE mode = "NOT_INITIALIZE"
    <3>1. r.size = d.size /\ ValueOf(r) \in Content /\ GivesUp("cpu", d, r)
      BY <1>2, <1>11, <2>5, ToCpuNoInit
    <3>2. event' = Request("noinit", "cpu", {v})
      BY <2>1, <2>5 DEF Operation
    <3>3. QED
      BY <1>8, <1>9, <2>1, <3>1, <3>2, NoInitRefines
  <2>6. QED
    BY <2>2, <2>3, <2>4, <2>5 DEF TransferMode
<1>12. QED
  BY <1>10, <1>11

LEMMA TransferAllRefines ==
    ASSUME Waived = {}, SafeInv, SeenInv, NEW mode \in {"COPY", "MOVE"}, TransferAllToCpu(mode)
    PROVE  Promise!AbstractNext /\ SeenInv'
<1> DEFINE Registered == {v \in Vars : ds[v].exists}
           S   == {v \in Registered : ds[v].instance}
           new == [v \in Vars |-> IF v \in Registered THEN TransferToCpu(ds[v], mode) ELSE ds[v]]
<1>1. \A v \in Vars : ds[v] \in DataSet /\ Coherent(ds[v]) /\ Visible(ds[v])
  BY StateFacts
<1>2. mode \in TransferMode
  BY DEF TransferMode
<1>3. ASSUME NEW v \in S, mode = "COPY"
      PROVE  CopyToCpuAllowed(ds[v])
  BY <1>3 DEF TransferAllToCpu, CopyToCpuAllowed
<1>4. (\E v \in Registered : ToCpuFails(ds[v], mode)) = FALSE
  BY <1>1, <1>2, NoFailure
<1>5. Call(Request(Operation(mode), "cpu", S), new, FALSE)
  BY <1>4 DEF TransferAllToCpu
<1>6. ASSUME NEW v \in Vars
      PROVE  Visible(new[v])
  BY <1>1, <1>2, TransferVisible
<1> HIDE DEF new, S
<1>7. /\ ds' = new /\ event' = Request(Operation(mode), "cpu", S)
      /\ SeenInv'
  BY <1>5, <1>6, CallFacts
<1>8. Others(S)
  <2>1. ASSUME NEW v \in Vars \ S
        PROVE  new[v] = ds[v]
    BY <1>1 DEF TransferToCpu, new, S
  <2>2. QED
    BY <1>7, <2>1 DEF Others, Same
<1>9. \A v \in S : /\ v \in Vars /\ ds'[v] = TransferToCpu(ds[v], mode)
                   /\ ds[v].exists /\ ds[v].instance
  BY <1>7 DEF new, S
<1>10. CASE mode = "MOVE"
  <2>1. \A v \in S : TakenOver("cpu", ds[v], ds'[v])
    BY <1>1, <1>9, <1>10, ToCpuOwn
  <2>2. event' = Request("own", "cpu", S)
    BY <1>7, <1>10 DEF Operation
  <2>3. S \in SUBSET Vars
    BY <1>9
  <2>4. QED
    BY <1>7, <1>8, <2>1, <2>2, <2>3, OwnRefines
<1>11. CASE mode = "COPY"
  <2>1. \A v \in S : Copied("cpu", ds[v], ds'[v])
    BY <1>1, <1>3, <1>9, <1>11, ToCpuCopy
  <2>2. event' = Request("copy", "cpu", S)
    BY <1>7, <1>11 DEF Operation
  <2>3. S \in SUBSET Vars
    BY <1>9
  <2>4. QED
    BY <1>7, <1>8, <2>1, <2>2, <2>3, CopyRefines
<1>12. QED
  BY <1>10, <1>11

LEMMA MemcpyVarRefines ==
    ASSUME SafeInv, SeenInv, NEW dest \in Vars, NEW src \in Vars, MemcpyVar(dest, src)
    PROVE  Promise!AbstractNext /\ SeenInv'
<1> DEFINE q     == Sourced(ds[src])
           ready == [ds EXCEPT ![src] = q]
           o     == TransferToGpu(Setup(ready[dest]), "NOT_INITIALIZE")
           owned == [ready EXCEPT ![dest] = o]
           x     == owned[src].dev
           r     == [o EXCEPT !.dev = x]
<1>1. /\ ds \in [Vars -> DataSet]
      /\ \A v \in Vars : ds[v] \in DataSet /\ Coherent(ds[v]) /\ Visible(ds[v])
  BY StateFacts
<1>2. /\ ds[dest].exists /\ ds[src].exists
      /\ ds[dest].size = ds[src].size /\ ds[src].size # 0
  BY <1>1, SizeFacts DEF MemcpyVar, DataSet
<1>3. /\ q \in DataSet /\ Coherent(q) /\ Visible(q) /\ q.exists /\ q.instance
      /\ q.gpu \in UpToDate /\ TakenOver("gpu", ds[src], q)
  BY <1>1, <1>2, SourcedView
<1>4. q.size = ds[src].size /\ q.dev = ValueOf(ds[src])
  BY <1>2, <1>3, ValueFacts DEF TakenOver
<1>5. /\ ds' = [owned EXCEPT ![dest].dev = x]
      /\ event' = [Request("memcpy", "gpu", {dest, src}) EXCEPT
                      !.saw = [v \in {src} |-> x], !.wrote = [v \in {dest} |-> x]]
      /\ task' = "none"
  BY DEF MemcpyVar, Call, Idle
<1> HIDE DEF q
<1>6. /\ ready \in [Vars -> DataSet]
      /\ ready[src] = q /\ \A v \in Vars \ {src} : ready[v] = ds[v]
  BY <1>1, <1>3
<1> HIDE DEF ready
<1>7. /\ ready[dest] \in DataSet /\ Coherent(ready[dest]) /\ Visible(ready[dest])
      /\ ready[dest].exists /\ ready[dest].size # 0
  BY <1>1, <1>2, <1>3, <1>4, <1>6
<1>8. o \in DataSet
  BY <1>7, SetupType, TransferToGpuType DEF TransferMode
<1>9. x \in Content
  <2>1. owned[src] \in DataSet
    BY <1>6, <1>8
  <2>2. QED
    BY <2>1 DEF DataSet
<1> HIDE DEF x
<1>10. /\ Overwritten(ready[dest], x, r) /\ Visible(r)
       /\ ready[dest].instance /\ ready[dest].gpu \in UpToDate => o.dev = ready[dest].dev
  BY <1>7, <1>9, OverwrittenView
<1> HIDE DEF o, r
<1>11. x = ValueOf(ds[src])
  <2>1. CASE dest = src
    <3>1. x = o.dev
      BY <1>6, <2>1 DEF x
    <3>2. QED
      BY <1>3, <1>4, <1>6, <1>10, <2>1, <3>1
  <2>2. CASE dest # src
    <3>1. x = q.dev
      BY <1>6, <2>2 DEF x
    <3>2. QED
      BY <1>4, <3>1
  <2>3. QED
    BY <2>1, <2>2
<1>12. Overwritten(ds[dest], x, r)
  BY <1>3, <1>6, <1>10 DEF Overwritten, TakenOver, GivesUp
<1>13. /\ ds'[dest] = r
       /\ src # dest => ds'[src] = q
       /\ \A v \in Vars \ {dest, src} : ds'[v] = ds[v]
  BY <1>5, <1>6 DEF r
<1>14. SeenInv'
  BY <1>1, <1>3, <1>5, <1>10, <1>13 DEF SeenInv
<1>15. /\ event'.op = "memcpy" /\ event'.device = "gpu" /\ event'.vars = {dest, src}
       /\ event'.saw = [v \in {src} |-> x]
  BY <1>5 DEF Request
<1>16. Others({dest, src})
  BY <1>13 DEF Others, Same
<1>17. QED
  BY <1>3, <1>11, <1>12, <1>13, <1>14, <1>15, <1>16, MemcpyRefines

LEMMA ResizeStepRefines ==
    ASSUME Waived = {}, SafeInv, SeenInv, NEW v \in Vars, NEW n \in 0..MaxSize, Resize(v, n)
    PROVE  Promise!AbstractNext /\ SeenInv'
<1> DEFINE r == ResizeInternal(ds[v], n, inConst)
<1>1. /\ ds \in [Vars -> DataSet] /\ inConst \in BOOLEAN
      /\ \A w \in Vars : ds[w] \in DataSet /\ Coherent(ds[w]) /\ Visible(ds[w])
  BY StateFacts
<1>2. ds[v].cpu # "TEMP_WRITE" /\ (ds[v].exists \/ ~ds[v].instance)
  BY DEF Resize
<1>3. /\ r.size = n /\ ValueOf(r) = IF n = 0 THEN Zero ELSE ValueOf(ds[v])
      /\ HolderOf(r) = "none" /\ PrivateOf(r) = Zero /\ Visible(r)
  BY <1>1, <1>2, ResizeView
<1>4. ds' = [ds EXCEPT ![v] = r] /\ event' = Request("resize", "cpu", {v}) /\ task' = "none"
  BY DEF Resize, Call, Idle
<1> HIDE DEF r
<1>5. ds'[v] = r /\ Others({v}) /\ SeenInv'
  BY <1>1, <1>3, <1>4 DEF Others, Same, SeenInv
<1>6. QED
  BY <1>3, <1>4, <1>5, ResizeRefines

LEMMA RegisterRefines ==
    ASSUME SafeInv, SeenInv, NEW v \in Vars, Register(v)
    PROVE  Promise!AbstractNext /\ SeenInv'
<1> DEFINE r == RegisterUnresolved(ds[v], inConst)
<1>1. /\ ds \in [Vars -> DataSet] /\ inConst \in BOOLEAN
      /\ \A w \in Vars : ds[w] \in DataSet /\ Coherent(ds[w]) /\ Visible(ds[w])
  BY StateFacts
<1>2. Same(ds[v], r) /\ Visible(r)
  BY <1>1, RegisterView DEF Register
<1>3. ds' = [ds EXCEPT ![v] = r] /\ event' = Internal /\ task' = "none"
  BY DEF Register, Call, Idle
<1> HIDE DEF r
<1>4. (\A w \in Vars : Same(ds[w], ds'[w])) /\ SeenInv'
  BY <1>1, <1>2, <1>3 DEF Same, SeenInv
<1>5. QED
  BY <1>3, <1>4, InternalRefines

LEMMA LaunchBeginRefines ==
    ASSUME SafeInv, SeenInv, NEW args \in Kernels, LaunchBegin(args)
    PROVE  Promise!AbstractNext /\ SeenInv'
<1>1. \A v \in Vars : ds[v] \in DataSet /\ Coherent(ds[v]) /\ Visible(ds[v])
  BY StateFacts
<1>2. \A v \in Vars : ds'[v] = ds[v] \/ ds'[v] = Setup(ds[v])
  BY DEF LaunchBegin
<1>3. \A v \in Vars : Same(ds[v], ds'[v]) /\ Visible(ds'[v])
  BY <1>1, <1>2, SetupView DEF Same
<1>4. event' = Internal /\ task' = "launch"
  BY DEF LaunchBegin
<1>5. QED
  BY <1>3, <1>4, InternalRefines DEF SeenInv

LEMMA TransferArgumentRefines ==
    ASSUME SafeInv, SeenInv, TransferArgument
    PROVE  Promise!AbstractNext /\ SeenInv'
<1> DEFINE a == Head(todo)
           d == ds[a.var]
           r == TransferToGpu(d, ArgumentMode(a))
<1>1. /\ ds \in [Vars -> DataSet]
      /\ \A v \in Vars : ds[v] \in DataSet /\ Coherent(ds[v]) /\ Visible(ds[v])
  BY StateFacts
<1>2. todo \in Seq(Argument) /\ todo # <<>> /\ LaunchInv
  BY DEF SafeInv, TypeInv, TransferArgument
<1>3. a.var \in Vars /\ d.instance
  <2>1. a.var \in Vars /\ 1 \in DOMAIN todo /\ todo[1] = a
    BY <1>2, HeadArgument, ElementOfTail
  <2>2. QED
    BY <1>2, <2>1 DEF LaunchInv
<1>4. ArgumentMode(a) \in {"MOVE", "READ_ONLY"} /\ ArgumentMode(a) \in TransferMode
  BY DEF ArgumentMode, TransferMode
<1>5. ds' = ds \/ (d.gpu # "TEMP_WRITE" /\ ds' = [ds EXCEPT ![a.var] = r])
  BY DEF TransferArgument
<1>6. event' = Internal /\ task' = "launch"
  BY DEF TransferArgument
<1>7. ASSUME d.gpu # "TEMP_WRITE"
      PROVE  Same(d, r) /\ Visible(r)
  <2>1. Visible(r)
    BY <1>1, <1>3, <1>4, TransferVisible
  <2>2. HolderOf(d) # "gpu"
    BY <1>7 DEF HolderOf
  <2>3. CASE d.exists
    <3>1. TakenOver("gpu", d, r)
      BY <1>1, <1>3, <1>4, <2>3, ToGpuOwn
    <3>2. QED
      BY <2>1, <2>2, <3>1 DEF TakenOver, GivesUp, Same
  <2>4. CASE ~d.exists
    BY <1>1, <1>3, <2>1, <2>4 DEF TransferToGpu, Coherent, Same
  <2>5. QED
    BY <2>3, <2>4
<1> HIDE DEF r
<1>8. \A v \in Vars : Same(ds[v], ds'[v]) /\ Visible(ds'[v])
  <2>1. CASE ds' = ds
    BY <1>1, <2>1 DEF Same
  <2>2. CASE d.gpu # "TEMP_WRITE" /\ ds' = [ds EXCEPT ![a.var] = r]
    BY <1>1, <1>3, <1>7, <2>2 DEF Same
  <2>3. QED
    BY <1>5, <2>1, <2>2
<1>9. QED
  BY <1>6, <1>8, InternalRefines DEF SeenInv

LEMMA RunKernelRefines ==
    ASSUME SafeInv, SeenInv, RunKernel
    PROVE  Promise!AbstractNext /\ SeenInv'
<1> DEFINE Touched(S) == {v \in S : ds[v].exists /\ ds[v].size > 0}
           R == Touched(ArgumentVars)
           W == Touched(MutableVars)
<1>1. \A v \in Vars : ds[v] \in DataSet /\ Coherent(ds[v]) /\ Visible(ds[v])
  BY StateFacts
<1>2. /\ \A v \in ArgumentVars : v \in Vars /\ Extractable(ds[v])
      /\ \A v \in MutableVars : v \in Vars /\ (ds[v].cpu \in UpToDate => ds[v].gpu = "TEMP_WRITE")
  BY LaunchReady DEF RunKernel
<1>3. \A v \in ArgumentVars : ds[v].instance
  <2>1. todo = <<>> /\ LaunchInv
    BY DEF RunKernel, SafeInv
  <2>2. QED
    BY <2>1 DEF LaunchInv, ArgumentVars
<1>4. MutableVars \subseteq ArgumentVars
  BY DEF MutableVars, ArgumentVars
<1>5. PICK x \in [W -> Values] :
         /\ ds' = [v \in Vars |-> IF v \in W THEN KernelStore(ds[v], x[v]) ELSE ds[v]]
         /\ event' = [Request("kernel", "gpu", R) EXCEPT
                         !.saw = [v \in R |-> ds[v].dev], !.wrote = x]
  BY <1>2 DEF RunKernel
<1>6. \A v \in R : /\ v \in Vars /\ ds[v].exists /\ ds[v].instance
                   /\ ds[v].size # 0 /\ Extractable(ds[v])
  <2>1. \A v \in R : v \in ArgumentVars /\ ds[v].exists /\ ds[v].size > 0
    OBVIOUS
  <2>2. \A v \in R : ds[v].size # 0
    BY <2>1
  <2>3. QED
    BY <1>2, <1>3, <2>1, <2>2
<1>7. W \subseteq R /\ \A v \in W : ds[v].cpu \in UpToDate => ds[v].gpu = "TEMP_WRITE"
  BY <1>2, <1>4
<1> HIDE DEF R, W
<1>8. [v \in R |-> ds[v].dev] = [v \in R |-> Seen("gpu", ds[v])]
  <2>1. \A v \in R : ds[v].dev = Seen("gpu", ds[v])
    BY <1>1, <1>6, KernelView
  <2>2. QED
    BY <2>1
<1>9. \A v \in W : /\ Stored("gpu", ds[v], x[v], ds'[v]) /\ Visible(ds'[v])
  <2> SUFFICES ASSUME NEW v \in W
               PROVE  Stored("gpu", ds[v], x[v], ds'[v]) /\ Visible(ds'[v])
    OBVIOUS
  <2>1. x[v] \in Values /\ v \in Vars /\ ds'[v] = KernelStore(ds[v], x[v])
    BY <1>5, <1>6, <1>7
  <2>2. QED
    BY <1>1, <1>6, <1>7, <2>1, KernelStoreView
<1>10. \A v \in Vars \ W : ds'[v] = ds[v]
  BY <1>5
<1>11. Others(W)
  BY <1>10 DEF Others, Same
<1>12. SeenInv'
  <2>1. \A v \in Vars : Visible(ds'[v])
    BY <1>1, <1>9, <1>10
  <2>2. task' = "none"
    BY DEF RunKernel
  <2>3. QED
    BY <2>1, <2>2 DEF SeenInv
<1>13. /\ event'.op = "kernel" /\ event'.device = "gpu" /\ event'.vars = R
       /\ event'.saw = [v \in R |-> ds[v].dev] /\ event'.wrote = x
  BY <1>5 DEF Request
<1>14. R \in SUBSET Vars /\ W \in SUBSET Vars
  BY <1>6, <1>7
<1>15. QED
  BY <1>5, <1>8, <1>9, <1>11, <1>12, <1>13, <1>14, KernelRefines

LEMMA EvaluateRefines ==
    ASSUME SafeInv, SeenInv, NEW e \in Expressions, Evaluate(e)
    PROVE  Promise!AbstractNext /\ SeenInv'
<1>1. ds' = ds /\ event' = Internal /\ todo' = e
  BY DEF Evaluate
<1>2. \A v \in Vars : Same(ds[v], ds'[v])
  BY <1>1 DEF Same
<1>3. \A i \in DOMAIN e : ds[e[i].var].size # 0
  <2>1. e \in Seq(Operand)
    BY ExpressionsAssumption
  <2>2. \A i \in DOMAIN e : e[i].var \in Vars /\ ds[e[i].var].size > 0
    BY <2>1, ElementOperand DEF Evaluate
  <2>3. QED
    BY <2>2
<1>4. QED
  BY <1>1, <1>2, <1>3, InternalRefines DEF SeenInv

LEMMA FaultRefines ==
    ASSUME SafeInv, SeenInv, Fault
    PROVE  Promise!AbstractNext /\ SeenInv'
<1> DEFINE v == Head(todo).var
           d == ds[v]
           r == FaultTransfer(d, inConst)
<1>1. /\ ds \in [Vars -> DataSet] /\ inConst \in BOOLEAN
      /\ \A w \in Vars : ds[w] \in DataSet /\ Coherent(ds[w]) /\ Visible(ds[w])
  BY StateFacts
<1>2. todo \in Seq(Operand) /\ todo # <<>> /\ ExpressionInv
  BY DEF SafeInv, TypeInv, Fault
<1>3. v \in Vars /\ d.exists
  <2>1. v \in Vars /\ 1 \in DOMAIN todo /\ todo[1] = Head(todo)
    BY <1>2, HeadOperand, ElementOfTail
  <2>2. QED
    BY <1>2, <2>1 DEF ExpressionInv
<1>4. ~Storable(d)
  BY DEF Fault, Permitted, Storable, Loadable
<1>5. SameShape(d, r) /\ Same(d, r) /\ Visible(r)
  BY <1>1, <1>3, <1>4, FaultView
<1>6. ds' = [ds EXCEPT ![v] = r] /\ event' = Internal /\ todo' = todo /\ task = "expression"
  BY DEF Fault
<1> HIDE DEF r, v
<1>7. /\ \A w \in Vars : Same(ds[w], ds'[w]) /\ Visible(ds'[w])
      /\ \A w \in Vars : ds'[w].size = ds[w].size
  BY <1>1, <1>3, <1>5, <1>6 DEF Same
<1>8. \A i \in DOMAIN todo : todo[i].var \in Vars
  BY <1>2, ElementOperand
<1>9. QED
  BY <1>6, <1>7, <1>8, InternalRefines DEF SeenInv

LEMMA PerformRefines ==
    ASSUME SafeInv, SeenInv, Perform
    PROVE  Promise!AbstractNext /\ SeenInv'
<1> DEFINE o == Head(todo)
           v == o.var
<1>1. /\ ds \in [Vars -> DataSet]
      /\ \A w \in Vars : ds[w] \in DataSet /\ Coherent(ds[w]) /\ Visible(ds[w])
  BY StateFacts
<1>2. todo \in Seq(Operand) /\ todo # <<>> /\ ExpressionInv
  BY DEF SafeInv, TypeInv, Perform
<1>3. v \in Vars /\ ds[v].exists /\ ds[v].size # 0
  <2>1. v \in Vars /\ 1 \in DOMAIN todo /\ todo[1] = o
    BY <1>2, HeadOperand, ElementOfTail
  <2>2. QED
    BY <1>2, <2>1 DEF ExpressionInv, SeenInv, Perform
<1>4. ASSUME \A w \in Vars : Visible(ds'[w]) /\ ds'[w].size = ds[w].size
      PROVE  SeenInv'
  <2>1. todo' = Tail(todo) /\ task = "expression"
    BY DEF Perform
  <2>2. \A j \in DOMAIN Tail(todo) : j + 1 \in DOMAIN todo /\ Tail(todo)[j] = todo[j + 1]
    BY <1>2, ElementOfTail
  <2>3. \A i \in DOMAIN todo : todo[i].var \in Vars /\ ds[todo[i].var].size # 0
    BY <1>2, <2>1, ElementOperand DEF SeenInv
  <2>4. \A j \in DOMAIN Tail(todo) : ds'[Tail(todo)[j].var].size # 0
    BY <1>4, <2>2, <2>3
  <2>5. QED
    BY <1>4, <2>1, <2>4 DEF SeenInv
<1>5. CASE o.store
  <2>1. PICK x \in Values :
           /\ ds' = [ds EXCEPT ![v] = HostStore(ds[v], x)]
           /\ event' = [Request("store", "cpu", {v}) EXCEPT !.wrote = [w \in {v} |-> x]]
    BY <1>5 DEF Perform
  <2>2. Storable(ds[v])
    BY <1>5 DEF Perform, Permitted
  <2> DEFINE r == HostStore(ds[v], x)
  <2>3. Stored("cpu", ds[v], x, r) /\ Visible(r)
    BY <1>1, <1>3, <2>2, StoreView
  <2> HIDE DEF r
  <2>4. ds' = [ds EXCEPT ![v] = r]
    BY <2>1 DEF r
  <2> HIDE DEF v
  <2>5. ds'[v] = r /\ \A w \in Vars \ {v} : ds'[w] = ds[w]
    BY <1>1, <1>3, <2>4
  <2>6. \A w \in Vars : Visible(ds'[w]) /\ ds'[w].size = ds[w].size
    BY <1>1, <2>3, <2>5 DEF Stored
  <2>7. Others({v})
    BY <2>5 DEF Others, Same
  <2>8. /\ event'.op = "store" /\ event'.device = "cpu" /\ event'.vars = {v}
        /\ event'.wrote = [w \in {v} |-> x]
    BY <2>1 DEF Request
  <2>9. QED
    BY <1>3, <1>4, <2>3, <2>5, <2>6, <2>7, <2>8, StoreRefines
<1>6. CASE ~o.store
  <2>1. /\ ds' = ds
        /\ event' = [Request("load", "cpu", {v}) EXCEPT !.saw = [w \in {v} |-> ds[v].host]]
    BY <1>6 DEF Perform
  <2>2. Loadable(ds[v])
    BY <1>6 DEF Perform, Permitted
  <2>3. ds[v].host = Seen("cpu", ds[v])
    BY <1>1, <1>3, <2>2, LoadView
  <2> HIDE DEF v
  <2>4. [w \in {v} |-> ds[v].host] = [w \in {v} |-> Seen("cpu", ds[v])]
    BY <2>3
  <2>5. /\ event'.op = "load" /\ event'.device = "cpu" /\ event'.vars = {v}
        /\ event'.saw = [w \in {v} |-> Seen("cpu", ds[v])]
    BY <2>1, <2>4 DEF Request
  <2>6. QED
    BY <1>1, <1>3, <1>4, <2>1, <2>5, LoadRefines
<1>7. QED
  BY <1>5, <1>6

-----------------------------------------------------------------------------
RefInv == SafeInv /\ SeenInv

LEMMA RefInit == Init => RefInv /\ Promise!AbstractInit
<1> SUFFICES ASSUME Init PROVE RefInv /\ Promise!AbstractInit
  OBVIOUS
<1>1. SafeInv
  BY SafeInit
<1>2. ASSUME NEW v \in Vars
      PROVE  /\ ds[v].size \in 0..MaxSize /\ ds[v].host = Zero /\ ~ds[v].instance
             /\ ds[v].cpu = "NOT_ALLOCATED" /\ ds[v].gpu = "NOT_ALLOCATED"
  BY DEF Init, NewDataSet
<1>3. \A v \in Vars : /\ ValueOf(ds[v]) = Zero /\ HolderOf(ds[v]) = "none"
                      /\ PrivateOf(ds[v]) = Zero /\ Visible(ds[v])
  BY <1>2 DEF ValueOf, HolderOf, PrivateOf, Visible
<1>4. SeenInv /\ event.op = "internal"
  BY <1>3 DEF Init, SeenInv, Internal, Request
<1>5. Promise!AbstractInit
  BY <1>2, <1>3, <1>4 DEF Promise!AbstractInit
<1>6. QED
  BY <1>1, <1>4, <1>5 DEF RefInv

LEMMA RefStep ==
    ASSUME Waived = {}, RefInv, [Next]_vars
    PROVE  RefInv' /\ [Promise!AbstractNext]_(Promise!abstractVars)
<1>1. SafeInv' /\ SafeInv /\ SeenInv
  BY SafeStep DEF RefInv
<1>2. CASE Next
  BY <1>1, <1>2, TransferToGpuRefines, TransferToCpuRefines, TransferAllRefines,
     MemcpyVarRefines, LaunchBeginRefines, TransferArgumentRefines, RunKernelRefines,
     ResizeStepRefines, RegisterRefines, EvaluateRefines, FaultRefines, PerformRefines
     DEF Next, RefInv
<1>3. CASE UNCHANGED vars
  <2>1. SeenInv'
    BY <1>1, <1>3 DEF vars, SeenInv
  <2>2. UNCHANGED Promise!abstractVars
    BY <1>3 DEF vars, Promise!abstractVars, Promise!store
  <2>3. QED
    BY <1>1, <2>1, <2>2 DEF RefInv
<1>4. QED
  BY <1>2, <1>3

\* The framework keeps the promise of the single-copy store, for any number of
\* data sets, argument lists and statements: whatever transfers, faults,
\* launches and resizes lie in between, a load or a kernel sees the value last
\* stored, or the private copy its device asked for.
THEOREM KeepsThePromise ==
    ASSUME Waived = {}
    PROVE  Spec => SingleCopyRefinement
<1>1. RefInv /\ [Next]_vars => RefInv' /\ [Promise!AbstractNext]_(Promise!abstractVars)
  BY RefStep
<1>2. QED
  BY <1>1, RefInit, PTL DEF Spec, SingleCopyRefinement, Promise!AbstractSpec
=============================================================================
