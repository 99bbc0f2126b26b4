-------------------------------- MODULE Silo --------------------------------
(***************************************************************************)
(* The registry of named data sets (silo), the host memory and layout of an *)
(* entry (dataSetBase, dataSetStorage, indexer) and its counterpart on the  *)
(* device (dataSetBaseGPU).  A program registers and retrieves entries by   *)
(* type and name, in either order, sizes all the entries of a type at once, *)
(* moves entries between the devices, and clears the registry at the end.   *)
(* What a transfer does to the values is the subject of GpuManager; here it *)
(* is the sizes, the addresses and the lifetimes that count.                *)
(***************************************************************************)
EXTENDS XpuDataSet, SequencesExt

CONSTANTS
    Declarations,  \* [type, name, pod, shape] a program may ask for
    Modes,         \* transfer modes it uses
    Waived         \* obligations of the program that this instance ignores

StorageTypes == {"CELL", "FACE", "BOUNDARY", "VECTOR", "PARAMETER"}

\* What no line enforces although the program relies on it.  "multi_dim":
\* entries with a shape are not resized once registered, nor retrieved before
\* unless their type is empty.  "early_offsets": an entry with a shape gets no GPU
\* instance before it is registered.  "shrink_to_empty": no entry with a device
\* buffer is resized to nothing.  "resize_unresolved": no unregistered entry
\* with a GPU instance is resized.  "allocate_bytes": allocate_memory is
\* called for entries of one byte each.  "memory_first": an entry without
\* memory is not sent to the GPU.  "copy": a COPY leaves the data with the other
\* device, which must own it, as assert() demands in a DEBUG build.
Obligations == {"multi_dim", "early_offsets", "shrink_to_empty",
                "resize_unresolved", "allocate_bytes", "memory_first", "copy"}

\* get_single_element_byte_size
PODs == {"UINT8", "INT32", "FP64"}
ElementBytes(pod) ==
    CASE pod = "UINT8" -> 1
      [] pod = "INT32" -> 4
      [] pod = "FP64"  -> 8

ASSUME DeclarationsAssumption ==
    /\ \A c \in Declarations : c.type \in StorageTypes /\ c.pod \in PODs
    \* set_offsets divides by every dimension
    /\ \A c \in Declarations : c.shape \in Seq(Nat \ {0})
    \* the dimensions of an entry are template arguments that nothing compares
    /\ \A b, c \in Declarations :
           b.type = c.type /\ b.name = c.name => b.shape = c.shape
ASSUME ModesAssumption == Modes \subseteq TransferMode
ASSUME WaivedAssumption == Waived \subseteq Obligations

VARIABLES
    m_num_elements,     \* the size of each type, Unset before the first resize
    m_data,             \* for each type, the registered entry of each name
    m_unresolved_data,  \* likewise the entries that were only retrieved
    heap,               \* the dataSetStorage objects
    handles,            \* the references the program was given
    phase               \* "run", or how the registry ended

vars == <<m_num_elements, m_data, m_unresolved_data, heap, handles, phase>>

Unset == MaxSize + 1

Init ==
    /\ m_num_elements = [T \in StorageTypes |->
                            IF T = "PARAMETER" THEN 1 ELSE IF T = "VECTOR" THEN 0 ELSE Unset]
    /\ m_data = [T \in StorageTypes |-> <<>>]
    /\ m_unresolved_data = [T \in StorageTypes |-> <<>>]
    /\ heap = <<>>
    /\ handles = {}
    /\ phase = "run"

Running == phase = "run"

-----------------------------------------------------------------------------
(* Layout.                                                                  *)

\* m_offsets: the number of values in an entry, then the stride of each index
Offsets(shape) ==
    IF shape = <<>> THEN <<>>
    ELSE FoldLeft(LAMBDA offsets, extent : Append(offsets, Last(offsets) \div extent),
                  <<FoldLeft(LAMBDA a, b : a * b, 1, shape)>>, shape)

\* indexer::access: the place of a value, counted in values
Place(offsets, index) ==
    IF offsets = <<>> THEN index[1]
    ELSE FoldLeft(LAMBDA a, b : a + b, 0, [k \in DOMAIN offsets |-> offsets[k] * index[k]])

\* every index of an entry of size n
Indices(shape, n) ==
    LET Extent == Max({n} \union Range(shape))
    IN  {index \in [1 .. Len(shape) + 1 -> 0 .. Extent - 1] :
            index[1] < n /\ \A k \in DOMAIN shape : index[k + 1] < shape[k]}

\* set_offsets, in the constructor and when an entry is resolved
SetOffsets(o, shape) ==
    LET offsets == Offsets(shape)
    IN  [o EXCEPT !.offsets = offsets,
                  !.bytes = (IF offsets = <<>> THEN 1 ELSE offsets[1])
                                * o.d.size * ElementBytes(o.pod)]

\* resize_internal computes the size without the bytes of a value when there
\* are offsets
ResizedBytes(o, size) ==
    (IF o.offsets # <<>> THEN o.offsets[1] ELSE ElementBytes(o.pod)) * size

ResizeEntry(o, size) ==
    [o EXCEPT !.d = ResizeInternal(@, size, FALSE),
              !.bytes = ResizedBytes(o, size),
              !.alloc = IF o.d.exists \/ size = 0 THEN ResizedBytes(o, size) ELSE @]

-----------------------------------------------------------------------------
(* Registering and retrieving.                                              *)

\* dataSetBase::dataSetBase; alloc is what m_data was mapped for
NewEntry(c, size, unresolved, allocate_mem) ==
    LET d == NewDataSet(~unresolved, size)
        o == [type |-> c.type, name |-> c.name, pod |-> c.pod, shape |-> c.shape,
              d |-> [d EXCEPT !.mapped = @ /\ allocate_mem],
              offsets |-> <<>>, bytes |-> 0, alloc |-> 0,
              devBytes |-> 0, devOffsets |-> <<>>]
        laid == IF unresolved THEN o ELSE SetOffsets(o, c.shape)
    IN  [laid EXCEPT !.alloc = IF o.d.mapped THEN laid.bytes ELSE 0]

NumEntries(T) == IF m_num_elements[T] = Unset THEN 0 ELSE m_num_elements[T]

Handle(c, id) == [type |-> c.type, name |-> c.name, id |-> id]

\* log_error: mpi_abort
Abort ==
    /\ phase' = "aborted"
    /\ UNCHANGED <<m_num_elements, m_data, m_unresolved_data, heap, handles>>

\* one of the two tables, with the entry under the name of c
Inserted(table, c, id) ==
    [table EXCEPT ![c.type] = [name \in DOMAIN @ \union {c.name} |->
                                  IF name = c.name THEN id ELSE @[name]]]

\* create_entry into one of them
CreateEntry(c, allocate_mem, unresolved) ==
    LET id == Len(heap) + 1
    IN  /\ heap' = Append(heap, NewEntry(c, NumEntries(c.type), unresolved, allocate_mem))
        /\ IF unresolved
           THEN m_unresolved_data' = Inserted(m_unresolved_data, c, id) /\ UNCHANGED m_data
           ELSE m_data' = Inserted(m_data, c, id) /\ UNCHANGED m_unresolved_data
        /\ handles' = handles \union {Handle(c, id)}
        /\ UNCHANGED <<m_num_elements, phase>>

\* resolving ignores allocate_mem: the entry always gets its memory
Resolved(o) == ResizeEntry(o, o.d.size)

RegisterEntry(c, allocate_mem) ==
    LET waiting == c.name \in DOMAIN m_unresolved_data[c.type]
        id == m_unresolved_data[c.type][c.name]
        known == c.name \in DOMAIN m_data[c.type]
    IN  /\ Running
        /\ "multi_dim" \notin Waived /\ c.shape # <<>> /\ waiting => heap[id].d.size = 0
        /\ IF waiting /\ heap[id].pod = c.pod
           THEN LET o == [heap[id] EXCEPT !.d.exists = TRUE]
                IN  /\ heap' = [heap EXCEPT ![id] = Resolved(SetOffsets(o, c.shape))]
                    /\ m_unresolved_data' =
                           [m_unresolved_data EXCEPT ![c.type] = Restrict(@, DOMAIN @ \ {c.name})]
                    /\ m_data' = Inserted(m_data, c, id)
                    /\ handles' = handles \union {Handle(c, id)}
                    /\ UNCHANGED <<m_num_elements, phase>>
           ELSE IF waiting \/ known
           THEN Abort
           ELSE CreateEntry(c, allocate_mem, FALSE)

\* where retrieve_entry looks: the registered entries first
OnlyRegistered(c) ==                                   \* mutant
    IF c.name \in DOMAIN m_data[c.type] THEN {m_data[c.type][c.name]} ELSE {}
Found(c) ==
    IF c.name \in DOMAIN m_data[c.type] THEN {m_data[c.type][c.name]}
    ELSE IF c.name \in DOMAIN m_unresolved_data[c.type]
    THEN {m_unresolved_data[c.type][c.name]}
    ELSE {}

RetrieveEntry(c) ==
    /\ Running
    /\ IF Found(c) = {}
       THEN CreateEntry(c, FALSE, TRUE)
       ELSE \E id \in Found(c) :
               IF heap[id].pod # c.pod THEN Abort
               ELSE /\ handles' = handles \union {Handle(c, id)}
                    /\ UNCHANGED <<m_num_elements, m_data, m_unresolved_data, heap, phase>>

-----------------------------------------------------------------------------
(* Sizes and memory.                                                        *)

RegisteredOf(T) == {m_data[T][name] : name \in DOMAIN m_data[T]}
UnresolvedOf(T) == {m_unresolved_data[T][name] : name \in DOMAIN m_unresolved_data[T]}

MayResize(o, size) ==
    /\ "multi_dim" \notin Waived /\ o.d.exists => o.shape = <<>>
    /\ "shrink_to_empty" \notin Waived => size > 0 \/ o.d.buffer = 0
    /\ "resize_unresolved" \notin Waived => o.d.exists \/ ~o.d.instance

\* the entries silo::resize visits
SkipUnresolved(T) == RegisteredOf(T)                   \* mutant
Visited(T) == RegisteredOf(T) \union UnresolvedOf(T)

\* silo::resize<TYPE>
Resize(T, new_size) ==
    /\ Running /\ T \notin {"VECTOR", "PARAMETER"}
    /\ \A id \in Visited(T) : MayResize(heap[id], new_size)
    /\ heap' = [id \in DOMAIN heap |->
                   IF id \in Visited(T) THEN ResizeEntry(heap[id], new_size) ELSE heap[id]]
    /\ m_num_elements' = [m_num_elements EXCEPT ![T] = new_size]
    /\ UNCHANGED <<m_data, m_unresolved_data, handles, phase>>

\* one entry changes
Update(id, o) ==
    /\ heap' = [heap EXCEPT ![id] = o]
    /\ UNCHANGED <<m_num_elements, m_data, m_unresolved_data, handles, phase>>

\* dataSetStorage::resize of a VECTOR entry
ResizeVector(h, new_size) ==
    /\ Running /\ h.type = "VECTOR"
    /\ MayResize(heap[h.id], new_size)
    /\ Update(h.id, ResizeEntry(heap[h.id], new_size))

\* dataSetStorage::allocate_memory passes the size in bytes
AllocateMemory(h) ==
    LET o == heap[h.id]
    IN  /\ Running
        /\ ~o.d.mapped
        /\ "allocate_bytes" \notin Waived => o.pod = "UINT8" /\ o.shape = <<>>
        /\ IF o.d.exists
           THEN MayResize(o, o.bytes) /\ Update(h.id, ResizeEntry(o, o.bytes))
           ELSE Abort

\* dataSetStorage::deallocate_memory leaves the size and the statuses
DeallocateMemory(h) ==
    LET o == heap[h.id]
    IN  /\ Running
        /\ IF ~o.d.exists
           THEN Abort
           ELSE /\ o.d.mapped
                /\ Update(h.id, [o EXCEPT !.d.mapped = FALSE, !.alloc = 0])

-----------------------------------------------------------------------------
(* The device.                                                              *)

\* allocate_gpu_data_ptr with set_offsets, when the instance gets its buffer
OffsetsForgotten(o) == o                               \* mutant
SetDeviceOffsets(o) == [o EXCEPT !.devOffsets = o.offsets]

SetupEntry(o) ==
    LET s == [o EXCEPT !.d = Setup(@)]
    IN  IF s.d.gpu # o.d.gpu
        THEN SetDeviceOffsets([s EXCEPT !.devBytes = o.bytes])
        ELSE s

\* a transfer that leaves RESIZED_ON_CPU has made a new buffer, for the
\* offsets of the old one
Transferred(o, d) ==
    [o EXCEPT !.d = d,
              !.devBytes = IF o.d.gpu = "RESIZED_ON_CPU" /\ d.gpu # "RESIZED_ON_CPU"
                           THEN o.bytes ELSE @]

MayMove(o) ==
    /\ "memory_first" \notin Waived /\ o.d.exists /\ o.d.size > 0 => o.d.mapped
    /\ "early_offsets" \notin Waived => o.d.exists \/ o.shape = <<>>

\* a COPY is made from a device with this status
MayCopy(mode, owner) ==
    mode = "COPY" /\ "copy" \notin Waived => owner \in UpToDate \union {"NOT_ALLOCATED"}

\* a copy from or to a null m_data: CHECK_CUDA ends the program
Fail ==
    /\ phase' = "failed"
    /\ UNCHANGED <<m_num_elements, m_data, m_unresolved_data, heap, handles>>

\* the setup of a kernel argument alone
SetupArgument(h) ==
    /\ Running /\ MayMove(heap[h.id])
    /\ Update(h.id, SetupEntry(heap[h.id]))

MoveToGpu(h, mode) ==
    LET o == SetupEntry(heap[h.id])
    IN  /\ Running /\ MayMove(heap[h.id]) /\ MayCopy(mode, o.d.cpu)
        /\ IF ToGpuFails(o.d, mode) THEN Fail
           ELSE Update(h.id, Transferred(o, TransferToGpu(o.d, mode)))

MoveToCpu(h, mode) ==
    LET o == heap[h.id]
    IN  /\ Running /\ MayMove(o)
        /\ o.d.instance => MayCopy(mode, o.d.gpu)
        /\ IF ToCpuFails(o.d, mode) THEN Fail
           ELSE Update(h.id, Transferred(o, TransferToCpu(o.d, mode)))

-----------------------------------------------------------------------------
(* The end.                                                                 *)

\* destruct_gpu_instance: an entry that never had a buffer has none to free,
\* and the buffer of an empty one is assumed to be null
BufferLeft(d) == IF d.size = 0 THEN d.buffer ELSE 0

DestructGpuInstance(o) ==
    IF ~o.d.instance THEN o
    ELSE IF o.d.cpu = "NOT_ALLOCATED" THEN [o EXCEPT !.d.instance = FALSE]
    ELSE [o EXCEPT !.d.instance = FALSE, !.d.buffer = BufferLeft(o.d), !.devOffsets = <<>>]

\* dataSetBase::~dataSetBase
Deleted(o) ==
    [DestructGpuInstance(o) EXCEPT !.d.mapped = FALSE, !.d.size = 0, !.alloc = 0,
                                   !.bytes = 0, !.offsets = <<>>, !.shape = <<>>]

\* silo::clear_entries, for both tables of every type
OnlyResolvedCleared == UNION {RegisteredOf(T) : T \in StorageTypes}  \* mutant
Cleared == UNION {RegisteredOf(T) \union UnresolvedOf(T) : T \in StorageTypes}

ClearEntries ==
    /\ Running
    /\ heap' = [id \in DOMAIN heap |-> IF id \in Cleared THEN Deleted(heap[id]) ELSE heap[id]]
    /\ m_data' = <<>>
    /\ m_unresolved_data' = <<>>
    /\ phase' = "cleared"
    /\ UNCHANGED <<m_num_elements, handles>>

Ended == ~Running /\ UNCHANGED vars

Next ==
    \/ \E c \in Declarations :
           \/ \E allocate_mem \in BOOLEAN : RegisterEntry(c, allocate_mem)
           \/ RetrieveEntry(c)
    \/ \E T \in {c.type : c \in Declarations}, n \in 0..MaxSize : Resize(T, n)
    \/ \E h \in handles :
           \/ \E n \in 0..MaxSize : ResizeVector(h, n)
           \/ AllocateMemory(h) \/ DeallocateMemory(h)
           \/ SetupArgument(h)
           \/ \E mode \in Modes : MoveToGpu(h, mode) \/ MoveToCpu(h, mode)
    \/ ClearEntries
    \/ Ended

Spec == Init /\ [][Next]_vars

-----------------------------------------------------------------------------
(* Properties.                                                              *)

Registered == UNION {RegisteredOf(T) : T \in StorageTypes}

\* All references to a name of a type, whether they were retrieved before the
\* entry was registered or after, denote one object, and that object is in the
\* table that says whether the entry exists.
OneEntryPerName ==
    Running =>
        \A h \in handles :
            LET T == h.type
                resolved == h.name \in DOMAIN m_data[T]
            IN  /\ resolved # (h.name \in DOMAIN m_unresolved_data[T])
                /\ h.id = IF resolved THEN m_data[T][h.name] ELSE m_unresolved_data[T][h.name]
                /\ heap[h.id].d.exists = resolved

\* A registered entry has the size of its type, its indices denote different
\* values, and all of them lie in the memory it has and in the bytes that a
\* transfer copies, whatever came first: registering, retrieving or resizing.
EntriesFit ==
    Running =>
        \A id \in Registered :
            LET o == heap[id]
                all == Indices(o.shape, o.d.size)
                places == {Place(o.offsets, index) : index \in all}
            IN  /\ o.type # "VECTOR" => o.d.size = NumEntries(o.type)
                /\ Cardinality(places) = Cardinality(all)
                /\ \A p \in places :
                       /\ (p + 1) * ElementBytes(o.pod) <= o.bytes
                       /\ o.d.mapped => (p + 1) * ElementBytes(o.pod) <= o.alloc

\* A device copy that kernels may use has the size, the bytes and the strides
\* of the entry, so that an index means the same on both devices.
DeviceFollowsHost ==
    Running =>
        \A id \in Registered :
            LET o == heap[id]
            IN  o.d.instance /\ o.d.gpu # "RESIZED_ON_CPU" =>
                    /\ o.d.buffer = o.d.size
                    /\ o.devBytes = o.bytes
                    /\ o.devOffsets = o.offsets

\* No transfer copies from or to an entry that has no host memory.
CopiesHaveMemory == phase # "failed"

\* clear_entries gives everything back: host memory, device buffers and
\* offsets, of registered and of unresolved entries.
NothingLeft ==
    phase = "cleared" =>
        \A id \in DOMAIN heap :
            LET o == heap[id]
            IN  /\ ~o.d.mapped /\ ~o.d.instance
                /\ o.d.buffer = 0 /\ ~o.d.lost /\ o.devOffsets = <<>>

\* The byte sizes of two registered entries of the same type, values and shape
\* agree, as memcpy_gpu_var between them demands.
ByteSizesAgree ==
    Running =>
        \A id, jd \in Registered :
            LET a == heap[id]
                b == heap[jd]
            IN  a.type = b.type /\ a.pod = b.pod /\ a.shape = b.shape /\ a.d.size = b.d.size
                    => a.bytes = b.bytes
=============================================================================
