------------------------------ MODULE PageFault ------------------------------
(***************************************************************************)
(* The page fault mechanism of the CPU framework.  The values of a data    *)
(* set live in whole pages from mmap; dsb_addr_set lists where each data   *)
(* set starts.  The framework protects the pages of data sets the GPU has; *)
(* an access to them raises SIGSEGV, and pagefault_handler looks the       *)
(* address up to find the data set to bring back.  Addresses are numbers   *)
(* of bytes; address 0 is the null pointer and page 0 is never mapped.     *)
(***************************************************************************)
EXTENDS Naturals, FiniteSets

CONSTANTS
    Names,     \* data sets
    PageSize,  \* system_page_size
    NumPages,  \* bound on the address space
    MaxBytes   \* bound on m_byte_size

ASSUME PageSizeAssumption == PageSize \in Nat \ {0}
ASSUME BoundsAssumption == NumPages \in Nat \ {0} /\ MaxBytes \in Nat

Pages == 0..(NumPages - 1)
Addresses == 0..(NumPages * PageSize - 1)

\* an element of dsb_addr_set: (m_data, this), with this->byte_size()
Entry == [name : Names, start : Nat, bytes : Nat]

\* allocate_page_aligned_memory rounds up to whole pages
AllocatedPages(bytes) ==
    (bytes \div PageSize) + (IF bytes % PageSize > 0 THEN 1 ELSE 0)

PagesOf(e) == (e.start \div PageSize) .. (e.start \div PageSize + AllocatedPages(e.bytes) - 1)

-----------------------------------------------------------------------------
(* The lookup of pagefault_handler.                                        *)

\* The element before upper_bound(fault_addr, max pointer); when upper_bound
\* is end() the code takes the last element, which is the same one.
BelowStrictly(S, addr) == {e \in S : e.start < addr}  \* mutant
Below(S, addr) == {e \in S : e.start <= addr}

Candidate(S, addr) ==
    CHOOSE e \in Below(S, addr) : \A f \in Below(S, addr) : f.start <= e.start

\* the code compares with <=, one byte past the values
InRange(e, addr) == addr <= e.start + e.bytes

\* --begin(), or --end() of an empty set
DecrementsBegin(S, addr) == addr # 0 /\ Below(S, addr) = {}

HandlerTransfers(S, addr) ==
    /\ addr # 0
    /\ Below(S, addr) # {}
    /\ InRange(Candidate(S, addr), addr)

-----------------------------------------------------------------------------
NoAccess == [addr |-> 0, store |-> FALSE, pending |-> FALSE]

VARIABLES
    addrSet,  \* dsb_addr_set
    prot,     \* prot[p]: "unmapped", or what mprotect allows on page p
    access,   \* the load or store the host thread is executing
    inConst,  \* in_const_operator
    copying,  \* the new pages of a data set that is being resized
    outcome   \* "running", or "aborted" after an unresolved SIGSEGV

vars == <<addrSet, prot, access, inConst, copying, outcome>>

Init ==
    /\ addrSet = {}
    /\ prot = [p \in Pages |-> "unmapped"]
    /\ access = NoAccess
    /\ inConst = FALSE
    /\ copying = {}
    /\ outcome = "running"

Idle == ~access.pending /\ copying = {} /\ outcome = "running"

Free(e) == PagesOf(e) \subseteq {p \in Pages \ {0} : prot[p] = "unmapped"}

\* mmap may return any free pages
FreshEntries(name, bytes) ==
    {e \in [name : {name}, start : {p * PageSize : p \in Pages}, bytes : {bytes}] : Free(e)}

Protect(e, p) == [q \in Pages |-> IF q \in PagesOf(e) THEN p ELSE prot[q]]

\* allocate_page_aligned_memory_internal
Allocate(name, bytes) ==
    /\ Idle
    /\ \A e \in addrSet : e.name # name
    /\ \E e \in FreshEntries(name, bytes) :
          /\ addrSet' = addrSet \union {e}
          /\ prot' = Protect(e, "rw")
    /\ UNCHANGED <<access, inConst, copying, outcome>>

\* deallocate_page_aligned_memory_internal
Deallocate(e) ==
    /\ Idle
    /\ prot' = Protect(e, "unmapped")
    /\ addrSet' = addrSet \ {e}
    /\ UNCHANGED <<access, inConst, copying, outcome>>

\* the last byte that copy_over_and_resize_page_aligned_memory copies
LastCopied(e, bytes) == e.start + (IF bytes <= e.bytes THEN bytes ELSE e.bytes) - 1

\* copy_over_and_resize_page_aligned_memory maps the new pages and reads the
\* old ones, up to the smaller of the two sizes, before it touches dsb_addr_set
BeginResize(e, bytes) ==
    /\ Idle
    /\ \E new \in FreshEntries(e.name, bytes) :
          /\ copying' = {new}
          /\ prot' = Protect(new, "rw")
    /\ \E addr \in {e.start, LastCopied(e, bytes)} :
          access' = [addr |-> addr, store |-> FALSE, pending |-> TRUE]
    /\ UNCHANGED <<addrSet, inConst, outcome>>

\* ... and swaps the pages once they are copied
OldEntryKept(e, new) == addrSet \union {new}          \* mutant
Replaced(e, new) == (addrSet \ {e}) \union {new}

EndResize(e, new) ==
    /\ ~access.pending /\ outcome = "running"
    /\ e.name = new.name
    /\ prot' = Protect(e, "unmapped")
    /\ addrSet' = Replaced(e, new)
    /\ copying' = {}
    /\ UNCHANGED <<access, inConst, outcome>>

\* protect_m_data after a transfer to the GPU
ProtectAfterTransfer(e, p) ==
    /\ Idle
    /\ prot' = Protect(e, p)
    /\ UNCHANGED <<addrSet, access, inConst, copying, outcome>>

\* the program touches an address, of a data set or not; an operator may have
\* set in_const_operator before
Touch(addr, store, const) ==
    /\ Idle
    /\ access' = [addr |-> addr, store |-> store, pending |-> TRUE]
    /\ inConst' = const
    /\ UNCHANGED <<addrSet, prot, copying, outcome>>

Allowed ==
    LET p == prot[access.addr \div PageSize]
    IN  p = "rw" \/ (p = "read" /\ ~access.store)

Complete ==
    /\ access.pending /\ outcome = "running" /\ Allowed
    /\ access' = NoAccess
    /\ UNCHANGED <<addrSet, prot, inConst, copying, outcome>>

FlagKept       == inConst                             \* mutant
FlagAfterFault == FALSE

\* dsb_entry->transfer_to_cpu(in_const_operator); a data set that is up to date
\* on the CPU keeps its access rights
TransferToCpu(e) ==
    /\ prot' = IF \E q \in PagesOf(e) : prot[q] = "rw" THEN prot
               ELSE Protect(e, IF inConst THEN "read" ELSE "rw")
    /\ inConst' = FlagAfterFault
    /\ UNCHANGED <<addrSet, access, copying, outcome>>

Unresolved ==
    /\ outcome' = "aborted"
    /\ access' = NoAccess
    /\ UNCHANGED <<addrSet, prot, inConst, copying>>

\* pagefault_handler.  Decrementing begin() is undefined: the program may end
\* or go on with any element.
Handle ==
    /\ access.pending /\ outcome = "running" /\ ~Allowed
    /\ IF HandlerTransfers(addrSet, access.addr)
       THEN TransferToCpu(Candidate(addrSet, access.addr))
       ELSE \/ Unresolved
            \/ /\ DecrementsBegin(addrSet, access.addr)
               /\ \E e \in addrSet : TransferToCpu(e)

Stopped == outcome = "aborted" /\ UNCHANGED vars

Next ==
    \/ \E name \in Names, bytes \in 1..MaxBytes : Allocate(name, bytes)
    \/ \E e \in addrSet : Deallocate(e)
    \/ \E e \in addrSet, bytes \in 1..MaxBytes : BeginResize(e, bytes)
    \/ \E e \in addrSet, new \in copying : EndResize(e, new)
    \/ \E e \in addrSet, p \in {"none", "read"} : ProtectAfterTransfer(e, p)
    \/ \E addr \in Addresses, store, const \in BOOLEAN : Touch(addr, store, const)
    \/ Complete
    \/ Handle
    \/ Stopped

Spec == Init /\ [][Next]_vars

\* the thread executes its pending access, and finishes a resize it began
FairSpec ==
    /\ Spec
    /\ WF_vars(Complete \/ Handle)
    /\ WF_vars(\E e \in addrSet, new \in copying : EndResize(e, new))

-----------------------------------------------------------------------------
(* Properties.                                                             *)

TypeOK ==
    /\ addrSet \subseteq Entry
    /\ prot \in [Pages -> {"unmapped", "none", "read", "rw"}]
    /\ access \in [addr : Addresses, store : BOOLEAN, pending : BOOLEAN]
    /\ inConst \in BOOLEAN
    /\ copying \subseteq Entry /\ \A e, f \in copying : e = f
    /\ outcome \in {"running", "aborted"}

Holds(e, addr) == e.start <= addr /\ addr < e.start + e.bytes

\* dsb_addr_set lists every mapped data set once and no freed one: the pages of
\* its elements, and of a resize under way, are mapped and disjoint, and
\* nothing else is.
AddrSetMatchesPages ==
    LET live == addrSet \union copying
    IN  /\ \A e, f \in live : e # f => PagesOf(e) \intersect PagesOf(f) = {}
        /\ \A e, f \in addrSet : e # f => e.name # f.name
        /\ {p \in Pages : prot[p] # "unmapped"} = UNION {PagesOf(e) : e \in live}

\* A fault inside a data set is resolved to that data set, also when another one
\* starts or ends at the next byte and in the middle of a resize.
LookupFindsOwner ==
    \A e \in addrSet, addr \in Addresses :
        Holds(e, addr) => HandlerTransfers(addrSet, addr) /\ Candidate(addrSet, addr) = e

\* An access inside a data set goes through, and ends neither the program nor in
\* an endless series of faults.
InBoundsAccessCompletes ==
    \A addr \in Addresses :
        (access.pending /\ access.addr = addr /\ \E e \in addrSet : Holds(e, addr))
            ~> (~access.pending /\ outcome = "running")

\* "If the fault_addr is in the holes/gap between the two entries ..., it is a non
\* GPU segfault": a wild access to unmapped memory is reported.
WildAccessIsReported ==
    \A addr \in Addresses :
        (access.pending /\ access.addr = addr /\ prot[addr \div PageSize] = "unmapped")
            ~> outcome = "aborted"
=============================================================================
