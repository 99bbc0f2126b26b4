---------------------------- MODULE PageFaultProofs ----------------------------
(* Proofs about PageFault: the pages that dsb_addr_set lists are those that  *)
(* are mapped, and a fault inside a data set is resolved to it, for any      *)
(* address space, any size of a page and any number of data sets.            *)
EXTENDS PageFault, Integers, WellFoundedInduction, TLAPS

(***************************************************************************)
(* The arithmetic of pages.                                                *)
(***************************************************************************)
LEMMA DivMod ==
    ASSUME NEW a \in Nat
    PROVE  /\ a \div PageSize \in Nat
           /\ a % PageSize \in 0 .. PageSize - 1
           /\ a = PageSize * (a \div PageSize) + (a % PageSize)
BY PageSizeAssumption, Z3

LEMMA PageOfStart ==
    ASSUME NEW k \in Nat
    PROVE  /\ k * PageSize \in Nat
           /\ (k * PageSize) \div PageSize = k
BY PageSizeAssumption, Z3

LEMMA Monotone ==
    ASSUME NEW a \in Int, NEW b \in Int, a < b
    PROVE  PageSize * a + PageSize <= PageSize * b
<1>1. PageSize * (b - a) >= PageSize
  BY PageSizeAssumption, Z3
<1>2. PageSize * (b - a) = PageSize * b - PageSize * a
  BY PageSizeAssumption, Z3
<1>3. QED
  BY <1>1, <1>2, PageSizeAssumption, Z3

-----------------------------------------------------------------------------
(***************************************************************************)
(* Where an element of dsb_addr_set lies.                                  *)
(***************************************************************************)
Placed(e) ==
    /\ e \in Entry /\ e.bytes # 0
    /\ e.start = PageSize * (e.start \div PageSize)
    /\ PagesOf(e) \subseteq Pages \ {0}

LEMMA AllocatedEnough ==
    ASSUME NEW bytes \in Nat
    PROVE  AllocatedPages(bytes) \in Nat /\ bytes <= PageSize * AllocatedPages(bytes)
<1> DEFINE q == bytes \div PageSize
           r == bytes % PageSize
<1>1. q \in Nat /\ r \in 0 .. PageSize - 1 /\ bytes = PageSize * q + r
  BY DivMod
<1>2. PageSize * (q + 1) = PageSize * q + PageSize
  BY <1>1, PageSizeAssumption, Z3
<1> HIDE DEF q, r
<1>3. CASE r = 0
  <2>1. AllocatedPages(bytes) = q
    BY <1>1, <1>3, PageSizeAssumption DEF AllocatedPages, q, r
  <2>2. QED
    BY <1>1, <1>3, <2>1, PageSizeAssumption
<1>4. CASE r # 0
  <2>1. AllocatedPages(bytes) = q + 1
    BY <1>1, <1>4, PageSizeAssumption DEF AllocatedPages, q, r
  <2>2. bytes <= PageSize * q + PageSize
    BY <1>1, <1>4, PageSizeAssumption
  <2>3. QED
    BY <1>1, <1>2, <2>1, <2>2
<1>5. QED
  BY <1>3, <1>4

\* The page of an address inside a data set is one of its pages.
LEMMA PageOfByte ==
    ASSUME NEW e, Placed(e), NEW addr \in Nat, Holds(e, addr)
    PROVE  addr \div PageSize \in PagesOf(e)
<1> DEFINE k == e.start \div PageSize
           m == AllocatedPages(e.bytes)
           q == addr \div PageSize
           r == addr % PageSize
<1>1. e.start \in Nat /\ e.bytes \in Nat /\ e.start = PageSize * k
  BY DEF Placed, Entry
<1>2. k \in Nat
  BY <1>1, DivMod
<1>3. m \in Nat /\ e.bytes <= PageSize * m
  BY <1>1, AllocatedEnough
<1>4. q \in Nat /\ r \in 0 .. PageSize - 1 /\ addr = PageSize * q + r
  BY DivMod
<1>5. PageSize * (k + m) = PageSize * k + PageSize * m
  BY <1>2, <1>3, PageSizeAssumption, Z3
<1>6. e.start <= addr /\ addr < e.start + e.bytes
  BY DEF Holds
<1>6a. PagesOf(e) = k .. k + m - 1
  BY DEF PagesOf
<1>6b. /\ PageSize * q \in Int /\ PageSize * k \in Int /\ PageSize * m \in Int
       /\ PageSize * (k + m) \in Int
  BY <1>2, <1>3, <1>4, PageSizeAssumption
<1> HIDE DEF k, m, q, r
<1>7. k <= q
  <2>1. SUFFICES ASSUME q < k PROVE FALSE
    BY <1>2, <1>4
  <2>2. PageSize * q + PageSize <= PageSize * k
    BY <1>2, <1>4, <2>1, Monotone
  <2>3. QED
    BY <1>1, <1>4, <1>6, <1>6b, <2>2, PageSizeAssumption
<1>8. q < k + m
  <2>1. SUFFICES ASSUME k + m <= q PROVE FALSE
    BY <1>2, <1>3, <1>4
  <2>2. PageSize * (k + m) <= PageSize * q
    <3>1. CASE k + m = q
      BY <3>1, <1>6b
    <3>2. CASE k + m < q
      BY <3>2, <1>2, <1>3, <1>4, <1>6b, Monotone, PageSizeAssumption
    <3>3. QED
      BY <2>1, <3>1, <3>2, <1>2, <1>3, <1>4
  <2>3. QED
    BY <1>1, <1>3, <1>4, <1>5, <1>6, <1>6b, <2>2, PageSizeAssumption
<1>9. q \in k .. k + m - 1
  BY <1>2, <1>3, <1>4, <1>7, <1>8
<1>10. QED
  BY <1>6a, <1>9 DEF q

LEMMA PageOfAddress ==
    ASSUME NEW addr \in Nat
    PROVE  addr \in Addresses <=> addr \div PageSize \in Pages
<1> DEFINE q == addr \div PageSize
           r == addr % PageSize
<1>1. q \in Nat /\ r \in 0 .. PageSize - 1 /\ addr = PageSize * q + r
  BY DivMod
<1>2. /\ PageSize * q \in Int /\ PageSize * NumPages \in Int
      /\ NumPages * PageSize = PageSize * NumPages
  BY <1>1, PageSizeAssumption, BoundsAssumption, Z3
<1> HIDE DEF q, r
<1>3. ASSUME q < NumPages PROVE addr < PageSize * NumPages
  <2>1. PageSize * q + PageSize <= PageSize * NumPages
    BY <1>1, <1>3, Monotone, BoundsAssumption
  <2>2. QED
    BY <1>1, <1>2, <2>1, PageSizeAssumption
<1>4. ASSUME ~ q < NumPages PROVE ~ addr < PageSize * NumPages
  <2>1. PageSize * NumPages <= PageSize * q
    <3>1. CASE NumPages = q
      BY <3>1, <1>2
    <3>2. CASE NumPages < q
      BY <3>2, <1>1, <1>2, Monotone, PageSizeAssumption, BoundsAssumption
    <3>3. QED
      BY <1>1, <1>4, <3>1, <3>2, BoundsAssumption
  <2>2. QED
    BY <1>1, <1>2, <2>1, PageSizeAssumption
<1>5. QED
  BY <1>1, <1>2, <1>3, <1>4, PageSizeAssumption, BoundsAssumption DEF Addresses, Pages, q

LEMMA HeldAddress ==
    ASSUME NEW e, Placed(e), NEW addr \in Nat, Holds(e, addr)
    PROVE  addr \in Addresses /\ addr # 0
<1>1. addr \div PageSize \in Pages \ {0}
  BY PageOfByte DEF Placed
<1>2. 0 \div PageSize = 0
  BY PageSizeAssumption, Z3
<1>3. QED
  BY <1>1, <1>2, PageOfAddress

-----------------------------------------------------------------------------
(***************************************************************************)
(* The lookup.                                                             *)
(***************************************************************************)
LEMMA LeastElement ==
    ASSUME NEW D, D \subseteq Nat, D # {}
    PROVE  \E d \in D : \A c \in D : d <= c
<1>1. PICK d \in D : \A c \in D : ~(<<c, d>> \in OpToRel(<, Nat))
  BY WFMin, NatLessThanWellFounded
<1>2. ASSUME NEW c \in D, c < d PROVE FALSE
  <2>1. <<c, d>> \in Nat \X Nat /\ <<c, d>>[1] < <<c, d>>[2]
    BY <1>2
  <2>2. <<c, d>> \in OpToRel(<, Nat)
    BY <2>1 DEF OpToRel
  <2>3. QED
    BY <1>1, <2>2
<1>3. QED
  BY <1>2

LEMMA CandidateIsBelow ==
    ASSUME NEW S, S \subseteq Entry, NEW addr \in Nat, Below(S, addr) # {}
    PROVE  Candidate(S, addr) \in Below(S, addr)
<1> DEFINE B == Below(S, addr)
           D == {addr - e.start : e \in B}
<1>1. \A e \in B : e.start \in Nat /\ e.start <= addr
  BY DEF Below, Entry
<1>2. D \subseteq Nat /\ D # {}
  BY <1>1
<1> HIDE DEF B, D
<1>3. PICK d \in D : \A c \in D : d <= c
  BY <1>2, LeastElement
<1> USE DEF B, D
<1>4. \A c \in D : d <= c
  BY <1>3
<1>5. PICK e \in B : d = addr - e.start
  OBVIOUS
<1>6. ASSUME NEW f \in B PROVE f.start <= e.start
  <2>1. d <= addr - f.start
    BY <1>4
  <2>2. QED
    BY <1>1, <1>5, <2>1
<1>7. QED
  BY <1>6 DEF Candidate

Disjoint(L) == \A e, f \in L : e # f => PagesOf(e) \intersect PagesOf(f) = {}

\* The element found is the data set that holds the address: another one whose
\* start lay between would have its first page inside it.
LEMMA LookupIsExact ==
    ASSUME NEW S, \A e \in S : Placed(e), Disjoint(S),
           NEW e \in S, NEW addr \in Nat, Holds(e, addr)
    PROVE  HandlerTransfers(S, addr) /\ Candidate(S, addr) = e
<1>1. \A f \in S : f.start \in Nat /\ f.bytes \in Nat /\ f.bytes > 0
  BY DEF Placed, Entry
<1>2. e \in Below(S, addr)
  BY DEF Below, Holds
<1>3. ASSUME NEW f \in Below(S, addr), e.start <= f.start PROVE f = e
  <2>1. f \in S /\ f.start <= addr
    BY DEF Below
  <2>2. Holds(e, f.start) /\ Holds(f, f.start)
    BY <1>1, <1>3, <2>1 DEF Holds
  <2>3. /\ f.start \div PageSize \in PagesOf(e)
        /\ f.start \div PageSize \in PagesOf(f)
    BY <1>1, <2>1, <2>2, PageOfByte
  <2>4. QED
    BY <2>1, <2>3 DEF Disjoint
<1>4. \A f \in Below(S, addr) : f.start <= e.start
  BY <1>1, <1>3 DEF Below
<1>5. \A g \in Below(S, addr) :
         (\A f \in Below(S, addr) : f.start <= g.start) => g = e
  BY <1>2, <1>3
<1>6. Candidate(S, addr) = e
  BY <1>2, <1>4, <1>5 DEF Candidate
<1>7. addr # 0
  BY HeldAddress
<1>8. addr <= e.start + e.bytes
  BY <1>1 DEF Holds
<1>9. QED
  BY <1>2, <1>6, <1>7, <1>8 DEF HandlerTransfers, InRange

-----------------------------------------------------------------------------
(***************************************************************************)
(* The invariant.  A resize under way adds one element to come, with pages *)
(* of its own.                                                             *)
(***************************************************************************)
live == addrSet \union copying

Mapped == \A p \in Pages : prot[p] # "unmapped" <=> \E e \in live : p \in PagesOf(e)

Inv ==
    /\ TypeOK
    /\ \A e \in live : Placed(e)
    /\ Disjoint(live)
    /\ addrSet \intersect copying = {}
    /\ \A e, f \in addrSet : e # f => e.name # f.name
    /\ Mapped

\* A placed element has at least the page it starts in.
LEMMA FirstPage ==
    ASSUME NEW e, Placed(e)
    PROVE  \E p \in Pages : p \in PagesOf(e)
<1>1. e.start \in Nat /\ Holds(e, e.start)
  BY DEF Placed, Entry, Holds
<1>2. QED
  BY <1>1, PageOfByte DEF Placed

\* mmap places an element in pages nobody has.
LEMMA FreshPlaced ==
    ASSUME Inv, NEW name \in Names, NEW bytes \in 1..MaxBytes,
           NEW new \in FreshEntries(name, bytes)
    PROVE  /\ Placed(new) /\ new.name = name
           /\ \A e \in live : PagesOf(e) \intersect PagesOf(new) = {}
           /\ new \notin live
<1>1. PICK k \in Pages : new.start = k * PageSize
  BY DEF FreshEntries
<1>2. k \in Nat /\ new.start \in Nat /\ new.start \div PageSize = k
  BY <1>1, PageOfStart, BoundsAssumption DEF Pages
<1>3. k * PageSize = PageSize * k
  BY <1>2, PageSizeAssumption, Z3
<1>4. new.bytes \in Nat /\ new.bytes # 0 /\ new.name = name /\ new \in Entry
  BY <1>2, BoundsAssumption DEF FreshEntries, Entry
<1>5. PagesOf(new) \subseteq {p \in Pages \ {0} : prot[p] = "unmapped"}
  BY DEF FreshEntries, Free
<1>6. Placed(new)
  BY <1>1, <1>2, <1>3, <1>4, <1>5 DEF Placed
<1>7. \A e \in live : PagesOf(e) \intersect PagesOf(new) = {}
  BY <1>5 DEF Inv, Mapped
<1>8. new \notin live
  BY <1>6, <1>7, FirstPage
<1>9. QED
  BY <1>4, <1>6, <1>7, <1>8

\* The handler's choice is an element of dsb_addr_set.
LEMMA HandledIsListed ==
    ASSUME Inv, HandlerTransfers(addrSet, access.addr)
    PROVE  Candidate(addrSet, access.addr) \in addrSet
<1>1. access.addr \in Nat /\ addrSet \subseteq Entry
  BY PageSizeAssumption, BoundsAssumption DEF Inv, TypeOK, Addresses
<1>2. QED
  BY <1>1, CandidateIsBelow DEF HandlerTransfers, Below

\* Changing the rights of a listed element to other than unmapped maps nothing
\* and unmaps nothing.
LEMMA ProtectKeepsMapped ==
    ASSUME Inv, NEW e \in live, NEW p \in {"none", "read", "rw"},
           prot' = Protect(e, p), UNCHANGED <<addrSet, copying>>
    PROVE  Mapped' /\ prot' \in [Pages -> {"unmapped", "none", "read", "rw"}]
<1>1. \A q \in Pages : prot'[q] = IF q \in PagesOf(e) THEN p ELSE prot[q]
  BY DEF Protect
<1>2. prot' \in [Pages -> {"unmapped", "none", "read", "rw"}]
  BY DEF Protect, Inv, TypeOK
<1>3. QED
  BY <1>1, <1>2 DEF Inv, Mapped, live

LEMMA NoAccessType == NoAccess \in [addr : Addresses, store : BOOLEAN, pending : BOOLEAN]
<1>1. 0 \div PageSize = 0
  BY PageSizeAssumption, Z3
<1>2. 0 \in Addresses
  BY <1>1, PageOfAddress, BoundsAssumption DEF Pages
<1>3. QED
  BY <1>2 DEF NoAccess

LEMMA InvInit == Init => Inv
BY NoAccessType DEF Init, Inv, TypeOK, live, Disjoint, Mapped

LEMMA TransferToCpuKeepsInv ==
    ASSUME Inv, NEW e \in addrSet, TransferToCpu(e)
    PROVE  Inv'
<1>1. Mapped' /\ prot' \in [Pages -> {"unmapped", "none", "read", "rw"}]
  <2>1. CASE prot' = prot
    BY <2>1 DEF Inv, TypeOK, Mapped, live, TransferToCpu
  <2>2. CASE prot' = Protect(e, IF inConst THEN "read" ELSE "rw")
    BY <2>2, ProtectKeepsMapped DEF TransferToCpu, live
  <2>3. QED
    BY <2>1, <2>2 DEF TransferToCpu
<1>2. QED
  BY <1>1 DEF Inv, TypeOK, live, Disjoint, TransferToCpu, FlagAfterFault

LEMMA InvNext == Inv /\ [Next]_vars => Inv'
<1> SUFFICES ASSUME Inv, [Next]_vars PROVE Inv'
  OBVIOUS
<1>1. ASSUME NEW name \in Names, NEW bytes \in 1..MaxBytes, Allocate(name, bytes)
      PROVE  Inv'
  <2>1. PICK new \in FreshEntries(name, bytes) :
            addrSet' = addrSet \union {new} /\ prot' = Protect(new, "rw")
    BY <1>1 DEF Allocate
  <2>2. /\ Placed(new) /\ new.name = name
        /\ \A e \in live : PagesOf(e) \intersect PagesOf(new) = {}
        /\ new \notin live
    BY FreshPlaced
  <2>3. live' = live \union {new} /\ copying' = copying
    BY <1>1, <2>1 DEF live, Allocate
  <2>4. /\ Mapped'
        /\ prot' \in [Pages -> {"unmapped", "none", "read", "rw"}]
    BY <2>1, <2>2, <2>3 DEF Inv, TypeOK, Mapped, Protect
  <2>5. TypeOK'
    BY <1>1, <2>1, <2>2, <2>4 DEF Inv, TypeOK, Allocate, Placed
  <2>6. (\A e \in live : Placed(e))' /\ Disjoint(live')
    BY <2>2, <2>3 DEF Inv, Disjoint
  <2>7. addrSet' \intersect copying' = {}
    BY <2>1, <2>2, <2>3 DEF Inv, live
  <2>8. (\A e, f \in addrSet : e # f => e.name # f.name)'
    BY <1>1, <2>1, <2>2 DEF Inv, Allocate
  <2>9. QED
    BY <2>4, <2>5, <2>6, <2>7, <2>8 DEF Inv
<1>2. ASSUME NEW e \in addrSet, Deallocate(e) PROVE Inv'
  <2>1. live' = live \ {e} /\ copying' = copying
    BY <1>2 DEF Deallocate, live, Inv
  <2>2. Mapped' /\ prot' \in [Pages -> {"unmapped", "none", "read", "rw"}]
    BY <1>2, <2>1 DEF Deallocate, Protect, Inv, TypeOK, Mapped, Disjoint, live
  <2>3. QED
    BY <1>2, <2>1, <2>2 DEF Deallocate, Inv, TypeOK, Disjoint
<1>3. ASSUME NEW e \in addrSet, NEW bytes \in 1..MaxBytes, BeginResize(e, bytes)
      PROVE  Inv'
  <2>1. PICK new \in FreshEntries(e.name, bytes) :
            copying' = {new} /\ prot' = Protect(new, "rw")
    BY <1>3 DEF BeginResize
  <2>2. e \in live /\ Placed(e) /\ e.name \in Names
    BY DEF Inv, live, Placed, Entry
  <2>3. /\ Placed(new)
        /\ \A f \in live : PagesOf(f) \intersect PagesOf(new) = {}
        /\ new \notin live
    BY <2>2, FreshPlaced
  <2>4. copying = {} /\ addrSet' = addrSet /\ live' = live \union {new}
    BY <1>3, <2>1 DEF BeginResize, Idle, live
  <2>5. Mapped' /\ prot' \in [Pages -> {"unmapped", "none", "read", "rw"}]
    BY <2>1, <2>3, <2>4 DEF Inv, TypeOK, Mapped, Protect
  <2>6. access' \in [addr : Addresses, store : BOOLEAN, pending : BOOLEAN]
    <3>1. PICK addr \in {e.start, LastCopied(e, bytes)} :
              access' = [addr |-> addr, store |-> FALSE, pending |-> TRUE]
      BY <1>3 DEF BeginResize
    <3>2. addr \in Nat /\ Holds(e, addr)
      BY <2>2, BoundsAssumption DEF LastCopied, Holds, Placed, Entry
    <3>3. addr \in Addresses
      BY <2>2, <3>2, HeldAddress
    <3>4. QED
      BY <3>1, <3>3
  <2>7. TypeOK'
    BY <1>3, <2>1, <2>3, <2>5, <2>6 DEF Inv, TypeOK, BeginResize, Placed
  <2>8. (\A f \in live : Placed(f))' /\ Disjoint(live')
    BY <2>3, <2>4 DEF Inv, Disjoint
  <2>9. addrSet' \intersect copying' = {}
    BY <2>1, <2>3, <2>4 DEF live
  <2>10. QED
    BY <2>4, <2>5, <2>7, <2>8, <2>9 DEF Inv
<1>4. ASSUME NEW e \in addrSet, NEW new \in copying, EndResize(e, new) PROVE Inv'
  <2>1. copying = {new} /\ new # e /\ e \in live /\ new \in live
    BY DEF Inv, TypeOK, live
  <2>2. /\ addrSet' = (addrSet \ {e}) \union {new} /\ copying' = {}
        /\ live' = live \ {e}
    BY <1>4, <2>1 DEF EndResize, Replaced, live, Inv
  <2>3. Mapped' /\ prot' \in [Pages -> {"unmapped", "none", "read", "rw"}]
    BY <1>4, <2>1, <2>2 DEF EndResize, Protect, Inv, TypeOK, Mapped, Disjoint
  <2>4. TypeOK'
    BY <1>4, <2>2, <2>3 DEF EndResize, Inv, TypeOK
  <2>5. (\A f, g \in addrSet : f # g => f.name # g.name)'
    BY <1>4, <2>2 DEF EndResize, Inv
  <2>6. (\A f \in live : Placed(f))' /\ Disjoint(live')
    BY <2>2 DEF Inv, Disjoint
  <2>7. QED
    BY <2>2, <2>3, <2>4, <2>5, <2>6 DEF Inv
<1>5. ASSUME NEW e \in addrSet, NEW p \in {"none", "read"}, ProtectAfterTransfer(e, p)
      PROVE  Inv'
  <2>1. Mapped' /\ prot' \in [Pages -> {"unmapped", "none", "read", "rw"}]
    BY <1>5, ProtectKeepsMapped DEF ProtectAfterTransfer, live
  <2>2. QED
    BY <1>5, <2>1 DEF ProtectAfterTransfer, Inv, TypeOK, live, Disjoint
<1>6. ASSUME NEW addr \in Addresses, NEW store \in BOOLEAN, NEW const \in BOOLEAN,
             Touch(addr, store, const)
      PROVE  Inv'
  BY <1>6 DEF Touch, Inv, TypeOK, live, Disjoint, Mapped
<1>7. CASE Complete
  BY <1>7, NoAccessType DEF Complete, Inv, TypeOK, live, Disjoint, Mapped
<1>8. CASE Handle
  <2>1. CASE HandlerTransfers(addrSet, access.addr)
    BY <1>8, <2>1, HandledIsListed, TransferToCpuKeepsInv DEF Handle
  <2>2. CASE Unresolved
    BY <2>2, NoAccessType DEF Unresolved, Inv, TypeOK, live, Disjoint, Mapped
  <2>3. CASE \E e \in addrSet : TransferToCpu(e)
    BY <2>3, TransferToCpuKeepsInv
  <2>4. QED
    BY <1>8, <2>1, <2>2, <2>3 DEF Handle
<1>9. CASE UNCHANGED vars
  BY <1>9 DEF vars, Inv, TypeOK, live, Disjoint, Mapped
<1>10. QED
  BY <1>1, <1>2, <1>3, <1>4, <1>5, <1>6, <1>7, <1>8, <1>9 DEF Next, Stopped

LEMMA Invariant == Spec => []Inv
<1>1. Init => Inv
  BY InvInit
<1>2. Inv /\ [Next]_vars => Inv'
  BY InvNext
<1>3. QED
  BY <1>1, <1>2, PTL DEF Spec

LEMMA InvIsMapped == Inv => AddrSetMatchesPages
<1> SUFFICES ASSUME Inv PROVE AddrSetMatchesPages
  OBVIOUS
<1>1. \A e \in live : PagesOf(e) \subseteq Pages
  BY DEF Inv, Placed
<1>2. {p \in Pages : prot[p] # "unmapped"} = UNION {PagesOf(e) : e \in live}
  BY <1>1 DEF Inv, Mapped
<1>3. QED
  BY <1>2 DEF Inv, AddrSetMatchesPages, Disjoint, live

LEMMA InvFindsOwner == Inv => LookupFindsOwner
<1> SUFFICES ASSUME Inv, NEW e \in addrSet, NEW addr \in Addresses, Holds(e, addr)
             PROVE  HandlerTransfers(addrSet, addr) /\ Candidate(addrSet, addr) = e
  BY DEF LookupFindsOwner
<1>1. addr \in Nat
  BY PageSizeAssumption, BoundsAssumption DEF Addresses
<1>2. (\A f \in addrSet : Placed(f)) /\ Disjoint(addrSet)
  BY DEF Inv, live, Disjoint
<1>3. QED
  BY <1>1, <1>2, LookupIsExact

\* The pages that dsb_addr_set lists, and those of a resize under way, are mapped,
\* disjoint, and all that is mapped, however data sets are allocated, freed,
\* resized and faulted on.
THEOREM AddrSetAlwaysMatchesPages == Spec => []AddrSetMatchesPages
BY Invariant, InvIsMapped, PTL

\* upper_bound and the decrement find the data set that holds the address, for
\* any number of data sets of any size in any layout.
THEOREM LookupAlwaysFindsOwner == Spec => []LookupFindsOwner
BY Invariant, InvFindsOwner, PTL
=============================================================================
