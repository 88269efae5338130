------------------------------ MODULE PagePool ------------------------------
(***************************************************************************)
(* The pages that kernel memory comes from (src/lazybsd_memory.cc, with    *)
(* lazybsd_mmap and lazybsd_munmap of src/lazybsd_host.c and kmem_malloc   *)
(* and kmem_free of bsd/lib/lazybsd_patch.c): one locked array, the stack  *)
(* of its free pages, and the table of their physical addresses from which *)
(* the transmit path takes the address it hands to the NIC.                *)
(*                                                                         *)
(* Addresses are numbers.  The array starts at PageStart; a mapping of     *)
(* another size than a page comes from the host and lies elsewhere.        *)
(***************************************************************************)
EXTENDS Integers, Sequences, FiniteSets

CONSTANTS
    PageStart,    \* lazybsd_page_start
    PageSize,     \* PAGE_SIZE
    NbPages,      \* the pages of the array
    Phy,          \* lazybsd_mpage_phy: where the host put each page
    NoPage,       \* NULL
    MaxMapped     \* bound: mappings of the host

VARIABLES
    stack,    \* lazybsd_mpage_ctl: ele[0 .. top - 1]
    owned,    \* the pages handed out
    mapped    \* mappings the host has made

poolVars == <<stack, owned, mapped>>

PageAddr(i) == PageStart + i * PageSize

PageEnd == PageAddr(NbPages)

Pages == {PageAddr(i) : i \in 0 .. NbPages - 1}

ASSUME PoolAssumption ==
    /\ PageStart \in Nat /\ PageSize \in Nat /\ NbPages \in Nat /\ MaxMapped \in Nat
    /\ PageSize > 1 /\ NbPages > 0 /\ PageStart % PageSize = 0
    /\ NoPage \notin Pages
    /\ Phy \in [0 .. NbPages - 1 -> Nat]
    /\ \A i, j \in 0 .. NbPages - 1 : Phy[i] % PageSize = 0 /\ (Phy[i] = Phy[j] => i = j)

-----------------------------------------------------------------------------
(* lazybsd_mmap_init pushes every page and looks its physical address up.  *)
lazybsd_mmap_init == stack = [k \in 1 .. NbPages |-> PageAddr(k - 1)]

stklist_pop(st) ==
    IF Len(st) > 0
    THEN [page |-> st[Len(st)], rest |-> SubSeq(st, 1, Len(st) - 1)]
    ELSE [page |-> NoPage, rest |-> st]

stklist_push_Low(st, page) == IF Len(st) < NbPages - 1 THEN Append(st, page) ELSE st

(* A push onto a full stack fails, and its caller does not look. *)
stklist_push(st, page) == IF Len(st) < NbPages THEN Append(st, page) ELSE st

(* A page comes from the stack, whatever the protection asked for; NULL    *)
(* when there is none.                                                     *)
lazybsd_mmap(whole) ==
    IF whole
    THEN LET p == stklist_pop(stack)
         IN  /\ stack' = p.rest
             /\ owned' = IF p.page = NoPage THEN owned ELSE owned \cup {p.page}
             /\ UNCHANGED mapped
    ELSE mapped' = mapped + 1 /\ UNCHANGED <<stack, owned>>

kmem_malloc(whole) == lazybsd_mmap(whole) /\ mapped' <= MaxMapped

(* A page goes back by its length; the caller gives the length it asked for. *)
kmem_free ==
    \/ \E p \in owned : stack' = stklist_push(stack, p) /\ owned' = owned \ {p} /\ UNCHANGED mapped
    \/ mapped > 0 /\ mapped' = mapped - 1 /\ UNCHANGED <<stack, owned>>

-----------------------------------------------------------------------------
(* Addresses of data, from the NIC's point of view.                        *)

lazybsd_chk_vma(addr) == addr > PageStart /\ addr < PageEnd

lazybsd_mem_virt2phy_Start(addr) == Phy[0] + (addr - PageStart)

lazybsd_mem_virt2phy(addr) == Phy[(addr - PageStart) \div PageSize] + (addr % PageSize)

-----------------------------------------------------------------------------
PoolInit == lazybsd_mmap_init /\ owned = {} /\ mapped = 0

PoolNext == (\E whole \in BOOLEAN : kmem_malloc(whole)) \/ kmem_free

PoolSpec == PoolInit /\ [][PoolNext]_poolVars

(* Every page of the array is on the stack once or with one owner, in any  *)
(* order of allocations and releases: none is handed out twice and none is *)
(* lost to a push that fails.                                              *)
PagesConserved ==
    /\ {stack[k] : k \in 1 .. Len(stack)} \cap owned = {}
    /\ {stack[k] : k \in 1 .. Len(stack)} \cup owned = Pages
    /\ Len(stack) + Cardinality(owned) = NbPages

(* The data of an owned page is sent from the page it lies in and from no  *)
(* other, across the gaps between the physical pages, and an address that  *)
(* is taken for one of the array always has a page, so that the look-up    *)
(* does not panic (lazybsd_chk_vma, lazybsd_mem_virt2phy).                 *)
DataWherePageIs ==
    /\ \A p \in owned : \A addr \in p .. p + PageSize - 1 :
          /\ \A q \in owned \ {p} : lazybsd_mem_virt2phy(addr) \notin
                 lazybsd_mem_virt2phy(q) .. lazybsd_mem_virt2phy(q) + PageSize - 1
          /\ lazybsd_mem_virt2phy(addr) - (addr - p) = Phy[(p - PageStart) \div PageSize]
    /\ \A addr \in 0 .. PageEnd + PageSize :
          lazybsd_chk_vma(addr) => (addr - PageStart) \div PageSize \in 0 .. NbPages - 1

(* "1: vma in fstack page table;  0: vma not in fstack pages, in DPDK      *)
(* pool" (lazybsd_memory.cc:261): data in a page that was handed out is    *)
(* taken for data of the array wherever in the page it starts.             *)
DataIsOfArray ==
    \A p \in owned : \A addr \in p .. p + PageSize - 1 : lazybsd_chk_vma(addr)
=============================================================================
