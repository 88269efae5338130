-------------------------- MODULE DeviceProofs ----------------------------
(***************************************************************************)
(* The devices: the page pool, the ports and the capture of packets.       *)
(*                                                                         *)
(* The page pool hands out every page of its array at most once at a time, *)
(* for every number and size of pages, and the physical address computed   *)
(* for data in a page is in that page.  The ports of any list, with any    *)
(* bonds and limits, are set up with what their devices take, and the      *)
(* check for a connection agrees with the device that delivers it.  The    *)
(* files of a capture can be read.                                         *)
(***************************************************************************)
EXTENDS PagePool, PortInit, Pcap, DataLemmas

OnStack(st) == {st[k] : k \in 1 .. Len(st)}

(* What PagesConserved needs to be inductive: a page is on the stack once, *)
(* so that popping it takes it off.                                        *)
PoolInvariant ==
    /\ stack \in Seq(Pages)
    /\ owned \subseteq Pages
    /\ mapped \in Nat
    /\ \A j, k \in 1 .. Len(stack) : stack[j] = stack[k] => j = k
    /\ IsFiniteSet(owned)
    /\ PagesConserved

-----------------------------------------------------------------------------
(* Two pages of the array have different addresses. *)
LEMMA PagesApart ==
    ASSUME NEW i \in Nat, NEW j \in Nat, PageAddr(i) = PageAddr(j)
    PROVE  i = j
<1>1. PageStart \in Nat /\ PageSize \in Nat /\ PageSize > 1
    BY PoolAssumption
<1>2. i * PageSize = j * PageSize /\ i * PageSize \in Nat /\ j * PageSize \in Nat
    BY <1>1, SMT DEF PageAddr
<1>3. \A a, b \in Nat : a < b => a * PageSize < b * PageSize
    BY <1>1, SMT
<1> QED BY <1>1, <1>2, <1>3, SMT

(* Popping takes the top page off the stack, and only that page. *)
LEMMA PopTakesTop ==
    ASSUME NEW st \in Seq(Pages), Len(st) > 0,
           \A j, k \in 1 .. Len(st) : st[j] = st[k] => j = k
    PROVE  LET p == stklist_pop(st)
           IN  /\ p.page \in Pages /\ p.page # NoPage
               /\ p.rest \in Seq(Pages)
               /\ Len(p.rest) = Len(st) - 1
               /\ OnStack(p.rest) = OnStack(st) \ {p.page}
               /\ p.page \in OnStack(st)
               /\ \A j, k \in 1 .. Len(p.rest) : p.rest[j] = p.rest[k] => j = k
<1> DEFINE rest == SubSeq(st, 1, Len(st) - 1)
           page == st[Len(st)]
<1>1. stklist_pop(st).page = page /\ stklist_pop(st).rest = rest
    BY DEF stklist_pop
<1>2. Len(st) \in Nat /\ page \in Pages /\ page # NoPage
    BY PoolAssumption
<1>3. Len(st) - 1 \in Int /\ \A k \in 1 .. Len(st) - 1 : st[k] \in Pages
    BY <1>2
<1>4. /\ rest \in Seq(Pages)
      /\ Len(rest) = IF 1 <= Len(st) - 1 THEN Len(st) - 1 - 1 + 1 ELSE 0
      /\ \A k \in 1 .. Len(st) - 1 - 1 + 1 : rest[k] = st[1 + k - 1]
    BY <1>3, SubSeqProperties
<1> HIDE DEF rest
<1>5. rest \in Seq(Pages) /\ Len(rest) = Len(st) - 1
  <2>1. \A n \in Nat : n > 0 => (IF 1 <= n - 1 THEN n - 1 - 1 + 1 ELSE 0) = n - 1
      OBVIOUS
  <2>2. (IF 1 <= Len(st) - 1 THEN Len(st) - 1 - 1 + 1 ELSE 0) = Len(st) - 1
      BY <1>2, <2>1
  <2>3. Len(rest) = Len(st) - 1
      BY <1>4, <2>2
  <2>4. rest \in Seq(Pages)
      BY <1>4
  <2> QED BY <2>3, <2>4
<1>6. \A k \in 1 .. Len(rest) : rest[k] = st[k]
    BY <1>2, <1>5, <1>4
<1>7. OnStack(rest) = OnStack(st) \ {page}
    BY <1>2, <1>5, <1>6 DEF OnStack
<1>8. page \in OnStack(st)
    BY <1>2 DEF OnStack
<1>9. \A j, k \in 1 .. Len(rest) : rest[j] = rest[k] => j = k
    BY <1>2, <1>5, <1>6
<1> QED BY <1>1, <1>2, <1>5, <1>7, <1>8, <1>9

(* Pushing a page that is not on a stack with room puts it there once. *)
LEMMA PushAdds ==
    ASSUME NEW st \in Seq(Pages), NEW page \in Pages, page \notin OnStack(st), Len(st) < NbPages,
           \A j, k \in 1 .. Len(st) : st[j] = st[k] => j = k
    PROVE  LET new == stklist_push(st, page)
           IN  /\ new \in Seq(Pages)
               /\ Len(new) = Len(st) + 1
               /\ OnStack(new) = OnStack(st) \cup {page}
               /\ \A j, k \in 1 .. Len(new) : new[j] = new[k] => j = k
<1> DEFINE new == Append(st, page)
<1>1. stklist_push(st, page) = new
    BY DEF stklist_push
<1>2. new \in Seq(Pages) /\ Len(new) = Len(st) + 1 /\ Len(st) \in Nat
    OBVIOUS
<1>3. new[Len(st) + 1] = page /\ \A k \in 1 .. Len(st) : new[k] = st[k] /\ st[k] # page
    BY DEF OnStack
<1>4. OnStack(new) = OnStack(st) \cup {page}
    BY <1>2, <1>3 DEF OnStack
<1>5. \A j, k \in 1 .. Len(new) : new[j] = new[k] => j = k
    BY <1>2, <1>3
<1> QED BY <1>1, <1>2, <1>4, <1>5

(* The address of a page is a number. *)
LEMMA PageAddrNat ==
    ASSUME NEW i \in 0 .. NbPages - 1
    PROVE  PageAddr(i) \in Nat
<1>1. PageStart \in Nat /\ PageSize \in Nat /\ i \in Nat
    BY PoolAssumption
<1>2. i * PageSize \in Nat
    BY <1>1, SMT
<1> QED BY <1>1, <1>2 DEF PageAddr

(* A page is a whole number of pages into the array. *)
LEMMA DivOfPage ==
    ASSUME NEW i \in Nat, NEW r \in 0 .. PageSize - 1
    PROVE  /\ (i * PageSize + r) \div PageSize = i
           /\ (i * PageSize + r) % PageSize = r
<1>1. PageSize \in Nat /\ PageSize > 0
    BY PoolAssumption
<1> QED BY <1>1, SMT

(* Where lazybsd_mem_virt2phy puts a byte of a page. *)
LEMMA PageData ==
    ASSUME NEW i \in 0 .. NbPages - 1, NEW r \in 0 .. PageSize - 1
    PROVE  /\ PageAddr(i) + r \in Nat
           /\ lazybsd_mem_virt2phy(PageAddr(i) + r) = Phy[i] + r
           /\ (PageAddr(i) - PageStart) \div PageSize = i
<1> DEFINE addr == PageAddr(i) + r
<1>1. /\ PageStart \in Nat /\ PageSize \in Nat /\ PageSize > 1 /\ NbPages \in Nat
      /\ PageStart % PageSize = 0 /\ i \in Nat /\ r \in Nat
    BY PoolAssumption
<1>2. i * PageSize \in Nat /\ addr = PageStart + (i * PageSize + r) /\ addr \in Nat
    BY <1>1 DEF PageAddr
<1>3. addr - PageStart = i * PageSize + r
    BY <1>1, <1>2
<1>4. (addr - PageStart) \div PageSize = i
    BY <1>1, <1>3, DivOfPage
<1>5. addr % PageSize = r
  <2>1. PICK k \in Nat : PageStart = k * PageSize
    <3>1. PageStart \div PageSize \in Nat /\ PageStart = (PageStart \div PageSize) * PageSize
        BY <1>1, SMT
    <3> QED BY <3>1
  <2>2. addr = (k + i) * PageSize + r
      BY <1>1, <1>2, <2>1, SMT
  <2>3. k + i \in Nat
      BY <1>1
  <2> QED BY <2>2, <2>3, DivOfPage
<1>6. lazybsd_mem_virt2phy(addr) = Phy[i] + r
    BY <1>4, <1>5 DEF lazybsd_mem_virt2phy
<1>7. (PageAddr(i) - PageStart) \div PageSize = i
  <2>1. 0 \in 0 .. PageSize - 1
      BY <1>1
  <2>2. (i * PageSize + 0) \div PageSize = i
      BY <1>1, <2>1, DivOfPage
  <2>3. PageAddr(i) - PageStart = i * PageSize + 0
      BY <1>1, <1>2 DEF PageAddr
  <2> QED BY <2>2, <2>3
<1> QED BY <1>2, <1>6, <1>7

(* An address that lazybsd_chk_vma takes for one of the array has a page.  *)
LEMMA VmaHasPage ==
    ASSUME NEW addr \in Nat, lazybsd_chk_vma(addr)
    PROVE  (addr - PageStart) \div PageSize \in 0 .. NbPages - 1
<1>1. PageStart \in Nat /\ PageSize \in Nat /\ PageSize > 1 /\ NbPages \in Nat
    BY PoolAssumption
<1>2. PICK w \in Nat : w = NbPages * PageSize
    BY <1>1, SMT
<1>3. PICK n \in Nat : n = addr - PageStart /\ n < w
    BY <1>1, <1>2 DEF lazybsd_chk_vma, PageEnd, PageAddr
<1>4. PICK q \in Nat, r \in 0 .. PageSize - 1 : n = q * PageSize + r
  <2>1. n \div PageSize \in Nat /\ n % PageSize \in 0 .. PageSize - 1
        /\ n = (n \div PageSize) * PageSize + (n % PageSize)
      BY <1>1, <1>3, SMT
  <2> QED BY <2>1
<1>5. q < NbPages
  <2>1. CASE NbPages <= q
    <3>1. NbPages * PageSize <= q * PageSize
        BY <1>1, <2>1, SMT
    <3>2. q * PageSize \in Nat /\ r \in Nat
        BY <1>1, SMT
    <3> QED BY <1>2, <1>3, <1>4, <3>1, <3>2
  <2> QED BY <1>1, <2>1
<1>6. n \div PageSize = q
    BY <1>4, DivOfPage
<1> QED BY <1>1, <1>3, <1>5, <1>6

(* Physical pages do not overlap. *)
LEMMA FramesApart ==
    ASSUME NEW i \in 0 .. NbPages - 1, NEW j \in 0 .. NbPages - 1, i # j,
           NEW r \in 0 .. PageSize - 1
    PROVE  Phy[i] + r \notin Phy[j] .. Phy[j] + PageSize - 1
<1>1. /\ PageSize \in Nat /\ PageSize > 1 /\ Phy[i] \in Nat /\ Phy[j] \in Nat /\ Phy[i] # Phy[j]
      /\ Phy[i] % PageSize = 0 /\ Phy[j] % PageSize = 0
    BY PoolAssumption
<1>2. PICK a \in Nat : Phy[i] = a * PageSize
  <2>1. Phy[i] \div PageSize \in Nat /\ Phy[i] = (Phy[i] \div PageSize) * PageSize
      BY <1>1, SMT
  <2> QED BY <2>1
<1>3. PICK b \in Nat : Phy[j] = b * PageSize
  <2>1. Phy[j] \div PageSize \in Nat /\ Phy[j] = (Phy[j] \div PageSize) * PageSize
      BY <1>1, SMT
  <2> QED BY <2>1
<1> SUFFICES ASSUME Phy[i] + r \in Phy[j] .. Phy[j] + PageSize - 1 PROVE FALSE
    OBVIOUS
<1>4. PICK q \in 0 .. PageSize - 1 : a * PageSize + r = b * PageSize + q
  <2>1. Phy[i] + r - Phy[j] \in 0 .. PageSize - 1 /\ Phy[i] + r = Phy[j] + (Phy[i] + r - Phy[j])
      BY <1>1
  <2> QED BY <2>1, <1>2, <1>3
<1>5. a = b
    BY <1>4, DivOfPage
<1> QED BY <1>1, <1>2, <1>3, <1>5

-----------------------------------------------------------------------------
(* lazybsd_mmap_init leaves every page on the stack once. *)
LEMMA PoolInitial == PoolInit => PoolInvariant
<1> SUFFICES ASSUME PoolInit PROVE PoolInvariant
    OBVIOUS
<1>1. NbPages \in Nat /\ stack = [k \in 1 .. NbPages |-> PageAddr(k - 1)] /\ owned = {} /\ mapped = 0
    BY PoolAssumption DEF PoolInit, lazybsd_mmap_init
<1>2. \A k \in 1 .. NbPages : PageAddr(k - 1) \in Pages
    BY <1>1 DEF Pages
<1>3. stack \in Seq(Pages) /\ Len(stack) = NbPages
    BY <1>1, <1>2
<1>4. \A j, k \in 1 .. NbPages : stack[j] = stack[k] => j = k
  <2> SUFFICES ASSUME NEW j \in 1 .. NbPages, NEW k \in 1 .. NbPages, stack[j] = stack[k]
               PROVE  j = k
      OBVIOUS
  <2>1. j - 1 \in Nat /\ k - 1 \in Nat /\ PageAddr(j - 1) = PageAddr(k - 1)
      BY <1>1
  <2>2. j - 1 = k - 1
      BY <2>1, PagesApart
  <2> QED BY <2>2, <1>1
<1>5. OnStack(stack) = Pages
  <2>1. ASSUME NEW p \in Pages PROVE p \in OnStack(stack)
    <3>1. PICK i \in 0 .. NbPages - 1 : p = PageAddr(i)
        BY DEF Pages
    <3>2. i + 1 \in 1 .. NbPages /\ stack[i + 1] = PageAddr(i)
        BY <1>1
    <3> QED BY <3>1, <3>2, <1>3 DEF OnStack
  <2>2. OnStack(stack) \subseteq Pages
      BY <1>3 DEF OnStack
  <2> QED BY <2>1, <2>2
<1>6. Cardinality(owned) = 0 /\ IsFiniteSet(owned)
    BY <1>1, FS_EmptySet
<1>7. PagesConserved
    BY <1>1, <1>3, <1>5, <1>6 DEF PagesConserved, OnStack
<1> QED BY <1>1, <1>3, <1>4, <1>6, <1>7 DEF PoolInvariant

(* Taking a page, or a mapping of the host, keeps the pool consistent. *)
LEMMA MallocKeepsPool ==
    ASSUME PoolInvariant, NEW whole \in BOOLEAN, kmem_malloc(whole)
    PROVE  PoolInvariant'
<1> USE DEF PoolInvariant
<1>1. CASE ~whole \/ Len(stack) = 0
  <2>1. UNCHANGED <<stack, owned>> /\ mapped' \in Nat
      BY SMTT(30), <1>1, PoolAssumption DEF kmem_malloc, lazybsd_mmap, stklist_pop
  <2> QED BY <2>1 DEF PagesConserved
<1>2. CASE whole /\ Len(stack) # 0
  <2> DEFINE p == stklist_pop(stack)
  <2>1. Len(stack) \in Nat /\ Len(stack) > 0
      BY <1>2
  <2>2. /\ p.page \in Pages /\ p.page # NoPage
        /\ p.rest \in Seq(Pages)
        /\ Len(p.rest) = Len(stack) - 1
        /\ OnStack(p.rest) = OnStack(stack) \ {p.page}
        /\ p.page \in OnStack(stack)
        /\ \A j, k \in 1 .. Len(p.rest) : p.rest[j] = p.rest[k] => j = k
      BY <2>1, PopTakesTop
  <2> HIDE DEF p
  <2>3. stack' = p.rest /\ owned' = owned \cup {p.page} /\ mapped' = mapped
      BY <1>2, <2>2 DEF kmem_malloc, lazybsd_mmap, p
  <2>4. OnStack(stack) \cap owned = {} /\ OnStack(stack) \cup owned = Pages
      BY DEF PagesConserved, OnStack
  <2>5. IsFiniteSet(owned') /\ Cardinality(owned') = Cardinality(owned) + 1
      BY <2>2, <2>3, <2>4, FS_AddElement
  <2>6. Cardinality(owned) \in Nat
      BY FS_CardinalityType
  <2>7. OnStack(stack') \cap owned' = {} /\ OnStack(stack') \cup owned' = Pages
      BY <2>2, <2>3, <2>4
  <2>8. Len(stack') + Cardinality(owned') = NbPages
    <3>1. Len(stack) + Cardinality(owned) = NbPages
        BY DEF PagesConserved
    <3>2. Len(stack') = Len(stack) - 1
        BY <2>2, <2>3
    <3> QED BY <3>1, <3>2, <2>1, <2>5, <2>6
  <2>9. PagesConserved'
      BY <2>7, <2>8 DEF PagesConserved, OnStack
  <2> QED BY <2>2, <2>3, <2>5, <2>9
<1> QED BY <1>1, <1>2

(* Giving a page back, or a mapping of the host, keeps the pool            *)
(* consistent: the stack has room for every page that is out.              *)
LEMMA FreeKeepsPool ==
    ASSUME PoolInvariant, kmem_free
    PROVE  PoolInvariant'
<1> USE DEF PoolInvariant
<1>1. CASE mapped > 0 /\ mapped' = mapped - 1 /\ UNCHANGED <<stack, owned>>
    BY <1>1 DEF PagesConserved
<1>2. CASE \E p \in owned : stack' = stklist_push(stack, p) /\ owned' = owned \ {p} /\ UNCHANGED mapped
  <2>1. PICK p \in owned : stack' = stklist_push(stack, p) /\ owned' = owned \ {p} /\ UNCHANGED mapped
      BY <1>2
  <2>2. OnStack(stack) \cap owned = {} /\ OnStack(stack) \cup owned = Pages
      BY DEF PagesConserved, OnStack
  <2>3. IsFiniteSet(owned') /\ Cardinality(owned') = Cardinality(owned) - 1
      BY <2>1, FS_RemoveElement
  <2>4. Cardinality(owned) \in Nat /\ Cardinality(owned') \in Nat /\ Len(stack) \in Nat
      BY <2>3, FS_CardinalityType
  <2>5. p \in Pages /\ p \notin OnStack(stack) /\ Len(stack) < NbPages
      BY <2>2, <2>3, <2>4, PoolAssumption DEF PagesConserved
  <2>6. /\ stack' \in Seq(Pages)
        /\ Len(stack') = Len(stack) + 1
        /\ OnStack(stack') = OnStack(stack) \cup {p}
        /\ \A j, k \in 1 .. Len(stack') : stack'[j] = stack'[k] => j = k
      BY <2>1, <2>5, PushAdds
  <2>7. OnStack(stack') \cap owned' = {} /\ OnStack(stack') \cup owned' = Pages
      BY <2>1, <2>2, <2>6
  <2>8. Len(stack') + Cardinality(owned') = NbPages
      BY <2>3, <2>4, <2>6 DEF PagesConserved
  <2>9. PagesConserved'
      BY <2>7, <2>8 DEF PagesConserved, OnStack
  <2> QED BY <2>1, <2>3, <2>6, <2>9
<1> QED BY <1>1, <1>2 DEF kmem_free

(* Every step of the pool keeps it consistent. *)
LEMMA PoolStep == PoolInvariant /\ [PoolNext]_poolVars => PoolInvariant'
<1> SUFFICES ASSUME PoolInvariant, [PoolNext]_poolVars PROVE PoolInvariant'
    OBVIOUS
<1>1. CASE \E whole \in BOOLEAN : kmem_malloc(whole)
    BY <1>1, MallocKeepsPool
<1>2. CASE kmem_free
    BY <1>2, FreeKeepsPool
<1>3. CASE UNCHANGED poolVars
    BY <1>3 DEF poolVars, PoolInvariant, PagesConserved
<1> QED BY <1>1, <1>2, <1>3 DEF PoolNext

(* Every page of the array is on the stack of free pages once or with one  *)
(* owner, whatever is allocated and released (lazybsd_mmap,                *)
(* lazybsd_munmap): no push fails, although nobody would notice.           *)
THEOREM PoolConserved == PoolSpec => []PagesConserved
<1>1. PoolInit => PoolInvariant
    BY PoolInitial
<1>2. PoolInvariant /\ [PoolNext]_poolVars => PoolInvariant'
    BY PoolStep
<1>3. PoolInvariant => PagesConserved
    BY DEF PoolInvariant
<1> QED BY <1>1, <1>2, <1>3, PTL DEF PoolSpec

(* Data in a page that was handed out is sent from the physical page it    *)
(* lies in and no other, and the look-up of an address that is taken for   *)
(* one of the array does not panic (lazybsd_chk_vma, lazybsd_mem_virt2phy),*)
(* for every size and number of pages and wherever the host has put them.  *)
THEOREM DataInItsPage == PoolSpec => []DataWherePageIs
<1>1. PoolInit => PoolInvariant
    BY PoolInitial
<1>2. PoolInvariant /\ [PoolNext]_poolVars => PoolInvariant'
    BY PoolStep
<1>3. PoolInvariant => DataWherePageIs
  <2> SUFFICES ASSUME PoolInvariant, NEW p \in owned, NEW addr \in p .. p + PageSize - 1
               PROVE  /\ \A q \in owned \ {p} : lazybsd_mem_virt2phy(addr) \notin
                             lazybsd_mem_virt2phy(q) .. lazybsd_mem_virt2phy(q) + PageSize - 1
                      /\ lazybsd_mem_virt2phy(addr) - (addr - p) = Phy[(p - PageStart) \div PageSize]
    <3>1. PageEnd + PageSize \in Int
        BY PoolAssumption, SMT DEF PageEnd, PageAddr
    <3>2. \A addr \in 0 .. PageEnd + PageSize :
             lazybsd_chk_vma(addr) => (addr - PageStart) \div PageSize \in 0 .. NbPages - 1
        BY <3>1, VmaHasPage
    <3> QED BY <3>2 DEF DataWherePageIs
  <2>1. PageSize \in Nat /\ PageSize > 1 /\ 0 \in 0 .. PageSize - 1
      BY PoolAssumption
  <2>2. PICK i \in 0 .. NbPages - 1 : p = PageAddr(i)
      BY DEF PoolInvariant, Pages
  <2>3. p \in Nat /\ p + 0 = p
      BY <2>2, PageAddrNat
  <2>4. PICK r \in 0 .. PageSize - 1 : addr = PageAddr(i) + r
    <3>1. addr - p \in 0 .. PageSize - 1 /\ addr = p + (addr - p)
        BY <2>1, <2>3
    <3> QED BY <3>1, <2>2
  <2>5. /\ lazybsd_mem_virt2phy(addr) = Phy[i] + r
        /\ (p - PageStart) \div PageSize = i
      BY <2>2, <2>4, PageData
  <2>6. ASSUME NEW q \in owned \ {p}
        PROVE  lazybsd_mem_virt2phy(addr) \notin
                   lazybsd_mem_virt2phy(q) .. lazybsd_mem_virt2phy(q) + PageSize - 1
    <3>1. PICK j \in 0 .. NbPages - 1 : q = PageAddr(j)
        BY DEF PoolInvariant, Pages
    <3>2. q + 0 = q
        BY <3>1, PageAddrNat
    <3>3. lazybsd_mem_virt2phy(PageAddr(j) + 0) = Phy[j] + 0
        BY <2>1, PageData
    <3>4. Phy[j] \in Nat
        BY PoolAssumption
    <3>5. lazybsd_mem_virt2phy(q) = Phy[j]
        BY <3>1, <3>2, <3>4, <3>3
    <3>6. i # j
        BY <2>2, <3>1
    <3> QED BY <2>5, <3>5, <3>6, FramesApart
  <2>7. lazybsd_mem_virt2phy(addr) - (addr - p) = Phy[(p - PageStart) \div PageSize]
    <3>1. Phy[i] \in Nat /\ r \in Nat
        BY PoolAssumption
    <3>2. addr - p = r
        BY <2>2, <2>3, <2>4
    <3>3. lazybsd_mem_virt2phy(addr) = Phy[i] + r
        BY <2>5
    <3>4. lazybsd_mem_virt2phy(addr) - (addr - p) = (Phy[i] + r) - r
        BY <3>2, <3>3, Zenon
    <3>5. (Phy[i] + r) - r = Phy[i]
        BY <3>1
    <3>6. (p - PageStart) \div PageSize = i
        BY <2>5
    <3> QED BY <3>4, <3>5, <3>6, Zenon
  <2> QED BY <2>6, <2>7
<1> QED BY <1>1, <1>2, <1>3, PTL DEF PoolSpec

-----------------------------------------------------------------------------
(* The devices and their descriptors.                                      *)

(* What the constants say, in the form the provers need. *)
LEMMA PortConstants ==
    /\ HashBits \in Nat \ {0} /\ GroupSize \in Nat \ {0} /\ QueueSize \in Nat \ {0}
    /\ MaxCheckTime \in Nat \ {0} /\ PoolAlign \in Nat \ {0}
    /\ MaxPktBurst \in Nat /\ CacheSize \in Nat /\ DispatchSize \in Nat
    /\ PortList \in Seq(Nat \cap Devices) /\ PortList # << >> /\ ProcLcore \in Seq(Nat)
BY PortAssumption

(* Rounding up to a multiple. *)
LEMMA RoundedUp ==
    ASSUME NEW n \in Nat, NEW a \in Nat, a > 0
    PROVE  /\ AlignCeil(n, a) \in Nat /\ AlignCeil(n, a) >= n
           /\ \A q \in Nat : n <= q /\ q % a = 0 => AlignCeil(n, a) <= q
<1>1. PICK x \in Int : x = n + a - 1
  OBVIOUS
<1>2. x \div a \in Int /\ x % a \in 0 .. a - 1 /\ x = a * (x \div a) + (x % a)
  BY DivMod
<1>3. PICK k \in Int, r \in 0 .. a - 1 : k = x \div a /\ r = x % a
  BY <1>2
<1>4. PICK p \in Int : p = k * a /\ p = a * k
  OBVIOUS
<1>5. x = p + r
  BY <1>2, <1>3, <1>4
<1>6. AlignCeil(n, a) = p /\ p >= n
  <2>1. AlignCeil(n, a) = k * a
    BY <1>1, <1>3 DEF AlignCeil
  <2>2. p >= n
    BY <1>1, <1>5
  <2>3. QED
    BY <1>4, <2>1, <2>2
<1>7. ASSUME NEW q \in Nat, n <= q, q % a = 0 PROVE p <= q
  <2>1. PICK m \in Int : q = a * m
    <3>1. q \div a \in Int /\ q = a * (q \div a) + (q % a)
      BY DivMod
    <3>2. PICK m \in Int : m = q \div a
      BY <3>1
    <3>3. PICK am \in Int : am = a * m
      OBVIOUS
    <3>4. QED
      BY <1>7, <3>1, <3>2, <3>3
  <2>2. CASE k <= m
    <3>1. PICK d \in Nat : m = k + d
      <4>1. m - k \in Nat /\ m = k + (m - k)
        BY <2>2
      <4>2. QED
        BY <4>1
    <3>2. a * m = a * k + a * d /\ a * d \in Nat
      BY <3>1
    <3>3. QED
      BY <1>4, <2>1, <3>2
  <2>3. CASE k >= m + 1
    <3>1. PICK d \in Nat : k = m + 1 + d
      <4>1. k - m - 1 \in Nat /\ k = m + 1 + (k - m - 1)
        BY <2>3
      <4>2. QED
        BY <4>1
    <3>2. a * k = a * m + a + a * d /\ a * d \in Nat
      BY <3>1
    <3>3. p >= q + a
      BY <1>4, <2>1, <3>2
    <3>4. QED
      BY <1>1, <1>5, <1>7, <3>3
  <2>4. QED
    BY <2>2, <2>3
<1>8. QED
  BY <1>6, <1>7

(* The adjusted number of descriptors is one the device takes, and no more *)
(* than QueueSize unless the device makes it so.                           *)
LEMMA AdjustedFits ==
    ASSUME NEW n \in Nat, NEW d \in Devices
    PROVE  /\ Adjusted(n, d) \in Nat
           /\ Adjusted(n, d) \in DescLim[d].min .. DescLim[d].max
           /\ n <= QueueSize /\ ~ OverQueueSize(d) => Adjusted(n, d) <= QueueSize
<1>1. /\ DescLim[d] \in [min : Nat, max : Nat, align : Nat \ {0}] /\ DescLim[d].min <= DescLim[d].max
  BY PortAssumption
<1>2. PICK lo \in Nat, hi \in Nat, al \in Nat : lo = DescLim[d].min /\ hi = DescLim[d].max /\ al = DescLim[d].align /\ al > 0
  BY <1>1
<1>3. PICK up \in Nat : up = AlignCeil(n, al)
  BY <1>2, RoundedUp
<1>4. n <= QueueSize /\ QueueSize % al = 0 => up <= QueueSize
  BY <1>2, <1>3, RoundedUp, PortConstants
<1>5. Adjusted(n, d) = IF (IF up > hi THEN hi ELSE up) < lo THEN lo ELSE (IF up > hi THEN hi ELSE up)
  BY <1>2, <1>3 DEF Adjusted
<1>6. OverQueueSize(d) <=> lo > QueueSize \/ QueueSize % al # 0
  BY <1>2 DEF OverQueueSize
<1>7. lo <= hi /\ QueueSize \in Nat
  BY <1>1, <1>2, PortConstants
<1>8. QED
  BY <1>2, <1>4, <1>5, <1>6, <1>7

(* A place in the order of the loops: a port of the list or a slave of it. *)
Placed == {x \in Devices \X ToSet(PortList) : x[1] = x[2] \/ x[1] \in ToSet(Slaves[x[2]])}

(* The devices that are set up for the port at place i of the list. *)
RowOf(i) ==
    [j \in 1 .. Len(Slaves[PortList[i]]) + 1 |->
        << IF j <= Len(Slaves[PortList[i]]) THEN Slaves[PortList[i]][j] ELSE PortList[i], PortList[i] >>]

(* The order has the slaves of a bond and the ports, each with its port. *)
LEMMA OrderPlaces ==
    /\ InitOrder \in Seq(Placed)
    /\ \A p \in ToSet(PortList) : \E k \in 1 .. Len(InitOrder) : InitOrder[k] = << p, p >>
<1>1. /\ Len(PortList) \in Nat
      /\ \A i \in 1 .. Len(PortList) : PortList[i] \in Devices /\ PortList[i] \in ToSet(PortList)
      /\ \A p \in ToSet(PortList) : \E i \in 1 .. Len(PortList) : PortList[i] = p
  BY PortConstants, FewElements
<1>2. PICK rows : rows = [i \in 1 .. Len(PortList) |-> RowOf(i)]
  OBVIOUS
<1>3. InitOrder = FlattenSeq(rows)
  BY <1>2, Zenon DEF InitOrder, RowOf
<1>4. ASSUME NEW i \in 1 .. Len(PortList)
      PROVE  /\ RowOf(i) \in Seq(Placed)
             /\ \E j \in 1 .. Len(RowOf(i)) : RowOf(i)[j] = << PortList[i], PortList[i] >>
  <2>1. PICK u \in ToSet(PortList) : u = PortList[i] /\ u \in Devices
    BY <1>1
  <2>2. PICK sl \in Seq(Devices \ ToSet(PortList)) : sl = Slaves[u]
    BY PortAssumption
  <2>3. Len(sl) \in Nat /\ \A j \in 1 .. Len(sl) : sl[j] \in Devices /\ sl[j] \in ToSet(sl)
    BY FewElements
  <2>4. PICK n \in Nat : n = Len(sl)
    BY <2>3
  <2>5. RowOf(i) = [j \in 1 .. n + 1 |-> << IF j <= n THEN sl[j] ELSE u, u >>]
    BY <2>1, <2>2, <2>4 DEF RowOf
  <2>6. ASSUME NEW j \in 1 .. n + 1 PROVE << IF j <= n THEN sl[j] ELSE u, u >> \in Placed
    <3>1. PICK d : d = IF j <= n THEN sl[j] ELSE u
      OBVIOUS
    <3>2. d \in Devices /\ (d = u \/ d \in ToSet(Slaves[u]))
      BY <2>1, <2>2, <2>3, <2>4, <3>1
    <3>3. QED
      BY <3>1, <3>2 DEF Placed
  <2>7. RowOf(i) \in Seq(Placed) /\ Len(RowOf(i)) = n + 1
    BY <2>5, <2>6
  <2>8. n + 1 \in 1 .. Len(RowOf(i)) /\ RowOf(i)[n + 1] = << u, u >>
    BY <2>5, <2>7
  <2>9. QED
    BY <2>1, <2>7, <2>8
<1>5. rows \in Seq(Seq(Placed)) /\ Len(rows) = Len(PortList)
  BY <1>1, <1>2, <1>4
<1>6. FlattenSeq(rows) \in Seq(Placed) /\ Gathers(FlattenSeq(rows), rows, Len(rows))
  BY <1>5, FlattenElements
<1>7. ASSUME NEW p \in ToSet(PortList) PROVE \E k \in 1 .. Len(InitOrder) : InitOrder[k] = << p, p >>
  <2>1. PICK i \in 1 .. Len(rows) : PortList[i] = p /\ rows[i] = RowOf(i)
    BY <1>1, <1>2, <1>5
  <2>2. PICK j \in 1 .. Len(rows[i]) : rows[i][j] = << p, p >>
    BY <1>4, <1>5, <2>1
  <2>3. PICK k \in 1 .. Len(FlattenSeq(rows)) : FlattenSeq(rows)[k] = rows[i][j]
    BY <1>6 DEF Gathers
  <2>4. QED
    BY <1>3, <2>2, <2>3
<1>8. QED
  BY <1>3, <1>6, <1>7

(* The mbufs that every pool has at least: one for each descriptor of each *)
(* queue of each port.                                                     *)
RingMbufs == (NbPorts * NbProcs) * QueueSize

(* What the pools are counted from. *)
LEMMA PoolNumbers ==
    /\ NbPorts \in Nat /\ NbPorts > 0 /\ NbProcs \in Nat /\ QueueSize \in Nat /\ RingMbufs \in Nat
    /\ \A l : RxQueues(l) \in Nat
    /\ Max(ToSet(PortList)) \in Nat
<1>1. NbPorts \in Nat /\ NbPorts > 0 /\ NbProcs \in Nat /\ QueueSize \in Nat
  <2>1. Len(PortList) \in Nat /\ Len(PortList) # 0 /\ Len(ProcLcore) \in Nat
    BY PortConstants, LenProperties, EmptySeq
  <2>2. QED
    BY <2>1, PortConstants DEF NbPorts, NbProcs
<1>2. RingMbufs \in Nat
  BY <1>1 DEF RingMbufs
<1>3. IsFiniteSet(ToSet(PortList)) /\ \A p : p \in ToSet(PortList) <=> \E i \in 1 .. Len(PortList) : PortList[i] = p
  BY PortConstants, FewElements
<1>4. ASSUME NEW l PROVE RxQueues(l) \in Nat
  <2>1. PICK Q \in SUBSET ToSet(PortList) : Q = {p \in ToSet(PortList) : l \in ToSet(LcoreList[p])}
    OBVIOUS
  <2>2. IsFiniteSet(Q)
    BY <1>3, FS_Subset
  <2>3. QED
    BY <2>1, <2>2, FS_CardinalityType DEF RxQueues
<1>5. ToSet(PortList) \in SUBSET Nat /\ ToSet(PortList) # {}
  <2>1. \A i \in 1 .. Len(PortList) : PortList[i] \in Nat
    BY PortConstants
  <2>2. 1 \in 1 .. Len(PortList)
    BY <1>1 DEF NbPorts
  <2>3. QED
    BY <1>3, <2>1, <2>2
<1>6. Max(ToSet(PortList)) \in ToSet(PortList)
  <2>1. PICK S \in SUBSET Int : S = ToSet(PortList)
    BY <1>5
  <2>2. IsFiniteSet(S) /\ S # {}
    BY <1>3, <1>5, <2>1
  <2>3. Max(S) \in S
    BY <2>2, HasLargest
  <2>4. QED
    BY <2>1, <2>3
<1>7. QED
  BY <1>1, <1>2, <1>4, <1>5, <1>6

(* The first pool. *)
LEMMA FirstSuffices ==
    ASSUME NEW l
    PROVE  FirstPool(l) \in Nat /\ FirstPool(l) >= RingMbufs
<1>1. PICK N \in Nat, P \in Nat, Q \in Nat, R \in Nat, m \in Nat, M \in Nat, C \in Nat, D \in Nat :
         /\ N = NbPorts /\ P = NbProcs /\ Q = QueueSize /\ R = RxQueues(l) /\ m = Max(ToSet(PortList))
         /\ M = MaxPktBurst /\ C = CacheSize /\ D = DispatchSize
  BY PoolNumbers, PortConstants
<1>2. PICK f \in Nat : f = (m + 1) * 2 /\ f >= 1
  OBVIOUS
<1>3. PICK t1 \in Nat, t2 \in Nat, t4 \in Nat, t5 \in Nat :
         t1 = R * P * f * Q /\ t2 = N * f * P * M /\ t4 = P * C /\ t5 = P * N * D
  OBVIOUS
<1>4. PICK t3 \in Nat : t3 = N * f * P * Q /\ t3 >= (N * P) * Q
  <2>1. PICK x \in Nat : x = N * f /\ N <= x
    <3>1. 1 * N <= f * N /\ f * N \in Nat /\ N * f = f * N /\ 1 * N = N
      BY <1>2, ProductGrows
    <3>2. QED
      BY <3>1
  <2>2. PICK y \in Nat, z \in Nat : y = x * P /\ z = N * P /\ z <= y
    BY <2>1, ProductGrows
  <2>3. y * Q \in Nat /\ z * Q <= y * Q
    BY <2>2, ProductGrows
  <2>4. QED
    BY <2>1, <2>2, <2>3
<1>5. PICK s \in Nat : s = t1 + t2 + t3 + t4 + t5 /\ s >= t3
  OBVIOUS
<1>6. PICK a \in Nat : a = 2 * PoolAlign /\ a > 0
  BY PortConstants
<1>7. FirstPool(l) = AlignCeil(s, a)
  BY <1>1, <1>2, <1>3, <1>4, <1>5, <1>6, Zenon DEF FirstPool
<1>8. AlignCeil(s, a) \in Nat /\ AlignCeil(s, a) >= s
  BY <1>6, RoundedUp
<1>9. RingMbufs = (N * P) * Q
  BY <1>1 DEF RingMbufs
<1>10. PICK rm \in Nat : rm = RingMbufs
  BY PoolNumbers
<1>11. t3 >= rm
  BY <1>4, <1>9, <1>10
<1>12. QED
  BY <1>5, <1>7, <1>8, <1>10, <1>11

(* The others. *)
LEMMA LaterSuffices ==
    LaterPool \in Nat /\ LaterPool >= RingMbufs
<1>1. PICK N \in Nat, P \in Nat, Q \in Nat, M \in Nat, C \in Nat :
         N = NbPorts /\ P = NbProcs /\ Q = QueueSize /\ M = MaxPktBurst /\ C = CacheSize
  BY PoolNumbers, PortConstants
<1>2. PICK t1 \in Nat, t2 \in Nat, t3 \in Nat : t1 = N * P * M /\ t2 = N * P * Q /\ t3 = P * C
  OBVIOUS
<1>3. PICK s \in Nat : s = t1 + t2 + t3 /\ s >= t2
  OBVIOUS
<1>4. PICK a \in Nat : a = PoolAlign /\ a > 0
  BY PortConstants
<1>5. LaterPool = AlignCeil(s, a)
  BY <1>1, <1>2, <1>3, <1>4, Zenon DEF LaterPool
<1>6. AlignCeil(s, a) \in Nat /\ AlignCeil(s, a) >= s
  BY <1>4, RoundedUp
<1>7. RingMbufs = t2
  BY <1>1, <1>2 DEF RingMbufs
<1>8. QED
  BY <1>3, <1>5, <1>6, <1>7

(* The queues that are polled on a socket need no more than that. *)
LEMMA QueuesNeed ==
    ASSUME NEW queues \in SUBSET (ToSet(PortList) \X ToSet(ProcLcore)), NEW f \in [queues -> Nat],
           \A x \in queues : f[x] <= QueueSize
    PROVE  SumFunction(f) \in Int /\ SumFunction(f) <= RingMbufs
<1>1. PICK A, B : A = ToSet(PortList) /\ B = ToSet(ProcLcore)
  OBVIOUS
<1>2. /\ IsFiniteSet(A) /\ Cardinality(A) \in Nat /\ Cardinality(A) <= NbPorts
      /\ IsFiniteSet(B) /\ Cardinality(B) \in Nat /\ Cardinality(B) <= NbProcs
  <2>1. IsFiniteSet(A) /\ Cardinality(A) <= NbPorts /\ IsFiniteSet(B) /\ Cardinality(B) <= NbProcs
    BY <1>1, PortConstants, FewElements DEF NbPorts, NbProcs
  <2>2. QED
    BY <2>1, FS_CardinalityType
<1>3. IsFiniteSet(A \X B) /\ Cardinality(A \X B) = Cardinality(A) * Cardinality(B)
  BY <1>2, FS_Product
<1>4. IsFiniteSet(queues) /\ Cardinality(queues) \in Nat /\ Cardinality(queues) <= Cardinality(A \X B)
  <2>1. queues \in SUBSET (A \X B)
    BY <1>1
  <2>2. QED
    BY <1>3, <2>1, FS_Subset, FS_CardinalityType
<1>5. PICK N \in Nat, P \in Nat, Q \in Nat, a \in Nat, b \in Nat, c \in Nat :
         /\ N = NbPorts /\ P = NbProcs /\ Q = QueueSize
         /\ a = Cardinality(A) /\ b = Cardinality(B) /\ c = Cardinality(queues)
  BY <1>2, <1>4, PoolNumbers
<1>6. c <= N * P
  <2>1. c <= a * b /\ a <= N /\ b <= P
    BY <1>2, <1>3, <1>4, <1>5
  <2>2. a * b <= N * b /\ a * b \in Nat /\ N * b \in Nat
    BY <2>1, ProductGrows
  <2>3. b * N <= P * N /\ b * N = N * b /\ P * N = N * P /\ P * N \in Nat
    BY <2>1, ProductGrows
  <2>4. PICK x \in Nat, y \in Nat, z \in Nat : x = a * b /\ y = N * b /\ z = N * P
    BY <2>2, <2>3
  <2>5. c <= x /\ x <= y /\ y <= z
    BY <2>1, <2>2, <2>3, <2>4
  <2>6. QED
    BY <2>4, <2>5
<1>7. PICK np \in Nat, rm \in Nat : np = N * P /\ rm = np * Q /\ rm = RingMbufs
  BY <1>5 DEF RingMbufs
<1>8. c * Q <= rm /\ c * Q \in Nat
  BY <1>6, <1>7, ProductGrows
<1>9. DOMAIN f = queues /\ \A x \in queues : f[x] \in Int /\ f[x] <= Q
  BY <1>5
<1>10. SumFunctionOnSet(f, queues) \in Int
  BY <1>4, <1>9, SumStep
<1>11. SumFunctionOnSet(f, queues) <= c * Q
  <2>1. SumFunctionOnSet(f, queues) <= Cardinality(queues) * Q
    BY <1>4, <1>9, SumBounded
  <2>2. QED
    BY <1>5, <2>1
<1>12. SumFunction(f) = SumFunctionOnSet(f, queues)
  BY <1>9 DEF SumFunction
<1>13. PICK s \in Int, t \in Nat : s = SumFunction(f) /\ t = c * Q /\ s <= t /\ t <= rm
  BY <1>8, <1>10, <1>11, <1>12
<1>14. QED
  BY <1>7, <1>13

(* What holds of the ports while they are set up.  The descriptors that    *)
(* the next device starts from are those the last one left.                *)
DescInvariant ==
    /\ pos \in Nat /\ nbdesc \in Nat
    /\ pos <= Len(InitOrder) =>
          nbdesc <= QueueSize \/ \E k \in 1 .. pos : OverQueueSize(InitOrder[k][1])
    /\ DOMAIN dev = Devices /\ \A d \in Devices : dev[d].desc \in Nat
    /\ DescriptorsFit

FeatureInvariant == DOMAIN features = ToSet(PortList) /\ FeaturesConfigured

(* The looks at the links are counted, and the last one is the report. *)
LinkInvariant ==
    /\ link \in [count : Nat, flag : BOOLEAN, over : BOOLEAN, reported : BOOLEAN]
    /\ ~ link.over => link.count <= MaxCheckTime /\ (link.flag \/ link.count < MaxCheckTime)
    /\ LinksReported

(* Every pool is large enough for all the queues of all the ports. *)
MbufInvariant ==
    pools # NoPools => \A s \in DOMAIN pools : pools[s] \in Nat /\ pools[s] >= RingMbufs

PortInvariant == DescInvariant /\ FeatureInvariant /\ LinkInvariant /\ MbufInvariant

LEMMA PortInvariantInit ==
    PortInitState => PortInvariant
<1> SUFFICES ASSUME PortInitState PROVE PortInvariant
  OBVIOUS
<1>1. DescInvariant
  <2>1. pos = 0 /\ nbdesc = QueueSize /\ QueueSize \in Nat
    BY PortConstants DEF PortInitState
  <2>2. DOMAIN dev = Devices /\ \A d \in Devices : dev[d].desc = 0
    BY DEF PortInitState
  <2>3. Len(InitOrder) \in Nat
    BY OrderPlaces
  <2>4. DescriptorsFit
    BY <2>1, <2>3 DEF DescriptorsFit
  <2>5. QED
    BY <2>1, <2>2, <2>4 DEF DescInvariant
<1>2. FeatureInvariant
  BY DEF PortInitState, FeatureInvariant, FeaturesConfigured
<1>3. LinkInvariant
  BY PortConstants DEF PortInitState, LinkInvariant, LinksReported
<1>4. MbufInvariant
  BY DEF PortInitState, MbufInvariant
<1>5. QED
  BY <1>1, <1>2, <1>3, <1>4 DEF PortInvariant

(* One more device keeps the numbers of all of them in range. *)
LEMMA DescriptorsKept ==
    ASSUME PortInvariant, init_port_start PROVE DescInvariant'
<1>1. PICK L \in Nat : L = Len(InitOrder)
  BY OrderPlaces
<1>2. pos \in Nat /\ pos < L /\ pos' = pos + 1 /\ pos + 1 \in 1 .. L
  BY <1>1 DEF PortInvariant, DescInvariant, init_port_start
<1>3. \A k \in 1 .. L : InitOrder[k] \in Placed
  BY <1>1, OrderPlaces, ElementOfSeq
<1>4. PICK d \in Devices : d = InitOrder[pos + 1][1]
  BY <1>2, <1>3 DEF Placed
<1>5. PICK n : n = Adjusted(nbdesc, d)
  OBVIOUS
<1>6. nbdesc' = n /\ DOMAIN dev' = Devices /\ dev'[d].desc = n /\ \A x \in Devices : x # d => dev'[x] = dev[x]
  <2>1. Descriptors(d) = n
    BY <1>5 DEF Descriptors
  <2>2. PICK e : dev' = [dev EXCEPT ![d] = e] /\ e.desc = n
    <3>1. PICK k, r :
             /\ k = NextKey(rsskey, d).key
             /\ r = IF Len(LcoreList[InitOrder[pos + 1][2]]) > 1 /\ RetaSize[d] > 0
                    THEN set_rss_table(RetaSize[d], Len(LcoreList[InitOrder[pos + 1][2]])) ELSE << >>
      OBVIOUS
    <3>2. PICK e : e = [key |-> k, offloads |-> Features(d), desc |-> n, reta |-> r]
      OBVIOUS
    <3>3. dev' = [dev EXCEPT ![d] = e]
      BY <1>4, <2>1, <3>1, <3>2 DEF init_port_start
    <3>4. e.desc = n
      BY <3>2
    <3>5. QED
      BY <3>3, <3>4
  <2>3. nbdesc' = n
    BY <1>4, <2>1 DEF init_port_start
  <2>4. QED
    BY <2>2, <2>3 DEF PortInvariant, DescInvariant
<1>7. nbdesc \in Nat /\ (nbdesc <= QueueSize \/ \E k \in 1 .. pos : OverQueueSize(InitOrder[k][1]))
  BY <1>1, <1>2 DEF PortInvariant, DescInvariant
<1>8. /\ n \in Nat /\ n \in DescLim[d].min .. DescLim[d].max
      /\ nbdesc <= QueueSize /\ ~ OverQueueSize(d) => n <= QueueSize
  BY <1>5, <1>7, AdjustedFits
<1>9. n <= QueueSize \/ \E k \in 1 .. pos + 1 : OverQueueSize(InitOrder[k][1])
  <2>1. 1 .. pos \subseteq 1 .. pos + 1
    BY <1>2
  <2>2. QED
    BY <1>2, <1>4, <1>7, <1>8, <2>1
<1>10. ASSUME NEW i \in 1 .. pos + 1
       PROVE  /\ dev'[InitOrder[i][1]].desc \in DescLim[InitOrder[i][1]].min .. DescLim[InitOrder[i][1]].max
              /\ \/ dev'[InitOrder[i][1]].desc <= QueueSize
                 \/ \E k \in 1 .. pos + 1 : OverQueueSize(InitOrder[k][1])
  <2>1. PICK x \in Devices : x = InitOrder[i][1]
    <3>1. i \in 1 .. L
      BY <1>2
    <3>2. QED
      BY <1>3, <3>1 DEF Placed
  <2>2. CASE x = d
    BY <1>6, <1>8, <1>9, <2>1, <2>2
  <2>3. CASE x # d
    <3>1. i \in 1 .. pos
      BY <1>2, <1>4, <2>1, <2>3
    <3>2. /\ dev[x].desc \in DescLim[x].min .. DescLim[x].max
          /\ dev[x].desc <= QueueSize \/ \E k \in 1 .. pos : OverQueueSize(InitOrder[k][1])
      <4>1. ~ pos > Len(InitOrder)
        BY <1>1, <1>2
      <4>2. QED
        BY <2>1, <3>1, <4>1 DEF PortInvariant, DescInvariant, DescriptorsFit
    <3>3. 1 .. pos \subseteq 1 .. pos + 1
      BY <1>2
    <3>4. QED
      BY <1>6, <2>1, <2>3, <3>2, <3>3
  <2>4. QED
    BY <2>2, <2>3
<1>11. DescriptorsFit'
  <2>1. ~ pos' > Len(InitOrder)
    BY <1>1, <1>2
  <2>2. QED
    BY <1>2, <1>10, <2>1, Zenon DEF DescriptorsFit
<1>12. \A x \in Devices : dev'[x].desc \in Nat
  BY <1>6, <1>8 DEF PortInvariant, DescInvariant
<1>13. QED
  BY <1>2, <1>6, <1>8, <1>9, <1>11, <1>12 DEF DescInvariant

(* The port is noted with what its device can do. *)
LEMMA FeaturesKept ==
    ASSUME PortInvariant, init_port_start PROVE FeatureInvariant'
<1>1. PICK L \in Nat : L = Len(InitOrder)
  BY OrderPlaces
<1>2. pos + 1 \in 1 .. L
  BY <1>1 DEF PortInvariant, DescInvariant, init_port_start
<1>3. InitOrder[pos + 1] \in Placed
  BY <1>1, <1>2, OrderPlaces, ElementOfSeq
<1>4. PICK d \in Devices, u \in ToSet(PortList) :
         d = InitOrder[pos + 1][1] /\ u = InitOrder[pos + 1][2] /\ (d = u \/ d \in ToSet(Slaves[u]))
  BY <1>3 DEF Placed
<1>5. features' = [features EXCEPT ![u] = @ \cup Features(d)]
  BY <1>4 DEF init_port_start
<1>6. Features(d) \subseteq Capa[d]
  BY DEF Features
<1>7. Capa[d] \subseteq Capa[u] \cup UNION {Capa[s] : s \in ToSet(Slaves[u])}
  BY <1>4
<1>8. DOMAIN features = ToSet(PortList) /\ \A p \in ToSet(PortList) :
         features[p] \subseteq Capa[p] \cup UNION {Capa[s] : s \in ToSet(Slaves[p])}
  BY DEF PortInvariant, FeatureInvariant, FeaturesConfigured
<1>9. ASSUME NEW p \in ToSet(PortList)
      PROVE  features'[p] \subseteq Capa[p] \cup UNION {Capa[s] : s \in ToSet(Slaves[p])}
  <2>1. features'[p] = IF p = u THEN features[u] \cup Features(d) ELSE features[p]
    BY <1>5, <1>8
  <2>2. CASE p = u
    BY <1>6, <1>7, <1>8, <2>1, <2>2, Zenon
  <2>3. CASE p # u
    BY <1>8, <2>1, <2>3, Zenon
  <2>4. QED
    BY <2>2, <2>3
<1>10. QED
  BY <1>5, <1>8, <1>9 DEF FeatureInvariant, FeaturesConfigured

LEMMA PortInvariantNext ==
    PortInvariant /\ [PortNext]_portVars => PortInvariant'
<1> SUFFICES ASSUME PortInvariant, [PortNext]_portVars PROVE PortInvariant'
  OBVIOUS
<1>1. DescInvariant /\ FeatureInvariant /\ LinkInvariant /\ MbufInvariant
  BY DEF PortInvariant
<1>2. ASSUME UNCHANGED <<pos, nbdesc, dev>> PROVE DescInvariant'
  BY <1>1, <1>2 DEF DescInvariant, DescriptorsFit
<1>3. ASSUME UNCHANGED features PROVE FeatureInvariant'
  BY <1>1, <1>3 DEF FeatureInvariant, FeaturesConfigured
<1>4. ASSUME UNCHANGED link PROVE LinkInvariant'
  BY <1>1, <1>4 DEF LinkInvariant, LinksReported
<1>5. ASSUME UNCHANGED <<conf, pools>> PROVE MbufInvariant'
  BY <1>1, <1>5 DEF MbufInvariant, NoPools, Socket
<1>6. ASSUME NEW l \in ToSet(ProcLcore), init_mem_pool(l) PROVE PortInvariant'
  <2>1. pools' = [s \in DOMAIN pools |-> IF s = Socket(ProcLcore[1]) THEN FirstPool(l) ELSE LaterPool]
    BY <1>6 DEF init_mem_pool
  <2>2. \A s \in DOMAIN pools : pools'[s] \in Nat /\ pools'[s] >= RingMbufs
    BY <2>1, FirstSuffices, LaterSuffices
  <2>3. MbufInvariant'
    BY <2>1, <2>2 DEF MbufInvariant
  <2>4. UNCHANGED <<pos, nbdesc, dev, features, link>>
    BY <1>6 DEF init_mem_pool
  <2>5. QED
    BY <1>2, <1>3, <1>4, <2>3, <2>4 DEF PortInvariant
<1>7. CASE init_port_start
  <2>1. UNCHANGED <<conf, pools, link>>
    BY <1>7 DEF init_port_start
  <2>2. DescInvariant' /\ FeatureInvariant'
    BY <1>7, DescriptorsKept, FeaturesKept
  <2>3. QED
    BY <1>4, <1>5, <2>1, <2>2 DEF PortInvariant
<1>8. CASE init_port_failed
  <2>1. UNCHANGED <<conf, pools, nbdesc, dev, features, link>>
    BY <1>8 DEF init_port_failed
  <2>2. PICK L \in Nat : L = Len(InitOrder)
    BY OrderPlaces
  <2>3. pos' = L + 1
    BY <1>8, <2>2 DEF init_port_failed
  <2>4. DescriptorsFit'
    BY <2>2, <2>3 DEF DescriptorsFit
  <2>5. DescInvariant'
    BY <1>1, <2>1, <2>2, <2>3, <2>4 DEF DescInvariant
  <2>6. QED
    BY <1>3, <1>4, <1>5, <2>1, <2>5 DEF PortInvariant
<1>9. ASSUME NEW up \in BOOLEAN, check_all_ports_link_status(up) PROVE PortInvariant'
  <2>1. UNCHANGED <<conf, pools, pos, nbdesc, dev, features>>
    BY <1>9 DEF check_all_ports_link_status
  <2>2. PICK c \in Nat, m \in Nat : c = link.count /\ m = MaxCheckTime /\ m > 0
    BY <1>1, PortConstants DEF LinkInvariant
  <2>3. /\ ~ link.over /\ c <= m /\ (link.flag \/ c < m)
        /\ link' = IF link.count > MaxCheckTime THEN [link EXCEPT !.over = TRUE]
                   ELSE IF link.flag THEN [link EXCEPT !.over = TRUE, !.reported = TRUE]
                   ELSE [link EXCEPT !.flag = up \/ TimeUp(link.count), !.count = @ + 1]
    BY <1>1, <1>9, <2>2 DEF check_all_ports_link_status, LinkInvariant
  <2>4. ~ link.count > MaxCheckTime
    BY <2>2, <2>3
  <2>5. CASE link.flag
    <3>1. link' = [link EXCEPT !.over = TRUE, !.reported = TRUE]
      BY <2>3, <2>4, <2>5
    <3>2. LinkInvariant'
      BY <1>1, <3>1 DEF LinkInvariant, LinksReported
    <3>3. QED
      BY <1>2, <1>3, <1>5, <2>1, <3>2 DEF PortInvariant
  <2>6. CASE ~ link.flag
    <3>1. link' = [link EXCEPT !.flag = up \/ TimeUp(link.count), !.count = @ + 1]
      BY <2>3, <2>4, <2>6
    <3>2. PICK b \in BOOLEAN : b = (up \/ TimeUp(link.count)) /\ (c = m - 1 => b)
      BY <2>2 DEF TimeUp
    <3>3. link' = [link EXCEPT !.flag = b, !.count = c + 1]
      BY <2>2, <3>1, <3>2
    <3>4. link'.count = c + 1 /\ link'.flag = b /\ link'.over = link.over /\ link'.reported = link.reported
      <4>1. link'.count = c + 1
        BY <1>1, <3>3 DEF LinkInvariant
      <4>2. link'.flag = b /\ link'.over = link.over /\ link'.reported = link.reported
        BY <1>1, <3>3, Zenon DEF LinkInvariant
      <4>3. QED
        BY <4>1, <4>2
    <3>5. link' \in [count : Nat, flag : BOOLEAN, over : BOOLEAN, reported : BOOLEAN]
      <4>1. PICK c1 \in Nat : c1 = c + 1
        OBVIOUS
      <4>2. link' = [link EXCEPT !.flag = b, !.count = c1]
        BY <3>3, <4>1
      <4>3. QED
        BY <1>1, <4>2, Zenon DEF LinkInvariant
    <3>6. c < m /\ c + 1 <= m /\ (b \/ c + 1 < m)
      BY <2>2, <2>3, <2>6, <3>2
    <3>7. LinkInvariant'
      BY <2>2, <2>3, <3>4, <3>5, <3>6 DEF LinkInvariant, LinksReported
    <3>8. QED
      BY <1>2, <1>3, <1>5, <2>1, <3>7 DEF PortInvariant
  <2>7. QED
    BY <2>5, <2>6
<1>10. ASSUME NEW p, NEW f, lazybsd_rss_check(p, f) PROVE PortInvariant'
  <2>1. UNCHANGED <<conf, pools, pos, nbdesc, dev, features, link>>
    BY <1>10 DEF lazybsd_rss_check
  <2>2. QED
    BY <1>2, <1>3, <1>4, <1>5, <2>1 DEF PortInvariant
<1>11. CASE UNCHANGED portVars
  BY <1>2, <1>3, <1>4, <1>5, <1>11 DEF PortInvariant, portVars
<1>12. QED
  BY <1>6, <1>7, <1>8, <1>9, <1>10, <1>11 DEF PortNext

(* The pools suffice for what the devices were given. *)
LEMMA PoolsSuffice ==
    PortInvariant => RingsFilled
<1> SUFFICES ASSUME PortInvariant, pools # NoPools, NEW s \in DOMAIN pools,
                    NEW queues \in SUBSET (ToSet(PortList) \X ToSet(ProcLcore))
             PROVE  pools[s] >= SumFunction([pl \in queues |-> Min({dev[pl[1]].desc, QueueSize})])
  BY DEF RingsFilled
<1>1. PICK q \in Nat : q = QueueSize
  BY PortConstants
<1>2. ASSUME NEW pl \in queues
      PROVE  Min({dev[pl[1]].desc, q}) \in Nat /\ Min({dev[pl[1]].desc, q}) <= q
  <2>1. pl[1] \in Devices
    <3>1. \A i \in 1 .. Len(PortList) : PortList[i] \in Devices
      BY PortConstants
    <3>2. pl[1] \in ToSet(PortList)
      OBVIOUS
    <3>3. PICK i \in 1 .. Len(PortList) : PortList[i] = pl[1]
      BY <3>2, PortConstants, FewElements
    <3>4. QED
      BY <3>1, <3>3
  <2>2. PICK n \in Nat : n = dev[pl[1]].desc
    BY <2>1 DEF PortInvariant, DescInvariant
  <2>3. Min({n, q}) \in {n, q} /\ Min({n, q}) <= q
    BY MinOfTwo
  <2>4. QED
    BY <2>2, <2>3
<1>3. PICK f : f = [pl \in queues |-> Min({dev[pl[1]].desc, QueueSize})]
  OBVIOUS
<1>4. f \in [queues -> Nat] /\ \A x \in queues : f[x] <= QueueSize
  BY <1>1, <1>2, <1>3
<1>5. SumFunction(f) \in Int /\ SumFunction(f) <= RingMbufs
  BY <1>4, QueuesNeed
<1>6. pools[s] \in Nat /\ pools[s] >= RingMbufs /\ RingMbufs \in Nat
  BY PoolNumbers DEF PortInvariant, MbufInvariant
<1>7. PICK t \in Int : t = SumFunction(f)
  BY <1>5
<1>8. QED
  BY <1>3, <1>5, <1>6, <1>7

(* However the ports, their bonds and their limits are chosen, every       *)
(* device is set up with descriptors it takes, a port is announced with    *)
(* what its devices can do, the links are reported before the wait ends,   *)
(* and every pool has the mbufs for the rings that are filled from it      *)
(* (init_mem_pool, init_port_start, check_all_ports_link_status).          *)
THEOREM PortsAreConfigured ==
    PortSpec => []PortsConfigured
<1>1. PortInitState => PortInvariant
  BY PortInvariantInit
<1>2. PortInvariant /\ [PortNext]_portVars => PortInvariant'
  BY PortInvariantNext
<1>3. PortInvariant => PortsConfigured
  <2>1. PortInvariant => DescriptorsFit /\ FeaturesConfigured /\ LinksReported
    BY DEF PortInvariant, DescInvariant, FeatureInvariant, LinkInvariant
  <2>2. QED
    BY <2>1, PoolsSuffice DEF PortsConfigured
<1>4. QED
  BY <1>1, <1>2, <1>3, PTL DEF PortSpec

-----------------------------------------------------------------------------
(* The hash of the check and that of the device.                           *)

(* The bits of the data up to n that meet a bit of the key, w places on. *)
Meets(key, data, n, w) == {m \in 1 .. n : data[m] = 1 /\ KeyBit(key, m + w - 1) = 1}

(* The hash of the first n bits, and the window of the key after them. *)
HashUpTo(key, data, n) == [w \in 1 .. HashBits |-> Cardinality(Meets(key, data, n, w)) % 2]
WindowAt(key, n) == [w \in 1 .. HashBits |-> KeyBit(key, n + w)]

LEMMA KeyBits ==
    ASSUME NEW key, HashKey[key] \in Seq({0, 1})
    PROVE  \A i \in Nat \ {0} : KeyBit(key, i) \in {0, 1}
<1>1. PICK s \in Seq({0, 1}) : s = HashKey[key]
  OBVIOUS
<1>2. Len(s) \in Nat /\ \A i \in 1 .. Len(s) : s[i] \in {0, 1}
  OBVIOUS
<1>3. QED
  BY <1>1, <1>2 DEF KeyBit

LEMMA WindowMoves ==
    ASSUME NEW key, HashKey[key] \in Seq({0, 1}), NEW n \in Nat, n > 0
    PROVE  Shifted(WindowAt(key, n - 1), key, n) = WindowAt(key, n)
<1>1. PICK h \in Nat : h = HashBits /\ h > 0
  BY PortConstants
<1>2. PICK v : v = WindowAt(key, n - 1)
  OBVIOUS
<1>3. \A w \in 1 .. h : v[w] = KeyBit(key, n - 1 + w) /\ KeyBit(key, n - 1 + w) \in {0, 1}
  <2>1. \A w \in 1 .. h : n - 1 + w \in Nat \ {0}
    OBVIOUS
  <2>2. QED
    BY <1>1, <1>2, <2>1, KeyBits DEF WindowAt
<1>4. v = [w \in 1 .. h |-> v[w]]
  BY <1>1, <1>2 DEF WindowAt
<1>5. v \in Seq({0, 1}) /\ Len(v) = h
  BY <1>3, <1>4
<1>6. PICK t \in Seq({0, 1}) : t = Tail(v) /\ Len(t) = h - 1 /\ \A w \in 1 .. h - 1 : t[w] = v[w + 1]
  <2>1. v # << >>
    BY <1>1, <1>5
  <2>2. Tail(v) \in Seq({0, 1}) /\ Len(Tail(v)) = Len(v) - 1
        /\ \A w \in 1 .. Len(Tail(v)) : Tail(v)[w] = v[w + 1]
    BY <1>5, <2>1
  <2>3. QED
    BY <1>5, <2>2
<1>7. PICK b \in {0, 1} : b = KeyBit(key, n + h)
  <2>1. n + h \in Nat \ {0}
    OBVIOUS
  <2>2. QED
    BY <2>1, KeyBits
<1>8. PICK a \in Seq({0, 1}) : a = Append(t, b) /\ Len(a) = h /\ a[h] = b /\ \A w \in 1 .. h - 1 : a[w] = t[w]
  <2>1. PICK k \in Nat : k = h - 1 /\ k = Len(t)
    BY <1>1, <1>6
  <2>2. Append(t, b) \in Seq({0, 1}) /\ Len(Append(t, b)) = k + 1 /\ Append(t, b)[k + 1] = b
        /\ \A w \in 1 .. k : Append(t, b)[w] = t[w]
    BY <2>1
  <2>3. k + 1 = h
    BY <2>1
  <2>4. QED
    BY <2>1, <2>2, <2>3
<1>9. ASSUME NEW w \in 1 .. h PROVE a[w] = KeyBit(key, n + w)
  <2>1. CASE w = h
    BY <1>7, <1>8, <2>1
  <2>2. CASE w # h
    <3>1. w \in 1 .. h - 1 /\ w + 1 \in 1 .. h /\ n - 1 + (w + 1) = n + w
      BY <2>2
    <3>2. a[w] = v[w + 1] /\ v[w + 1] = KeyBit(key, n - 1 + (w + 1))
      BY <1>3, <1>6, <1>8, <3>1
    <3>3. QED
      BY <3>1, <3>2
  <2>3. QED
    BY <2>1, <2>2
<1>10. a = [w \in 1 .. h |-> KeyBit(key, n + w)]
  <2>1. a = [w \in 1 .. Len(a) |-> a[w]]
    OBVIOUS
  <2>2. QED
    BY <1>8, <1>9, <2>1
<1>11. QED
  BY <1>1, <1>2, <1>6, <1>7, <1>8, <1>10, Zenon DEF Shifted, WindowAt

(* One more bit of the data. *)
LEMMA HashMoves ==
    ASSUME NEW key, HashKey[key] \in Seq({0, 1}), NEW data, NEW n \in Nat, n > 0
    PROVE  HashUpTo(key, data, n) = IF data[n] = 1 THEN Xor(HashUpTo(key, data, n - 1), WindowAt(key, n - 1))
                                    ELSE HashUpTo(key, data, n - 1)
<1>1. PICK h \in Nat : h = HashBits
  BY PortConstants
<1>2. PICK m \in Nat : m = n - 1 /\ n = m + 1
  <2>1. n - 1 \in Nat /\ n = (n - 1) + 1
    OBVIOUS
  <2>2. QED
    BY <2>1
<1>3. ASSUME NEW w \in 1 .. h
      PROVE  /\ Cardinality(Meets(key, data, m, w)) \in Nat
             /\ data[n] # 1 => Meets(key, data, n, w) = Meets(key, data, m, w)
             /\ data[n] = 1 => Cardinality(Meets(key, data, n, w))
                                  = Cardinality(Meets(key, data, m, w)) + KeyBit(key, m + w)
             /\ KeyBit(key, m + w) \in {0, 1}
  <2>1. PICK A, B : A = Meets(key, data, m, w) /\ B = Meets(key, data, n, w)
    OBVIOUS
  <2>2. A \subseteq 1 .. m
    BY <2>1 DEF Meets
  <2>3. IsFiniteSet(A) /\ Cardinality(A) \in Nat
    <3>1. IsFiniteSet(1 .. m)
      BY FS_Interval
    <3>2. IsFiniteSet(A)
      BY <2>2, <3>1, FS_Subset
    <3>3. QED
      BY <3>2, FS_CardinalityType
  <2>4. n \notin A
    BY <1>2, <2>2
  <2>5. n + w - 1 = m + w /\ m + w \in Nat \ {0}
    BY <1>2
  <2>6. KeyBit(key, m + w) \in {0, 1}
    BY <2>5, KeyBits
  <2>7. 1 .. n = (1 .. m) \cup {n}
    BY <1>2
  <2>8. B = A \cup (IF data[n] = 1 /\ KeyBit(key, m + w) = 1 THEN {n} ELSE {})
    BY <2>1, <2>5, <2>7 DEF Meets
  <2>9. Cardinality(A \cup {n}) = Cardinality(A) + 1
    BY <2>3, <2>4, FS_AddElement
  <2>10. CASE data[n] = 1 /\ KeyBit(key, m + w) = 1
    <3>1. B = A \cup {n}
      BY <2>8, <2>10
    <3>2. QED
      BY <2>1, <2>3, <2>6, <2>9, <2>10, <3>1
  <2>11. CASE ~ (data[n] = 1 /\ KeyBit(key, m + w) = 1)
    <3>1. B = A
      BY <2>8, <2>11
    <3>2. QED
      BY <2>1, <2>3, <2>6, <2>11, <3>1
  <2>12. QED
    BY <2>10, <2>11
<1>4. CASE data[n] = 1
  <2>1. ASSUME NEW w \in 1 .. h
        PROVE  Cardinality(Meets(key, data, n, w)) % 2 = (HashUpTo(key, data, m)[w] + WindowAt(key, m)[w]) % 2
    <3>1. PICK c \in Nat, b \in {0, 1} :
             /\ c = Cardinality(Meets(key, data, m, w)) /\ b = KeyBit(key, m + w)
             /\ Cardinality(Meets(key, data, n, w)) = c + b
      BY <1>3, <1>4
    <3>2. HashUpTo(key, data, m)[w] = c % 2 /\ WindowAt(key, m)[w] = b
      BY <1>1, <3>1 DEF HashUpTo, WindowAt
    <3>3. (c + b) % 2 = ((c % 2) + b) % 2
      OBVIOUS
    <3>4. QED
      BY <3>1, <3>2, <3>3
  <2>2. HashUpTo(key, data, n) = Xor(HashUpTo(key, data, m), WindowAt(key, m))
    <3>1. HashUpTo(key, data, n) = [w \in 1 .. h |-> Cardinality(Meets(key, data, n, w)) % 2]
      BY <1>1 DEF HashUpTo
    <3>2. Xor(HashUpTo(key, data, m), WindowAt(key, m))
             = [w \in 1 .. h |-> (HashUpTo(key, data, m)[w] + WindowAt(key, m)[w]) % 2]
      BY <1>1 DEF Xor
    <3>3. QED
      BY <2>1, <3>1, <3>2
  <2>3. QED
    BY <1>2, <1>4, <2>2
<1>5. CASE data[n] # 1
  <2>1. HashUpTo(key, data, n) = HashUpTo(key, data, m)
    BY <1>1, <1>3, <1>5 DEF HashUpTo
  <2>2. QED
    BY <1>2, <1>5, <2>1
<1>6. QED
  BY <1>4, <1>5

(* The hash of the check is the hash of the device. *)
LEMMA HashesAgree ==
    ASSUME NEW key, HashKey[key] \in Seq({0, 1}), NEW data, Len(data) \in Nat
    PROVE  toeplitz_hash(key, data) = NicHash(key, data)
<1> DEFINE Fold(g) ==
      [n \in 0 .. Len(data) |->
         IF n = 0 THEN [hash |-> Zero, v |-> [w \in 1 .. HashBits |-> KeyBit(key, w)]]
         ELSE [hash |-> IF data[n] = 1 THEN Xor(g[n - 1].hash, g[n - 1].v) ELSE g[n - 1].hash,
               v |-> Shifted(g[n - 1].v, key, n)]]
<1> DEFINE at == CHOOSE g : g = Fold(g)
<1>1. toeplitz_hash(key, data) = at[Len(data)].hash
  BY Zenon DEF toeplitz_hash
<1>2. PICK N \in Nat : N = Len(data)
  OBVIOUS
<1>3. PICK f : f = [n \in 0 .. N |-> [hash |-> HashUpTo(key, data, n), v |-> WindowAt(key, n)]]
  OBVIOUS
<1>4. Zero = HashUpTo(key, data, 0) /\ [w \in 1 .. HashBits |-> KeyBit(key, w)] = WindowAt(key, 0)
  <2>1. \A w \in 1 .. HashBits : Cardinality(Meets(key, data, 0, w)) % 2 = 0
    <3>1. \A w : Meets(key, data, 0, w) = {}
      BY DEF Meets
    <3>2. Cardinality({}) = 0 /\ 0 % 2 = 0
      BY FS_EmptySet
    <3>3. QED
      BY <3>1, <3>2
  <2>2. \A w \in 1 .. HashBits : KeyBit(key, w) = KeyBit(key, 0 + w)
    <3>1. \A w \in 1 .. HashBits : w = 0 + w
      BY PortConstants
    <3>2. QED
      BY <3>1, Zenon
  <2>3. QED
    BY <2>1, <2>2 DEF Zero, HashUpTo, WindowAt
<1>5. ASSUME NEW n \in 1 .. N
      PROVE  f[n] = [hash |-> IF data[n] = 1 THEN Xor(f[n - 1].hash, f[n - 1].v) ELSE f[n - 1].hash,
                     v |-> Shifted(f[n - 1].v, key, n)]
  <2>1. f[n - 1].hash = HashUpTo(key, data, n - 1) /\ f[n - 1].v = WindowAt(key, n - 1)
    BY <1>3
  <2>2. f[n] = [hash |-> HashUpTo(key, data, n), v |-> WindowAt(key, n)]
    BY <1>3
  <2>3. n \in Nat /\ n > 0
    OBVIOUS
  <2>4. HashUpTo(key, data, n) = IF data[n] = 1 THEN Xor(f[n - 1].hash, f[n - 1].v) ELSE f[n - 1].hash
    BY <2>1, <2>3, HashMoves
  <2>5. WindowAt(key, n) = Shifted(f[n - 1].v, key, n)
    BY <2>1, <2>3, WindowMoves
  <2>6. QED
    BY <2>2, <2>4, <2>5
<1>6. f[0] = [hash |-> Zero, v |-> [w \in 1 .. HashBits |-> KeyBit(key, w)]]
  <2>1. f[0] = [hash |-> HashUpTo(key, data, 0), v |-> WindowAt(key, 0)]
    BY <1>3
  <2>2. QED
    BY <1>4, <2>1
<1>7. f = Fold(f)
  <2>1. f = [n \in 0 .. N |-> f[n]]
    BY <1>3
  <2>2. \A n \in 0 .. N : n # 0 => n \in 1 .. N
    OBVIOUS
  <2>3. QED
    BY <1>2, <1>5, <1>6, <2>1, <2>2
<1>8. at = Fold(at)
  BY <1>7
<1> HIDE DEF at
<1>9. at[0] = f[0]
  <2>1. 0 \in 0 .. Len(data)
    OBVIOUS
  <2>2. QED
    BY <1>6, <1>8, <2>1
<1>10. ASSUME NEW n \in 1 .. N, at[n - 1] = f[n - 1] PROVE at[n] = f[n]
  <2>1. n \in 0 .. Len(data) /\ n # 0
    BY <1>2
  <2>2. at[n] = [hash |-> IF data[n] = 1 THEN Xor(at[n - 1].hash, at[n - 1].v) ELSE at[n - 1].hash,
                 v |-> Shifted(at[n - 1].v, key, n)]
    BY <1>8, <2>1
  <2>3. QED
    BY <1>5, <1>10, <2>2
<1>11. at[N] = f[N]
  BY <1>9, <1>10, SameRecursion
<1>12. f[N].hash = HashUpTo(key, data, N)
  BY <1>3
<1>13. QED
  BY <1>1, <1>2, <1>11, <1>12 DEF HashUpTo, NicHash, Meets

(* The number that bits stand for. *)
LEMMA NumberNat ==
    ASSUME NEW bits, Len(bits) \in Nat, \A i \in 1 .. Len(bits) : bits[i] \in Nat
    PROVE  Number(bits) \in Nat
<1> DEFINE Fold(g) == [n \in 0 .. Len(bits) |-> IF n = 0 THEN 0 ELSE 2 * g[n - 1] + bits[n]]
<1> DEFINE at == CHOOSE g : g = Fold(g)
<1>1. Number(bits) = at[Len(bits)]
  BY Zenon DEF Number
<1>2. PICK N \in Nat : N = Len(bits)
  OBVIOUS
<1>3. PICK G \in [1 .. N -> [Nat -> Nat]] : G = [n \in 1 .. N |-> [x \in Nat |-> 2 * x + bits[n]]]
  <2>1. \A n \in 1 .. N : \A x \in Nat : 2 * x + bits[n] \in Nat
    BY <1>2
  <2>2. \A n \in 1 .. N : [x \in Nat |-> 2 * x + bits[n]] \in [Nat -> Nat]
    BY <2>1
  <2>3. QED
    BY <2>2
<1>4. PICK f : Recurs(f, Nat, N, 0, G)
  BY Recursion
<1>5. f \in [0 .. N -> Nat] /\ f[0] = 0 /\ \A n \in 1 .. N : f[n] = 2 * f[n - 1] + bits[n]
  <2>1. f \in [0 .. N -> Nat] /\ f[0] = 0 /\ \A n \in 1 .. N : f[n] = G[n][f[n - 1]]
    BY <1>4 DEF Recurs
  <2>2. ASSUME NEW n \in 1 .. N PROVE f[n] = 2 * f[n - 1] + bits[n]
    <3>1. PICK x \in Nat : x = f[n - 1]
      BY <2>1
    <3>2. G[n][x] = 2 * x + bits[n]
      BY <1>3
    <3>3. QED
      BY <2>1, <3>1, <3>2
  <2>3. QED
    BY <2>1, <2>2
<1>6. f = Fold(f)
  <2>1. f = [n \in 0 .. N |-> f[n]]
    BY <1>5
  <2>2. \A n \in 0 .. N : n # 0 => n \in 1 .. N
    OBVIOUS
  <2>3. QED
    BY <1>2, <1>5, <2>1, <2>2
<1>7. at = Fold(at)
  BY <1>6
<1> HIDE DEF at
<1>8. at[0] = f[0] /\ \A n \in 1 .. N : at[n] = 2 * at[n - 1] + bits[n]
  <2>1. \A n \in 0 .. N : at[n] = IF n = 0 THEN 0 ELSE 2 * at[n - 1] + bits[n]
    BY <1>2, <1>7, Zenon
  <2>2. 0 \in 0 .. N /\ \A n \in 1 .. N : n \in 0 .. N /\ n # 0
    OBVIOUS
  <2>3. QED
    BY <1>5, <2>1, <2>2, Zenon
<1>9. at[N] = f[N]
  <2>1. \A n \in 1 .. N : at[n - 1] = f[n - 1] => at[n] = f[n]
    BY <1>5, <1>8, Zenon
  <2>2. QED
    BY <1>8, <2>1, SameRecursion
<1>10. QED
  BY <1>1, <1>2, <1>5, <1>9

(* The entries of the table go through the queues in turn, however the     *)
(* device groups them.                                                     *)
LEMMA TableInTurn ==
    ASSUME NEW d \in Devices, NEW nb \in Nat, nb > 0, NEW k \in 0 .. RetaSize[d] - 1
    PROVE  set_rss_table(RetaSize[d], nb)[k] = k % nb
<1>1. PICK g \in Nat : g = GroupSize /\ g > 0
  BY PortConstants
<1>2. PICK size \in Int : size = RetaSize[d] /\ (size > g => size % g = 0)
  <2>1. RetaSize[d] \in Nat /\ (RetaSize[d] > GroupSize => RetaSize[d] % GroupSize = 0)
    BY PortAssumption
  <2>2. QED
    BY <1>1, <2>1
<1>3. PICK i \in Int, j \in 0 .. g - 1 : i = k \div g /\ j = k % g /\ k = g * i + j
  BY <1>1, DivMod
<1>4. PICK q \in Int, r \in 0 .. g - 1 : q = size \div g /\ r = size % g /\ size = g * q + r
  BY <1>1, DivMod
<1>5. PICK groups \in Int : groups = IF size \div g > 1 THEN size \div g ELSE 1
  BY <1>4
<1>6. k >= 0 /\ k < size
  BY <1>2
<1>7. i >= 0
  <2>1. CASE i <= -1
    <3>1. PICK p \in Int : p = g * i
      OBVIOUS
    <3>2. p <= -g
      BY <2>1, <3>1
    <3>3. QED
      BY <1>3, <1>6, <3>1, <3>2
  <2>2. QED
    BY <2>1
<1>8. i <= groups - 1
  <2>1. CASE size > g
    <3>1. size = g * q
      BY <1>2, <1>4, <2>1
    <3>2. CASE i >= q
      <4>1. PICK p \in Int, t \in Int : p = g * i /\ t = g * q /\ p >= t
        BY <3>2
      <4>2. QED
        BY <1>3, <1>6, <3>1, <4>1
    <3>3. CASE i <= q - 1
      BY <1>4, <1>5, <3>3
    <3>4. QED
      BY <3>2, <3>3
  <2>2. CASE size <= g
    <3>1. CASE i >= 1
      <4>1. PICK p \in Int : p = g * i /\ p >= g
        BY <1>1, <3>1
      <4>2. QED
        BY <1>3, <1>6, <2>2, <4>1
    <3>2. QED
      BY <1>4, <1>5, <3>1
  <2>3. QED
    BY <2>1, <2>2
<1>9. i \in 0 .. groups - 1
  BY <1>7, <1>8
<1>10. PICK table : table = [a \in 0 .. groups - 1 |-> [b \in 0 .. g - 1 |-> (a * g + b) % nb]]
  OBVIOUS
<1>11. set_rss_table(size, nb)[k] = table[k \div g][k % g]
  BY <1>1, <1>2, <1>5, <1>10 DEF set_rss_table
<1>12. table[i][j] = (i * g + j) % nb
  BY <1>9, <1>10
<1>13. i * g + j = k
  BY <1>3
<1>14. QED
  BY <1>2, <1>3, <1>11, <1>12, <1>13

(* A queue of a port belongs to one lcore. *)
LEMMA QueuesOfLcores ==
    ASSUME NEW p \in ToSet(PortList)
    PROVE  /\ Len(LcoreList[p]) \in Nat /\ Len(LcoreList[p]) > 0
           /\ \A i \in 1 .. Len(LcoreList[p]) :
                 LcoreList[p][i] \in ToSet(LcoreList[p]) /\ QueueOf(p, LcoreList[p][i]) = i - 1
           /\ \A l \in ToSet(LcoreList[p]) : \E i \in 1 .. Len(LcoreList[p]) : LcoreList[p][i] = l
<1>1. PICK s \in Seq(ToSet(ProcLcore)) : s = LcoreList[p] /\ s # << >> /\ IsInjective(s)
  BY PortAssumption
<1>2. Len(s) \in Nat /\ Len(s) > 0 /\ DOMAIN s = 1 .. Len(s)
  BY <1>1, LenProperties, EmptySeq
<1>3. \A x : x \in ToSet(s) <=> \E i \in 1 .. Len(s) : s[i] = x
  BY FewElements
<1>4. ASSUME NEW i \in 1 .. Len(s) PROVE QueueOf(p, s[i]) = i - 1
  <2>1. \A a, b \in 1 .. Len(s) : s[a] = s[b] => a = b
    BY <1>1, <1>2 DEF IsInjective
  <2>2. PICK c : c = CHOOSE a \in 1 .. Len(s) : s[a] = s[i]
    OBVIOUS
  <2>3. c \in 1 .. Len(s) /\ s[c] = s[i]
    BY <2>2
  <2>4. c = i
    BY <2>1, <2>3
  <2>5. QED
    BY <1>1, <2>2, <2>4 DEF QueueOf
<1>5. QED
  BY <1>1, <1>2, <1>3, <1>4

(* The places of two sequences that are joined. *)
Behind(z, s, t, m, n) ==
    /\ Len(z) = m + n
    /\ \A k \in 1 .. m + n : z[k] = IF k <= m THEN s[k] ELSE t[k - m]

LEMMA JoinedBehind ==
    ASSUME NEW A, NEW s \in Seq(A), NEW t \in Seq(A), NEW m \in Nat, NEW n \in Nat, Len(s) = m, Len(t) = n
    PROVE  Joined(s, t) \in Seq(A) /\ Behind(Joined(s, t), s, t, m, n)
<1>1. /\ Joined(s, t) \in Seq(A) /\ Len(Joined(s, t)) = Len(s) + Len(t)
      /\ \A k \in 1 .. Len(s) + Len(t) : Joined(s, t)[k] = IF k <= Len(s) THEN s[k] ELSE t[k - Len(s)]
  BY JoinedElements
<1>2. QED
  BY <1>1, Zenon DEF Behind

(* The places of four of them, two of length a and two of length b. *)
InARow(z, s, t, x, y, a, b) ==
    /\ Len(z) = a + a + b + b
    /\ \A k \in 1 .. a : z[k] = s[k] /\ z[a + k] = t[k]
    /\ \A k \in 1 .. b : z[a + a + k] = x[k] /\ z[a + a + b + k] = y[k]

LEMMA FourInARow ==
    ASSUME NEW A, NEW s \in Seq(A), NEW t \in Seq(A), NEW x \in Seq(A), NEW y \in Seq(A),
           NEW a \in Nat, NEW b \in Nat, Len(s) = a, Len(t) = a, Len(x) = b, Len(y) = b
    PROVE  s \o t \o x \o y \in Seq(A) /\ InARow(s \o t \o x \o y, s, t, x, y, a, b)
<1>1. PICK u \in Seq(A) : u = Joined(s, t) /\ Behind(u, s, t, a, a)
  BY JoinedBehind
<1>2. PICK aa \in Nat : aa = a + a
  OBVIOUS
<1>3. PICK v \in Seq(A) : v = Joined(u, x) /\ Behind(v, u, x, aa, b)
  <2>1. Len(u) = aa
    BY <1>1, <1>2 DEF Behind
  <2>2. QED
    BY <2>1, JoinedBehind
<1>4. PICK aab \in Nat : aab = aa + b
  OBVIOUS
<1>5. PICK z \in Seq(A) : z = Joined(v, y) /\ Behind(z, v, y, aab, b)
  <2>1. Len(v) = aab
    BY <1>3, <1>4 DEF Behind
  <2>2. QED
    BY <2>1, JoinedBehind
<1>6. z = s \o t \o x \o y
  BY <1>1, <1>3, <1>5, Zenon DEF Joined
<1>7. ASSUME NEW k \in 1 .. a PROVE z[k] = s[k] /\ z[a + k] = t[k]
  <2>1. z[k] = v[k] /\ v[k] = u[k] /\ u[k] = s[k]
    BY <1>1, <1>2, <1>3, <1>4, <1>5 DEF Behind
  <2>2. PICK m \in Nat : m = a + k /\ m - a = k
    OBVIOUS
  <2>3. z[m] = v[m] /\ v[m] = u[m] /\ u[m] = t[m - a]
    BY <1>1, <1>2, <1>3, <1>4, <1>5, <2>2 DEF Behind
  <2>4. QED
    BY <2>1, <2>2, <2>3
<1>8. ASSUME NEW k \in 1 .. b PROVE z[a + a + k] = x[k] /\ z[a + a + b + k] = y[k]
  <2>1. PICK m \in Nat : m = a + a + k /\ m - aa = k
    BY <1>2
  <2>2. z[m] = v[m] /\ v[m] = x[m - aa]
    BY <1>2, <1>3, <1>4, <1>5, <2>1 DEF Behind
  <2>3. PICK n \in Nat : n = a + a + b + k /\ n - aab = k
    BY <1>2, <1>4
  <2>4. z[n] = y[n - aab]
    BY <1>2, <1>4, <1>5, <2>3 DEF Behind
  <2>5. QED
    BY <2>1, <2>2, <2>3, <2>4
<1>9. Len(z) = a + a + b + b
  BY <1>2, <1>4, <1>5 DEF Behind
<1>10. InARow(z, s, t, x, y, a, b)
  BY <1>7, <1>8, <1>9 DEF InARow
<1>11. QED
  BY <1>6, <1>10, Zenon

(* Where a bit of a packet is in the packet of the other direction. *)
Mirror(n, a, b) ==
    IF n <= a THEN n + a ELSE IF n <= a + a THEN n - a ELSE IF n <= a + a + b THEN n + b ELSE n - b

LEMMA MirrorPlaces ==
    ASSUME NEW a \in Nat, NEW b \in Nat, NEW n \in 1 .. a + a + b + b
    PROVE  /\ Mirror(n, a, b) \in 1 .. a + a + b + b
           /\ Mirror(Mirror(n, a, b), a, b) = n
BY DEF Mirror

(* The packet of the other direction has the bits of the mirrored places. *)
Mirrors(r, z, a, b) == \A n \in 1 .. a + a + b + b : r[Mirror(n, a, b)] = z[n]

LEMMA MirroredBits ==
    ASSUME NEW s, NEW t, NEW x, NEW y, NEW a \in Nat, NEW b \in Nat,
           NEW z, InARow(z, s, t, x, y, a, b), NEW r, InARow(r, t, s, y, x, a, b)
    PROVE  Mirrors(r, z, a, b)
<1>1. SUFFICES ASSUME NEW n \in 1 .. a + a + b + b PROVE r[Mirror(n, a, b)] = z[n]
  BY DEF Mirrors
<1>2. /\ \A k \in 1 .. a : z[k] = s[k] /\ z[a + k] = t[k]
      /\ \A k \in 1 .. b : z[a + a + k] = x[k] /\ z[a + a + b + k] = y[k]
  BY DEF InARow
<1>3. /\ \A k \in 1 .. a : r[k] = t[k] /\ r[a + k] = s[k]
      /\ \A k \in 1 .. b : r[a + a + k] = y[k] /\ r[a + a + b + k] = x[k]
  BY DEF InARow
<1>4. CASE n <= a
  <2>1. n \in 1 .. a /\ Mirror(n, a, b) = a + n
    BY <1>4 DEF Mirror
  <2>2. QED
    BY <1>2, <1>3, <2>1
<1>5. CASE n > a /\ n <= a + a
  <2>1. PICK k \in 1 .. a : n = a + k /\ Mirror(n, a, b) = k
    <3>1. n - a \in 1 .. a /\ n = a + (n - a) /\ Mirror(n, a, b) = n - a
      BY <1>5 DEF Mirror
    <3>2. QED
      BY <3>1
  <2>2. QED
    BY <1>2, <1>3, <2>1
<1>6. CASE n > a + a /\ n <= a + a + b
  <2>1. PICK k \in 1 .. b : n = a + a + k /\ Mirror(n, a, b) = a + a + b + k
    <3>1. PICK k \in Int : k = n - (a + a)
      OBVIOUS
    <3>2. k \in 1 .. b /\ n = a + a + k /\ Mirror(n, a, b) = a + a + b + k
      BY <1>6, <3>1 DEF Mirror
    <3>3. QED
      BY <3>2
  <2>2. QED
    BY <1>2, <1>3, <2>1
<1>7. CASE n > a + a + b
  <2>1. PICK k \in 1 .. b : n = a + a + b + k /\ Mirror(n, a, b) = a + a + k
    <3>1. PICK k \in Int : k = n - (a + a + b)
      OBVIOUS
    <3>2. k \in 1 .. b /\ n = a + a + b + k /\ Mirror(n, a, b) = a + a + k
      BY <1>7, <3>1 DEF Mirror
    <3>3. QED
      BY <3>2
  <2>2. QED
    BY <1>2, <1>3, <2>1
<1>8. QED
  BY <1>4, <1>5, <1>6, <1>7

(* With the symmetric key, which is the same at mirrored places, both      *)
(* directions have one hash.                                               *)
LEMMA DirectionsAgree ==
    ASSUME NEW f \in Flows
    PROVE  /\ DataOf(f) \in Seq({0, 1}) /\ DataOf(Swapped(f)) \in Seq({0, 1})
           /\ NicHash("sym", DataOf(f)) = NicHash("sym", DataOf(Swapped(f)))
<1>1. PICK s \in Seq({0, 1}), t \in Seq({0, 1}), x \in Seq({0, 1}), y \in Seq({0, 1}) :
         /\ s = f.saddr /\ t = f.daddr /\ x = f.sport /\ y = f.dport
         /\ Len(s) = Len(t) /\ Len(x) = Len(y)
  <2>1. /\ {f.saddr, f.daddr, f.sport, f.dport} \subseteq Seq({0, 1})
        /\ Len(f.saddr) = Len(f.daddr) /\ Len(f.sport) = Len(f.dport)
    BY FlowAssumption, Zenon
  <2>2. QED
    BY <2>1, Zenon
<1>2. PICK a \in Nat, b \in Nat : a = Len(s) /\ b = Len(x) /\ Len(t) = a /\ Len(y) = b
  BY <1>1, LenProperties
<1>3. PICK z, r : z = s \o t \o x \o y /\ r = t \o s \o y \o x
  OBVIOUS
<1>4. z = DataOf(f) /\ r = DataOf(Swapped(f))
  BY <1>1, <1>3 DEF DataOf, Swapped
<1>5. PICK N \in Nat : N = a + a + b + b
  OBVIOUS
<1>6. /\ z \in Seq({0, 1}) /\ InARow(z, s, t, x, y, a, b) /\ Len(z) = N
      /\ r \in Seq({0, 1}) /\ InARow(r, t, s, y, x, a, b) /\ Len(r) = N
  <2>1. z \in Seq({0, 1}) /\ InARow(z, s, t, x, y, a, b)
    BY <1>2, <1>3, FourInARow, Zenon
  <2>2. r \in Seq({0, 1}) /\ InARow(r, t, s, y, x, a, b)
    BY <1>2, <1>3, FourInARow, Zenon
  <2>3. Len(z) = N /\ Len(r) = N
    BY <1>5, <2>1, <2>2 DEF InARow
  <2>4. QED
    BY <2>1, <2>2, <2>3
<1>7. \A n \in 1 .. N : r[Mirror(n, a, b)] = z[n] /\ z[Mirror(n, a, b)] = r[n]
  <2>1. Mirrors(r, z, a, b)
    BY <1>6, MirroredBits
  <2>2. Mirrors(z, r, a, b)
    BY <1>6, MirroredBits
  <2>3. QED
    BY <1>5, <2>1, <2>2 DEF Mirrors
<1>8. \A n \in 1 .. N : Mirror(n, a, b) \in 1 .. N /\ Mirror(Mirror(n, a, b), a, b) = n
  BY <1>5, MirrorPlaces
<1>9. PICK h \in Nat : h = HashBits /\ h > 0
  BY PortConstants
<1>10. \A len \in {a, b}, i \in 1 .. N + h : i + len < N + h => KeyBit("sym", i + len) = KeyBit("sym", i)
  <2>1. Len(DataOf(f)) = N
    BY <1>4, <1>6
  <2>2. \A len \in {Len(f.saddr), Len(f.sport)}, i \in 1 .. Len(DataOf(f)) + HashBits :
            i + len < Len(DataOf(f)) + HashBits => KeyBit("sym", i + len) = KeyBit("sym", i)
    BY FlowAssumption
  <2>3. QED
    BY <1>1, <1>2, <1>9, <2>1, <2>2
<1>11. ASSUME NEW n \in 1 .. N, NEW w \in 1 .. h
       PROVE  KeyBit("sym", Mirror(n, a, b) + w - 1) = KeyBit("sym", n + w - 1)
  <2>1. PICK n2 \in 1 .. N : n2 = Mirror(n, a, b)
    BY <1>8
  <2>2. PICK i \in Nat, j \in Nat : i = n + w - 1 /\ j = n2 + w - 1 /\ i \in 1 .. N + h - 1 /\ j \in 1 .. N + h - 1
    <3>1. n + w - 1 \in Nat /\ n2 + w - 1 \in Nat /\ n + w - 1 \in 1 .. N + h - 1 /\ n2 + w - 1 \in 1 .. N + h - 1
      OBVIOUS
    <3>2. QED
      BY <3>1, Zenon
  <2>3. \/ j = i + a \/ i = j + a \/ j = i + b \/ i = j + b
    BY <2>2, <2>1 DEF Mirror
  <2>4. QED
    <3>1. CASE j = i + a \/ j = i + b
      <4>1. KeyBit("sym", j) = KeyBit("sym", i)
        BY <1>10, <2>2, <3>1
      <4>2. QED
        BY <2>2, <2>1, <4>1
    <3>2. CASE i = j + a \/ i = j + b
      <4>1. KeyBit("sym", i) = KeyBit("sym", j)
        <5>1. PICK len \in {a, b} : i = j + len /\ j + len < N + h /\ j \in 1 .. N + h
          BY <2>2, <3>2
        <5>2. QED
          BY <1>10, <5>1
      <4>2. QED
        BY <2>2, <2>1, <4>1
    <3>3. QED
      BY <2>3, <3>1, <3>2
<1>12. ASSUME NEW w \in 1 .. h PROVE Cardinality(Meets("sym", z, N, w)) = Cardinality(Meets("sym", r, N, w))
  <2>1. PICK Z, R : Z = Meets("sym", z, N, w) /\ R = Meets("sym", r, N, w)
    OBVIOUS
  <2>2. PICK m : m = [n \in Z |-> Mirror(n, a, b)]
    OBVIOUS
  <2>3. Z \subseteq 1 .. N /\ R \subseteq 1 .. N
    BY <2>1 DEF Meets
  <2>4. \A n \in 1 .. N : n \in Z <=> z[n] = 1 /\ KeyBit("sym", n + w - 1) = 1
    BY <2>1 DEF Meets
  <2>5. \A n \in 1 .. N : n \in R <=> r[n] = 1 /\ KeyBit("sym", n + w - 1) = 1
    BY <2>1 DEF Meets
  <2>6. \A n \in Z : Mirror(n, a, b) \in R
    BY <1>7, <1>8, <1>11, <2>3, <2>4, <2>5
  <2>7. \A n \in R : Mirror(n, a, b) \in Z
    BY <1>7, <1>8, <1>11, <2>3, <2>4, <2>5
  <2>8. m \in [Z -> R] /\ \A u, v \in Z : m[u] = m[v] => u = v
    <3>1. m \in [Z -> R]
      BY <2>2, <2>6
    <3>2. ASSUME NEW u \in Z, NEW v \in Z, m[u] = m[v] PROVE u = v
      <4>1. Mirror(u, a, b) = Mirror(v, a, b)
        BY <2>2, <3>2
      <4>2. Mirror(Mirror(u, a, b), a, b) = u /\ Mirror(Mirror(v, a, b), a, b) = v
        BY <1>8, <2>3
      <4>3. QED
        BY <4>1, <4>2
    <3>3. QED
      BY <3>1, <3>2
  <2>9. \A u \in R : \E v \in Z : m[v] = u
    <3>1. SUFFICES ASSUME NEW u \in R PROVE \E v \in Z : m[v] = u
      OBVIOUS
    <3>2. PICK v \in Z : v = Mirror(u, a, b)
      BY <2>7
    <3>3. m[v] = u
      BY <1>8, <2>2, <2>3, <3>2
    <3>4. QED
      BY <3>3
  <2>10. ExistsBijection(Z, R)
    <3>1. DOMAIN m = Z
      BY <2>8
    <3>2. m \in Injection(Z, R)
      BY <2>8, <3>1, Zenon DEF Injection, IsInjective
    <3>3. m \in Surjection(Z, R)
      BY <2>8, <2>9, Zenon DEF Surjection
    <3>4. QED
      BY <3>2, <3>3 DEF ExistsBijection, Bijection
  <2>11. IsFiniteSet(Z)
    <3>1. IsFiniteSet(1 .. N)
      BY FS_Interval
    <3>2. QED
      BY <2>3, <3>1, FS_Subset
  <2>12. QED
    BY <2>1, <2>10, <2>11, FS_Bijection
<1>13. NicHash("sym", z) = NicHash("sym", r)
  <2>1. NicHash("sym", z) = [w \in 1 .. h |-> Cardinality(Meets("sym", z, N, w)) % 2]
    BY <1>6, <1>9 DEF NicHash, Meets
  <2>2. NicHash("sym", r) = [w \in 1 .. h |-> Cardinality(Meets("sym", r, N, w)) % 2]
    BY <1>6, <1>9 DEF NicHash, Meets
  <2>3. QED
    BY <1>12, <2>1, <2>2
<1>14. QED
  BY <1>4, <1>6, <1>13

(* The number of the queue that the bits of a hash choose on a port. *)
ChosenQueue(p, bits) == (Number(bits) % RetaSize[p]) % Len(LcoreList[p])

LEMMA ChosenInRange ==
    ASSUME NEW p \in ToSet(PortList), RetaSize[p] > 0, NEW key, NEW data, Len(data) \in Nat
    PROVE  /\ p \in Devices /\ RetaSize[p] \in Nat
           /\ Number(NicHash(key, data)) % RetaSize[p] \in 0 .. RetaSize[p] - 1
           /\ ChosenQueue(p, NicHash(key, data)) \in 0 .. Len(LcoreList[p]) - 1
<1>1. p \in Devices
  <2>1. \A i \in 1 .. Len(PortList) : PortList[i] \in Devices
    BY PortConstants
  <2>2. PICK i \in 1 .. Len(PortList) : PortList[i] = p
    BY PortConstants, FewElements
  <2>3. QED
    BY <2>1, <2>2
<1>2. PICK R \in Nat : R = RetaSize[p] /\ R > 0
  BY <1>1, PortAssumption
<1>3. PICK nb \in Nat : nb = Len(LcoreList[p]) /\ nb > 0
  BY QueuesOfLcores
<1>4. Number(NicHash(key, data)) \in Nat
  <2>1. PICK h \in Nat : h = HashBits
    BY PortConstants
  <2>2. PICK bits : bits = NicHash(key, data)
    OBVIOUS
  <2>3. bits = [w \in 1 .. h |-> bits[w]] /\ \A w \in 1 .. h : bits[w] \in Nat
    <3>1. ASSUME NEW w \in 1 .. h PROVE bits[w] \in Nat
      <4>1. PICK S : S = {n \in 1 .. Len(data) : data[n] = 1 /\ KeyBit(key, n + w - 1) = 1}
        OBVIOUS
      <4>2. bits[w] = Cardinality(S) % 2
        BY <2>1, <2>2, <4>1 DEF NicHash
      <4>3. IsFiniteSet(1 .. Len(data)) /\ S \subseteq 1 .. Len(data)
        BY <4>1, FS_Interval
      <4>4. PICK c \in Nat : c = Cardinality(S)
        BY <4>3, FS_Subset, FS_CardinalityType
      <4>5. QED
        BY <4>2, <4>4
    <3>2. QED
      BY <2>1, <2>2, <3>1 DEF NicHash
  <2>4. bits \in Seq(Nat) /\ Len(bits) = h
    BY <2>3
  <2>5. QED
    BY <2>2, <2>3, <2>4, NumberNat
<1>5. PICK x \in Nat : x = Number(NicHash(key, data))
  BY <1>4
<1>6. PICK y \in 0 .. R - 1 : y = x % R
  BY <1>2, DivMod
<1>7. y % nb \in 0 .. nb - 1
  <2>1. y \in Int
    OBVIOUS
  <2>2. QED
    BY <1>3, <2>1, DivMod
<1>8. QED
  BY <1>1, <1>2, <1>3, <1>5, <1>6, <1>7 DEF ChosenQueue

(* What a check finds on a port that is set up. *)
LEMMA ClaimsMatch ==
    ASSUME NEW p \in ToSet(PortList), NEW f \in Flows, RetaSize[p] > 0,
           rsskey.key \in {"40", "52", "sym"}, dev[p].key = rsskey.key,
           Len(LcoreList[p]) > 1 => dev[p].reta = set_rss_table(RetaSize[p], Len(LcoreList[p]))
    PROVE  {QueueOf(p, l) : l \in {l \in ToSet(LcoreList[p]) : Claims(p, l, DataOf(f))}}
              = {IF Len(LcoreList[p]) > 1 THEN NicQueue(p, DataOf(f)) ELSE 0}
<1>1. PICK data : data = DataOf(f) /\ Len(data) \in Nat
  BY DirectionsAgree, LenProperties
<1>2. PICK key : key = rsskey.key /\ HashKey[key] \in Seq({0, 1})
  BY FlowAssumption
<1>3. PICK bits : bits = NicHash(key, data) /\ bits = toeplitz_hash(key, data)
  BY <1>1, <1>2, HashesAgree
<1>4. PICK nb \in Nat : nb = Len(LcoreList[p]) /\ nb > 0
  BY QueuesOfLcores
<1>5. PICK s, L : s = LcoreList[p] /\ L = ToSet(s)
  OBVIOUS
<1>6. /\ \A i \in 1 .. nb : s[i] \in L /\ QueueOf(p, s[i]) = i - 1
      /\ \A l \in L : \E i \in 1 .. nb : s[i] = l
  BY <1>4, <1>5, QueuesOfLcores
<1>7. PICK C : C = {QueueOf(p, l) : l \in {l \in L : Claims(p, l, data)}}
  OBVIOUS
<1>8. CASE nb = 1
  <2>1. \A l \in L : Claims(p, l, data)
    BY <1>4, <1>8 DEF Claims
  <2>2. \A l \in L : QueueOf(p, l) = 0
    BY <1>6, <1>8
  <2>3. s[1] \in L
    BY <1>6, <1>8
  <2>4. C = {0}
    BY <1>7, <2>1, <2>2, <2>3
  <2>5. QED
    BY <1>1, <1>4, <1>5, <1>7, <1>8, <2>4
<1>9. CASE nb > 1
  <2>1. PICK R \in Nat : R = RetaSize[p] /\ R > 0
    BY <1>1, ChosenInRange
  <2>2. PICK x \in 0 .. R - 1, q \in 0 .. nb - 1 : x = Number(bits) % R /\ q = x % nb
    <3>1. /\ Number(NicHash(key, data)) % RetaSize[p] \in 0 .. RetaSize[p] - 1
          /\ ChosenQueue(p, NicHash(key, data)) \in 0 .. Len(LcoreList[p]) - 1
      BY <1>1, ChosenInRange
    <3>2. QED
      BY <1>3, <1>4, <2>1, <3>1 DEF ChosenQueue
  <2>3. \A l \in L : Claims(p, l, data) <=> q = QueueOf(p, l)
    BY <1>2, <1>3, <1>4, <1>9, <2>1, <2>2 DEF Claims
  <2>4. NicQueue(p, data) = q
    <3>1. p \in Devices
      BY <1>1, ChosenInRange
    <3>2. dev[p].reta[x] = x % nb
      BY <1>4, <1>9, <2>1, <2>2, <3>1, TableInTurn
    <3>3. NicQueue(p, data) = dev[p].reta[x]
      BY <1>2, <1>3, <2>1, <2>2 DEF NicQueue
    <3>4. QED
      BY <2>2, <3>2, <3>3
  <2>5. C = {q}
    <3>1. q + 1 \in 1 .. nb /\ (q + 1) - 1 = q
      OBVIOUS
    <3>2. s[q + 1] \in L /\ QueueOf(p, s[q + 1]) = q
      BY <1>6, <3>1
    <3>3. QED
      BY <1>7, <2>3, <3>2
  <2>6. QED
    BY <1>1, <1>4, <1>5, <1>7, <1>9, <2>4, <2>5
<1>10. nb = 1 \/ nb > 1
  <2>1. nb > 0
    BY <1>4
  <2>2. QED
    BY <2>1
<1>11. QED
  BY <1>8, <1>9, <1>10, Zenon

(* The key after the first n devices. *)
KeyAt(n) == IF conf.symmetric THEN "sym" ELSE IF LongKey(n) THEN "52" ELSE "40"

(* One device more. *)
LEMMA KeyOfNext ==
    ASSUME NEW n \in Nat
    PROVE  /\ LongKey(n + 1) <=> LongKey(n) \/ KeySize[InitOrder[n + 1][1]] = "52"
           /\ ~ LongKey(0)
<1>1. PICK long \in [Nat -> BOOLEAN] : \A k \in Nat : long[k] <=> KeySize[InitOrder[k][1]] = "52"
  <2>1. \E long \in [Nat -> BOOLEAN] : long = [k \in Nat |-> KeySize[InitOrder[k][1]] = "52"]
    OBVIOUS
  <2>2. QED
    BY <2>1
<1>2. \A m \in Nat : LongKey(m) <=> \E k \in 1 .. m : long[k]
  BY <1>1 DEF LongKey
<1>3. LongKey(n + 1) <=> LongKey(n) \/ long[n + 1]
  <2>1. 1 .. n + 1 = (1 .. n) \cup {n + 1}
    OBVIOUS
  <2>2. QED
    BY <1>2, <2>1
<1>4. QED
  BY <1>1, <1>2, <1>3

(* What holds of the keys and the tables: a device that is set up has the  *)
(* key of its place in the order; a port of the list has the table of its  *)
(* own lcores, as a slave is no port of the list; the symmetric key is in  *)
(* use from the first device on.                                           *)
KeyInvariant ==
    /\ pos \in Nat
    /\ DOMAIN rsskey = {"key", "len"} /\ rsskey.key \in {"40", "52", "sym"}
    /\ conf.symmetric /\ pos > 0 /\ pos <= Len(InitOrder) => rsskey.key = "sym"
    /\ ~ conf.symmetric /\ pos <= Len(InitOrder) => rsskey.key = KeyAt(pos)
    /\ DOMAIN dev = Devices

DeviceKeys ==
    \A p \in Devices : \A k \in 1 .. Len(InitOrder) :
        k <= pos /\ pos <= Len(InitOrder) /\ InitOrder[k][1] = p
            => \E i \in 1 .. Len(InitOrder) : InitOrder[i][1] = p /\ dev[p].key = KeyAt(i)

TableInvariant ==
    \A p \in ToSet(PortList) : \A k \in 1 .. Len(InitOrder) :
        k <= pos /\ pos <= Len(InitOrder) /\ InitOrder[k][1] = p /\ Len(LcoreList[p]) > 1 /\ RetaSize[p] > 0
            => dev[p].reta = set_rss_table(RetaSize[p], Len(LcoreList[p]))

(* A check comes after the last device. *)
CheckInvariant == check # NoCheck => pos = Len(InitOrder)

FlowInvariant == KeyInvariant /\ DeviceKeys /\ TableInvariant /\ CheckInvariant /\ FlowsDelivered

LEMMA FlowInvariantInit ==
    PortInitState => FlowInvariant
<1> SUFFICES ASSUME PortInitState PROVE FlowInvariant
  OBVIOUS
<1>1. KeyInvariant
  <2>1. pos = 0 /\ rsskey.key = "40" /\ DOMAIN rsskey = {"key", "len"} /\ DOMAIN dev = Devices
    BY DEF PortInitState
  <2>2. ~ conf.symmetric => rsskey.key = KeyAt(pos)
    BY <2>1, KeyOfNext DEF KeyAt
  <2>3. QED
    BY <2>1, <2>2 DEF KeyInvariant
<1>2. DeviceKeys /\ TableInvariant
  <2>1. pos = 0
    BY DEF PortInitState
  <2>2. QED
    BY <2>1, OrderPlaces DEF DeviceKeys, TableInvariant
<1>3. check = NoCheck /\ check.port = << >>
  BY DEF PortInitState, NoCheck
<1>4. FlowsDelivered
  BY <1>3 DEF FlowsDelivered, ClaimedWhereDelivered, SymmetricFlows
<1>5. QED
  BY <1>1, <1>2, <1>3, <1>4 DEF FlowInvariant, CheckInvariant

(* One more device. *)
LEMMA StartKeepsFlows ==
    ASSUME FlowInvariant, init_port_start PROVE FlowInvariant'
<1>1. PICK L \in Nat : L = Len(InitOrder)
  BY OrderPlaces
<1>2. pos \in Nat /\ pos < L /\ pos' = pos + 1 /\ pos + 1 \in 1 .. L /\ UNCHANGED <<conf, check>>
  BY <1>1 DEF FlowInvariant, KeyInvariant, init_port_start
<1>3. \A k \in 1 .. L : InitOrder[k] \in Placed
  BY <1>1, OrderPlaces, ElementOfSeq
<1>4. PICK d \in Devices, u \in ToSet(PortList) :
         d = InitOrder[pos + 1][1] /\ u = InitOrder[pos + 1][2] /\ (d = u \/ d \in ToSet(Slaves[u]))
  BY <1>2, <1>3 DEF Placed
<1>5. PICK r : r = IF Len(LcoreList[u]) > 1 /\ RetaSize[d] > 0
                   THEN set_rss_table(RetaSize[d], Len(LcoreList[u])) ELSE << >>
  OBVIOUS
<1>6. /\ DOMAIN dev' = Devices /\ dev'[d].reta = r /\ dev'[d].key = NextKey(rsskey, d).key
      /\ \A x \in Devices : x # d => dev'[x] = dev[x]
  <2>1. PICK e : e = [key |-> NextKey(rsskey, d).key, offloads |-> Features(d), desc |-> Descriptors(d), reta |-> r]
    OBVIOUS
  <2>2. dev' = [dev EXCEPT ![d] = e]
    BY <1>4, <1>5, <2>1 DEF init_port_start
  <2>3. e.reta = r /\ e.key = NextKey(rsskey, d).key
    BY <2>1
  <2>4. DOMAIN dev = Devices
    BY DEF FlowInvariant, KeyInvariant
  <2>5. QED
    BY <2>2, <2>3, <2>4
<1>7. /\ DOMAIN rsskey' = {"key", "len"} /\ rsskey'.key \in {"40", "52", "sym"}
      /\ rsskey'.key = KeyAt(pos + 1) /\ rsskey'.key = NextKey(rsskey, d).key
  <2>1. rsskey' = NextKey(rsskey, d)
    BY <1>4 DEF init_port_start
  <2>2. PICK sized : sized = IF KeySize[d] = "52" THEN [key |-> "52", len |-> "52"] ELSE rsskey
    OBVIOUS
  <2>3. DOMAIN sized = {"key", "len"} /\ sized.key \in {"40", "52", "sym"}
    BY <2>2 DEF FlowInvariant, KeyInvariant
  <2>4. rsskey' = IF conf.symmetric THEN [sized EXCEPT !.key = "sym"] ELSE sized
    BY <2>1, <2>2 DEF NextKey
  <2>5. ~ conf.symmetric => rsskey.key = IF LongKey(pos) THEN "52" ELSE "40"
    BY <1>1, <1>2 DEF FlowInvariant, KeyInvariant, KeyAt
  <2>6. LongKey(pos + 1) <=> LongKey(pos) \/ KeySize[d] = "52"
    BY <1>2, <1>4, KeyOfNext
  <2>7. rsskey'.key = KeyAt(pos + 1)
    BY <2>2, <2>3, <2>4, <2>5, <2>6 DEF KeyAt
  <2>8. QED
    BY <2>1, <2>3, <2>4, <2>7
<1>8. KeyInvariant'
  <2>1. \A n : KeyAt(n)' = KeyAt(n)
    BY <1>2 DEF KeyAt, LongKey
  <2>2. conf.symmetric => rsskey'.key = "sym"
    BY <1>7 DEF KeyAt
  <2>3. QED
    BY <1>2, <1>6, <1>7, <2>1, <2>2 DEF KeyInvariant
<1>9. TableInvariant'
  <2>1. SUFFICES ASSUME NEW p \in ToSet(PortList), NEW k \in 1 .. L, k <= pos + 1, InitOrder[k][1] = p,
                        Len(LcoreList[p]) > 1, RetaSize[p] > 0
                 PROVE  dev'[p].reta = set_rss_table(RetaSize[p], Len(LcoreList[p]))
    BY <1>1, <1>2 DEF TableInvariant
  <2>2. CASE p = d
    <3>1. p \notin ToSet(Slaves[u])
      <4>1. Slaves[u] \in Seq(Devices \ ToSet(PortList))
        BY PortAssumption
      <4>2. \A x : x \in ToSet(Slaves[u]) => x \in Devices \ ToSet(PortList)
        <5>1. PICK sl \in Seq(Devices \ ToSet(PortList)) : sl = Slaves[u]
          BY <4>1
        <5>2. \A i \in 1 .. Len(sl) : sl[i] \in Devices \ ToSet(PortList)
          BY ElementOfSeq
        <5>3. \A x : x \in ToSet(sl) <=> \E i \in 1 .. Len(sl) : sl[i] = x
          BY FewElements
        <5>4. \A x : x \in ToSet(sl) => x \in Devices \ ToSet(PortList)
          BY <5>2, <5>3
        <5>5. QED
          BY <5>1, <5>4, Zenon
      <4>3. QED
        BY <4>2
    <3>2. u = p
      BY <1>4, <2>2, <3>1
    <3>3. QED
      BY <1>5, <1>6, <2>1, <2>2, <3>2
  <2>3. CASE p # d
    <3>1. k <= pos /\ pos <= Len(InitOrder)
      BY <1>1, <1>2, <1>4, <2>1, <2>3
    <3>2. dev[p].reta = set_rss_table(RetaSize[p], Len(LcoreList[p]))
      BY <1>1, <2>1, <3>1 DEF FlowInvariant, TableInvariant
    <3>3. p \in Devices
      BY <1>3, <2>1 DEF Placed
    <3>4. QED
      BY <1>6, <2>3, <3>2, <3>3
  <2>4. QED
    BY <2>2, <2>3
<1>10. check = NoCheck
  BY <1>1, <1>2 DEF FlowInvariant, CheckInvariant
<1>11. check' = NoCheck /\ check'.port = << >>
  BY <1>2, <1>10 DEF NoCheck
<1>12. CheckInvariant' /\ FlowsDelivered'
  <2>1. NoCheck' = NoCheck
    BY DEF NoCheck
  <2>2. QED
    BY <1>11, <2>1 DEF CheckInvariant, FlowsDelivered, ClaimedWhereDelivered, SymmetricFlows
<1>13. DeviceKeys'
  <2>1. SUFFICES ASSUME NEW p \in Devices, NEW k \in 1 .. L, k <= pos + 1, InitOrder[k][1] = p
                 PROVE  \E i \in 1 .. L : InitOrder[i][1] = p /\ dev'[p].key = KeyAt(i)
    BY <1>1, <1>2 DEF DeviceKeys, KeyAt, LongKey
  <2>2. CASE p = d
    <3>1. dev'[p].key = KeyAt(pos + 1)
      BY <1>6, <1>7, <2>2
    <3>2. QED
      BY <1>2, <1>4, <2>2, <3>1
  <2>3. CASE p # d
    <3>1. k <= pos
      BY <1>2, <1>4, <2>1, <2>3
    <3>2. pos <= L /\ dev'[p] = dev[p]
      BY <1>2, <1>6, <2>3
    <3>3. QED
      BY <1>1, <2>1, <3>1, <3>2 DEF FlowInvariant, DeviceKeys
  <2>4. QED
    BY <2>2, <2>3
<1>14. QED
  BY <1>8, <1>9, <1>12, <1>13 DEF FlowInvariant

(* A check of a connection. *)
LEMMA CheckKeepsFlows ==
    ASSUME FlowInvariant, NEW p \in ToSet(PortList), NEW f \in Flows, lazybsd_rss_check(p, f)
    PROVE  FlowInvariant'
<1>1. PICK L \in Nat : L = Len(InitOrder)
  BY OrderPlaces
<1>2. pos = L /\ RetaSize[p] > 0 /\ UNCHANGED <<conf, pools, pos, rsskey, nbdesc, dev, features, link>>
  BY <1>1 DEF lazybsd_rss_check
<1>3. PICK k0 \in 1 .. L : InitOrder[k0] = << p, p >>
  BY <1>1, OrderPlaces
<1>4. L > 0
  BY <1>3
<1>5. KeyInvariant' /\ DeviceKeys' /\ TableInvariant' /\ CheckInvariant'
  <2>1. KeyInvariant' /\ DeviceKeys'
    BY <1>2 DEF FlowInvariant, KeyInvariant, DeviceKeys, KeyAt, LongKey
  <2>2. TableInvariant'
    BY <1>2 DEF FlowInvariant, TableInvariant
  <2>3. CheckInvariant'
    BY <1>1, <1>2 DEF CheckInvariant
  <2>4. QED
    BY <2>1, <2>2, <2>3
<1>6. rsskey.key \in {"40", "52", "sym"} /\ (conf.symmetric => rsskey.key = "sym")
  BY <1>1, <1>2, <1>4 DEF FlowInvariant, KeyInvariant
<1>7. PICK nic, claimed, hash, back :
         /\ nic = IF Len(LcoreList[p]) > 1 THEN NicQueue(p, DataOf(f)) ELSE 0
         /\ claimed = {QueueOf(p, l) : l \in {l \in ToSet(LcoreList[p]) : Claims(p, l, DataOf(f))}}
         /\ hash = toeplitz_hash(rsskey.key, DataOf(f))
         /\ back = toeplitz_hash(rsskey.key, DataOf(Swapped(f)))
  BY Zenon
<1>8. check' = [port |-> << p >>, nic |-> nic, claimed |-> claimed, hash |-> hash, back |-> back]
  BY <1>7, Zenon DEF lazybsd_rss_check
<1>9. check'.port = << p >> /\ check'.nic = nic /\ check'.claimed = claimed /\ check'.hash = hash /\ check'.back = back
  BY <1>8
<1>10. ClaimedWhereDelivered'
  <2>1. Len(check'.port) = 1 /\ check'.port[1] = p
    BY <1>9
  <2>2. SUFFICES ASSUME KeyStays(p) PROVE claimed = {nic}
    BY <1>2, <1>9, <2>1 DEF ClaimedWhereDelivered, KeyStays
  <2>3. Len(LcoreList[p]) > 1 => dev[p].reta = set_rss_table(RetaSize[p], Len(LcoreList[p]))
    BY <1>1, <1>2, <1>3 DEF FlowInvariant, TableInvariant
  <2>4. dev[p].key = rsskey.key
    <3>1. PICK i \in 1 .. L : InitOrder[i][1] = p /\ dev[p].key = KeyAt(i)
      <4>1. p \in Devices
        BY PortAssumption, <1>1, <1>3, OrderPlaces, ElementOfSeq DEF Placed
      <4>2. QED
        BY <1>1, <1>2, <1>3, <4>1 DEF FlowInvariant, DeviceKeys
    <3>2. rsskey.key = KeyAt(L)
      BY <1>1, <1>2, <1>4 DEF FlowInvariant, KeyInvariant, KeyAt
    <3>3. LongKey(i) => LongKey(L)
      BY <1>1 DEF LongKey
    <3>4. conf.symmetric \/ (LongKey(L) => LongKey(i))
      BY <1>1, <2>2, <3>1 DEF KeyStays
    <3>5. QED
      BY <3>1, <3>2, <3>3, <3>4 DEF KeyAt
  <2>5. QED
    BY <1>2, <1>6, <1>7, <2>3, <2>4, ClaimsMatch
<1>11. SymmetricFlows'
  <2>1. SUFFICES ASSUME conf.symmetric PROVE hash = back
    BY <1>2, <1>9 DEF SymmetricFlows
  <2>2. rsskey.key = "sym" /\ HashKey["sym"] \in Seq({0, 1})
    BY <1>6, <2>1, FlowAssumption
  <2>3. /\ DataOf(f) \in Seq({0, 1}) /\ DataOf(Swapped(f)) \in Seq({0, 1})
        /\ NicHash("sym", DataOf(f)) = NicHash("sym", DataOf(Swapped(f)))
    BY DirectionsAgree
  <2>4. Len(DataOf(f)) \in Nat /\ Len(DataOf(Swapped(f))) \in Nat
    BY <2>3, LenProperties
  <2>5. hash = NicHash("sym", DataOf(f)) /\ back = NicHash("sym", DataOf(Swapped(f)))
    BY <1>7, <2>2, <2>4, HashesAgree
  <2>6. QED
    BY <2>3, <2>5
<1>12. QED
  BY <1>5, <1>10, <1>11 DEF FlowInvariant, FlowsDelivered

LEMMA FlowInvariantNext ==
    FlowInvariant /\ [PortNext]_portVars => FlowInvariant'
<1> SUFFICES ASSUME FlowInvariant, [PortNext]_portVars PROVE FlowInvariant'
  OBVIOUS
<1>1. ASSUME UNCHANGED <<conf, pos, rsskey, dev, check>> PROVE FlowInvariant'
  <2>1. KeyInvariant' /\ DeviceKeys' /\ TableInvariant' /\ CheckInvariant'
    BY <1>1 DEF FlowInvariant, KeyInvariant, DeviceKeys, KeyAt, LongKey, TableInvariant, CheckInvariant, NoCheck
  <2>2. FlowsDelivered'
    BY <1>1 DEF FlowInvariant, FlowsDelivered, ClaimedWhereDelivered, KeyStays, LongKey, SymmetricFlows, NoCheck
  <2>3. QED
    BY <2>1, <2>2 DEF FlowInvariant
<1>2. ASSUME NEW l, init_mem_pool(l) PROVE FlowInvariant'
  BY <1>1, <1>2 DEF init_mem_pool
<1>3. CASE init_port_start
  BY <1>3, StartKeepsFlows
<1>4. CASE init_port_failed
  <2>1. PICK L \in Nat : L = Len(InitOrder)
    BY OrderPlaces
  <2>2. pos < L /\ pos' = L + 1 /\ UNCHANGED <<conf, rsskey, dev, check>>
    BY <1>4, <2>1 DEF init_port_failed
  <2>3. KeyInvariant'
    BY <2>1, <2>2 DEF FlowInvariant, KeyInvariant
  <2>4. DeviceKeys' /\ TableInvariant'
    BY <2>1, <2>2 DEF DeviceKeys, TableInvariant
  <2>5. check = NoCheck /\ pos \in Nat
    BY <2>1, <2>2 DEF FlowInvariant, CheckInvariant, KeyInvariant
  <2>6. CheckInvariant'
    BY <2>2, <2>5 DEF CheckInvariant, NoCheck
  <2>7. FlowsDelivered'
    BY <2>2 DEF FlowInvariant, FlowsDelivered, ClaimedWhereDelivered, KeyStays, LongKey, SymmetricFlows, NoCheck
  <2>8. QED
    BY <2>3, <2>4, <2>6, <2>7 DEF FlowInvariant
<1>5. ASSUME NEW up, check_all_ports_link_status(up) PROVE FlowInvariant'
  BY <1>1, <1>5 DEF check_all_ports_link_status
<1>6. ASSUME NEW p \in ToSet(PortList), NEW f \in Flows, lazybsd_rss_check(p, f) PROVE FlowInvariant'
  BY <1>6, CheckKeepsFlows
<1>7. CASE UNCHANGED portVars
  BY <1>1, <1>7 DEF portVars
<1>8. QED
  BY <1>2, <1>3, <1>4, <1>5, <1>6, <1>7 DEF PortNext

(* For every list of ports and bonds, table size, number of lcores and     *)
(* packet, the hash that is computed in lazybsd_rss_check is that of the   *)
(* device, a connection on a port whose key stays is claimed by the one    *)
(* lcore whose queue the device chooses, and with a key that repeats both  *)
(* directions have one hash (toeplitz_hash, set_rss_table,                 *)
(* lazybsd_rss_check).  A port that was given 40 bytes of key before a     *)
(* device asked for 52 is excepted, unless symmetric_rss is on.            *)
THEOREM FlowsAreDelivered ==
    PortSpec => []FlowsDelivered
<1>1. PortInitState => FlowInvariant
  BY FlowInvariantInit
<1>2. FlowInvariant /\ [PortNext]_portVars => FlowInvariant'
  BY FlowInvariantNext
<1>3. FlowInvariant => FlowsDelivered
  BY DEF FlowInvariant
<1>4. QED
  BY <1>1, <1>2, <1>3, PTL DEF PortSpec

-----------------------------------------------------------------------------
(* Packet capture: the bytes of a record.                                  *)

LEMMA PcapConstants ==
    /\ SnapLen \in Nat /\ SaveLen \in Nat /\ NbFiles \in Nat /\ FileHdr \in Nat /\ PktHdr \in Nat /\ MaxFrames \in Nat
    /\ SnapLen > 0 /\ SaveLen > 0 /\ NbFiles > 0 /\ FileHdr > 0 /\ PktHdr > 0 /\ SaveLen > FileHdr
    /\ \A segs \in Frames : segs \in Seq(Nat)
  BY PcapAssumption

(* What was written of the packet up to base: its first bytes, as many as  *)
(* are to be kept.                                                         *)
Cut(snap, base) == IF snap <= base THEN snap ELSE base

Prefix(s, n) == Len(s) = n /\ \A k \in 1 .. n : s[k] = k

Dump(s, snap) ==
    /\ s \in [bytes : Seq(Nat), base : Nat]
    /\ Prefix(s.bytes, Cut(snap, s.base))

(* A prefix goes on with the bytes that come next. *)
LEMMA PrefixLonger ==
    ASSUME NEW s \in Seq(Nat), NEW n \in Nat, Prefix(s, n), NEW a \in Nat, NEW b \in Nat, a > 0 => b = n,
           NEW t, Longer(t, s, a, b)
    PROVE  Prefix(t, n + a)
<1>1. Len(s) = n /\ \A k \in 1 .. n : s[k] = k
  BY DEF Prefix
<1>2. /\ Len(t) = n + a
      /\ \A k \in 1 .. n : t[k] = s[k]
      /\ \A k \in 1 .. a : t[n + k] = b + k
  BY <1>1 DEF Longer
<1>3. ASSUME NEW k \in 1 .. n + a PROVE t[k] = k
  <2>1. CASE k <= n
    BY <1>1, <1>2, <2>1
  <2>2. CASE k > n
    <3>1. PICK j \in 1 .. a : k = n + j
      <4>1. k - n \in 1 .. a /\ k = n + (k - n)
        BY <2>2
      <4>2. QED
        BY <4>1
    <3>2. t[n + j] = b + j /\ b = n
      BY <1>2
    <3>3. QED
      BY <3>1, <3>2
  <2>3. QED
    BY <2>1, <2>2
<1>4. QED
  BY <1>2, <1>3 DEF Prefix

LEMMA SegmentDumps ==
    ASSUME NEW snap \in Nat, NEW len \in Nat, NEW s, Dump(s, snap)
    PROVE  Dump(Segment(s, snap, len), snap) /\ Segment(s, snap, len).base = s.base + len
<1>1. PICK bytes \in Seq(Nat), base \in Nat : bytes = s.bytes /\ base = s.base /\ Prefix(bytes, Cut(snap, base))
  BY DEF Dump
<1>2. PICK n \in Nat : n = Cut(snap, base)
  BY DEF Cut
<1>3. PICK d \in Nat : d = base + len
  OBVIOUS
<1>4. PICK a \in Nat : a = Piece(n, snap, len) /\ (a > 0 => base = n) /\ n + a = Cut(snap, d)
  <2>1. snap - n \in Int /\ len \in Int
    OBVIOUS
  <2>2. Piece(n, snap, len) = IF snap - n <= len THEN snap - n ELSE len
    BY <2>1, MinOfTwo DEF Piece
  <2>3. n = (IF snap <= base THEN snap ELSE base) /\ Cut(snap, d) = IF snap <= d THEN snap ELSE d
    BY <1>2 DEF Cut
  <2>4. PICK a : a = Piece(n, snap, len)
    OBVIOUS
  <2>5. a \in Nat /\ (a > 0 => base = n) /\ n + a = Cut(snap, d)
    <3>1. a = (IF snap - n <= len THEN snap - n ELSE len)
      BY <2>2, <2>4
    <3>2. CASE snap <= base
      BY <1>3, <2>3, <3>1, <3>2
    <3>3. CASE ~ (snap <= base)
      BY <1>3, <2>3, <3>1, <3>3
    <3>4. QED
      BY <3>2, <3>3
  <2>6. QED
    BY <2>4, <2>5
<1>5. Len(bytes) = n
  BY <1>1, <1>2 DEF Prefix
<1>6. PICK c : c = [k \in 1 .. a |-> base + k]
  OBVIOUS
<1>7. PICK t : t = Joined(bytes, c)
  OBVIOUS
<1>8. t \in Seq(Nat) /\ Longer(t, bytes, a, base)
  BY <1>6, <1>7, JoinedLonger
<1>9. Prefix(t, n + a)
  BY <1>1, <1>2, <1>4, <1>8, PrefixLonger
<1>10. Segment(s, snap, len) = [bytes |-> t, base |-> base + len]
  BY <1>1, <1>4, <1>5, <1>6, <1>7 DEF Segment, Joined
<1>11. PICK u : u = [bytes |-> t, base |-> base + len]
  OBVIOUS
<1>12. u \in [bytes : Seq(Nat), base : Nat] /\ u.bytes = t /\ u.base = base + len
  BY <1>8, <1>11
<1>13. Dump(u, snap)
  <2>1. u.base = d /\ n + a = Cut(snap, d)
    BY <1>3, <1>4, <1>12
  <2>2. QED
    BY <1>9, <1>12, <2>1 DEF Dump
<1>14. QED
  BY <1>1, <1>10, <1>11, <1>12, <1>13

(* The turns of the loop over the segments. *)
DumpTurns(turn, segs, snap, n) ==
    /\ turn[0] = [bytes |-> << >>, base |-> 0]
    /\ \A k \in 1 .. n : turn[k] = Segment(turn[k - 1], snap, segs[k])

LEMMA FirstDump ==
    ASSUME NEW snap \in Nat, NEW s, s = [bytes |-> << >>, base |-> 0]
    PROVE  Dump(s, snap) /\ s.base = 0
<1>1. PICK e \in Seq(Nat) : e = << >> /\ Len(e) = 0
  BY EmptySeq
<1>2. s = [bytes |-> e, base |-> 0]
  BY <1>1
<1>3. s \in [bytes : Seq(Nat), base : Nat] /\ s.bytes = e /\ s.base = 0
  BY <1>2
<1>4. Cut(snap, 0) = 0
  BY DEF Cut
<1>5. Prefix(e, 0)
  BY <1>1 DEF Prefix
<1>6. QED
  BY <1>3, <1>4, <1>5 DEF Dump

LEMMA DumpedTurns ==
    ASSUME NEW segs \in Seq(Nat), NEW snap \in Nat
    PROVE  \E turn : DumpTurns(turn, segs, snap, Len(segs)) /\ Dumped(segs, snap) = turn[Len(segs)].bytes
<1> DEFINE Fold(g) == [k \in 0 .. Len(segs) |-> IF k = 0 THEN [bytes |-> << >>, base |-> 0]
                                                ELSE Segment(g[k - 1], snap, segs[k])]
<1>1. \E g : g = Fold(g)
  <2>1. PICK n \in Nat : n = Len(segs) /\ \A k \in 1 .. n : segs[k] \in Nat
    BY LenProperties
  <2>2. PICK B : B = {s \in [bytes : Seq(Nat), base : Nat] : Dump(s, snap)}
    OBVIOUS
  <2>3. ASSUME NEW s \in B, NEW len \in Nat PROVE Segment(s, snap, len) \in B
    <3>1. Dump(Segment(s, snap, len), snap)
      BY <2>2, SegmentDumps
    <3>2. Segment(s, snap, len) \in [bytes : Seq(Nat), base : Nat]
      BY <3>1 DEF Dump
    <3>3. QED
      BY <2>2, <3>1, <3>2
  <2>4. PICK first : first = [bytes |-> << >>, base |-> 0]
    OBVIOUS
  <2>5. Dump(first, snap)
    BY <2>4, FirstDump
  <2>6. first \in B
    BY <2>2, <2>5 DEF Dump
  <2>7. PICK G : G = [k \in 1 .. n |-> [s \in B |-> Segment(s, snap, segs[k])]]
    OBVIOUS
  <2>8. ASSUME NEW k \in 1 .. n PROVE G[k] = [s \in B |-> Segment(s, snap, segs[k])] /\ G[k] \in [B -> B]
    <3>1. segs[k] \in Nat
      BY <2>1
    <3>2. [s \in B |-> Segment(s, snap, segs[k])] \in [B -> B]
      BY <2>3, <3>1
    <3>3. QED
      BY <2>7, <3>2
  <2>9. G \in [1 .. n -> [B -> B]]
    BY <2>7, <2>8
  <2>10. PICK f : Recurs(f, B, n, first, G)
    BY <2>6, <2>9, Recursion
  <2>11. f \in [0 .. n -> B] /\ f[0] = first /\ \A k \in 1 .. n : f[k] = G[k][f[k - 1]]
    BY <2>10 DEF Recurs
  <2>12. ASSUME NEW k \in 1 .. n PROVE f[k] = Segment(f[k - 1], snap, segs[k])
    <3>1. k - 1 \in 0 .. n
      OBVIOUS
    <3>2. f[k - 1] \in B
      BY <2>11, <3>1
    <3>3. G[k][f[k - 1]] = Segment(f[k - 1], snap, segs[k])
      BY <2>8, <3>2
    <3>4. QED
      BY <2>11, <3>3
  <2>13. ASSUME NEW k \in 0 .. n
         PROVE  f[k] = IF k = 0 THEN [bytes |-> << >>, base |-> 0] ELSE Segment(f[k - 1], snap, segs[k])
    BY <2>4, <2>11, <2>12
  <2>14. f = Fold(f)
    BY <2>1, <2>11, <2>13
  <2>15. QED
    BY <2>14
<1>2. PICK turn : turn = CHOOSE g : g = Fold(g)
  OBVIOUS
<1>3. turn = Fold(turn)
  BY <1>1, <1>2
<1>4. Dumped(segs, snap) = turn[Len(segs)].bytes
  BY <1>2, Zenon DEF Dumped
<1>5. DumpTurns(turn, segs, snap, Len(segs))
  <2>1. PICK n \in Nat : n = Len(segs)
    BY LenProperties
  <2>2. PICK h : h = turn
    OBVIOUS
  <2>3. h = [k \in 0 .. n |-> IF k = 0 THEN [bytes |-> << >>, base |-> 0] ELSE Segment(h[k - 1], snap, segs[k])]
    BY <1>3, <2>1, <2>2
  <2>4. \A k \in 0 .. n : h[k] = IF k = 0 THEN [bytes |-> << >>, base |-> 0] ELSE Segment(h[k - 1], snap, segs[k])
    BY <2>3
  <2>5. h[0] = [bytes |-> << >>, base |-> 0] /\ \A k \in 1 .. n : h[k] = Segment(h[k - 1], snap, segs[k])
    BY <2>4
  <2>6. QED
    BY <2>1, <2>2, <2>5 DEF DumpTurns
<1>6. QED
  BY <1>4, <1>5

(* The first bytes of the packet are written, as many as the record says. *)
LEMMA DumpedPrefix ==
    ASSUME NEW segs \in Seq(Nat), NEW snap \in Nat, snap <= TotalLen(segs)
    PROVE  /\ TotalLen(segs) \in Nat
           /\ Dumped(segs, snap) \in Seq(Nat) /\ Len(Dumped(segs, snap)) = snap
           /\ Dumped(segs, snap) = [k \in 1 .. snap |-> k]
<1>1. PICK n \in Nat : n = Len(segs) /\ DOMAIN segs = 1 .. n /\ \A k \in 1 .. n : segs[k] \in Nat
  BY LenProperties
<1>2. PICK turn : DumpTurns(turn, segs, snap, n) /\ Dumped(segs, snap) = turn[n].bytes
  BY <1>1, DumpedTurns
<1> DEFINE T == {k \in Nat : k <= n => Dump(turn[k], snap) /\ turn[k].base = UpTo(segs, k)}
<1>3. 0 \in T
  <2>1. PICK s : s = turn[0] /\ s = [bytes |-> << >>, base |-> 0]
    BY <1>2 DEF DumpTurns
  <2>2. Dump(s, snap) /\ s.base = 0
    BY <2>1, FirstDump
  <2>3. UpTo(segs, 0) = 0
    BY UpToStep
  <2>4. QED
    BY <2>1, <2>2, <2>3
<1>4. ASSUME NEW k \in Nat, k \in T PROVE k + 1 \in T
  <2>1. SUFFICES ASSUME k + 1 <= n PROVE Dump(turn[k + 1], snap) /\ turn[k + 1].base = UpTo(segs, k + 1)
    OBVIOUS
  <2>2. k + 1 \in 1 .. n /\ (k + 1) - 1 = k
    BY <2>1
  <2>3. PICK len \in Nat : len = segs[k + 1]
    BY <1>1, <2>2
  <2>4. PICK s : s = turn[k]
    OBVIOUS
  <2>5. Dump(s, snap) /\ s.base = UpTo(segs, k)
    BY <1>4, <2>1, <2>4
  <2>6. turn[k + 1] = Segment(s, snap, len)
    BY <1>2, <2>2, <2>3, <2>4 DEF DumpTurns
  <2>7. Dump(Segment(s, snap, len), snap) /\ Segment(s, snap, len).base = s.base + len
    BY <2>5, SegmentDumps
  <2>8. \A i \in 1 .. k + 1 : segs[i] \in Int
    BY <1>1, <2>1
  <2>9. UpTo(segs, k + 1) = UpTo(segs, k) + segs[k + 1]
    <3>1. k + 1 \in Nat /\ k + 1 > 0
      OBVIOUS
    <3>2. UpTo(segs, k + 1) = UpTo(segs, (k + 1) - 1) + segs[k + 1]
      BY <2>8, <3>1, UpToStep
    <3>3. QED
      BY <2>2, <3>2
  <2>10. QED
    BY <2>3, <2>5, <2>6, <2>7, <2>9
<1> HIDE DEF T
<1>5. n \in T
  BY <1>3, <1>4, SetInduction
<1>6. PICK s : s = turn[n] /\ Dump(s, snap) /\ s.base = UpTo(segs, n)
  BY <1>5 DEF T
<1>7. PICK b \in Nat, bytes \in Seq(Nat) : b = s.base /\ bytes = s.bytes /\ Prefix(bytes, Cut(snap, b))
  BY <1>6 DEF Dump
<1>8. TotalLen(segs) = b
  BY <1>1, <1>6, <1>7, Zenon DEF TotalLen, SumFunction, UpTo
<1>9. Cut(snap, b) = snap
  BY <1>8 DEF Cut
<1>10. Len(bytes) = snap /\ \A k \in 1 .. snap : bytes[k] = k
  BY <1>7, <1>9 DEF Prefix
<1>11. bytes = [k \in 1 .. snap |-> k]
  <2>1. DOMAIN bytes = 1 .. snap /\ bytes = [k \in 1 .. snap |-> bytes[k]]
    BY <1>10, LenProperties
  <2>2. QED
    BY <1>10, <2>1
<1>12. QED
  BY <1>2, <1>6, <1>7, <1>8, <1>10, <1>11

-----------------------------------------------------------------------------
(* The files that are used in turn.                                        *)

Place(q, i) == (q + i) % NbFiles

LEMMA PlaceAt ==
    ASSUME NEW q \in 0 .. NbFiles - 1, NEW i \in 1 .. NbFiles, NEW w \in Int, w = q + i
    PROVE  /\ Place(q, i) = IF w < NbFiles THEN w ELSE w - NbFiles
           /\ Place(q, i) \in 0 .. NbFiles - 1
<1>1. PICK n \in Nat : n = NbFiles /\ n > 0
  BY PcapConstants
<1>2. Place(q, i) = w % n
  BY <1>1 DEF Place
<1>3. CASE w < n
  <2>1. w = n * 0 + w /\ w \in 0 .. n - 1
    BY <1>1, <1>3
  <2>2. w % n = w
    BY <1>1, <2>1, DivModUnique
  <2>3. QED
    BY <1>1, <1>2, <1>3, <2>1, <2>2
<1>4. CASE ~ (w < n)
  <2>1. w = n * 1 + (w - n) /\ w - n \in 0 .. n - 1
    BY <1>1, <1>4
  <2>2. w % n = w - n
    BY <1>1, <2>1, DivModUnique
  <2>3. QED
    BY <1>1, <1>2, <1>4, <2>1, <2>2
<1>5. QED
  BY <1>3, <1>4

(* The last place is that of the file itself, the others are not. *)
LEMMA PlacesApart ==
    ASSUME NEW q \in 0 .. NbFiles - 1
    PROVE  /\ Place(q, NbFiles) = q
           /\ \A i \in 1 .. NbFiles - 1 : Place(q, i) # q /\ Place(q, i) \in 0 .. NbFiles - 1
<1>1. PICK n \in Nat : n = NbFiles /\ n > 0
  BY PcapConstants
<1>2. Place(q, n) = q
  <2>1. PICK w \in Int : w = q + n
    BY <1>1
  <2>2. n \in 1 .. n /\ ~ (w < n) /\ w - n = q
    BY <1>1, <2>1
  <2>3. Place(q, n) = IF w < n THEN w ELSE w - n
    BY <1>1, <2>1, <2>2, PlaceAt
  <2>4. QED
    BY <2>2, <2>3
<1>3. ASSUME NEW i \in 1 .. n - 1 PROVE Place(q, i) # q /\ Place(q, i) \in 0 .. n - 1
  <2>1. PICK w \in Int : w = q + i
    BY <1>1
  <2>2. i \in 1 .. n
    BY <1>1
  <2>3. Place(q, i) = (IF w < n THEN w ELSE w - n) /\ Place(q, i) \in 0 .. n - 1
    BY <1>1, <2>1, <2>2, PlaceAt
  <2>4. w # q /\ w - n # q
    BY <1>1, <2>1
  <2>5. QED
    BY <2>3, <2>4
<1>4. QED
  BY <1>1, <1>2, <1>3

(* The records of a file follow those of the file before it, base[i] being *)
(* the packets before the file that is i places on.                        *)
Chain(R, q, c, base) ==
    /\ \A i \in 1 .. NbFiles : base[i] \in Nat
    /\ base[NbFiles] + Len(R[q]) = c
    /\ \A i \in 1 .. NbFiles - 1 : base[i] + Len(R[Place(q, i)]) = base[i + 1]
    /\ \A i \in 1 .. NbFiles : \A j \in 1 .. Len(R[Place(q, i)]) : R[Place(q, i)][j].no = base[i] + j

(* A packet is put at the end of the file that is written. *)
LEMMA ChainLonger ==
    ASSUME NEW A, NEW q \in 0 .. NbFiles - 1, NEW c \in Nat, NEW base,
           NEW R \in [0 .. NbFiles - 1 -> Seq(A)], Chain(R, q, c, base),
           NEW Q \in [0 .. NbFiles - 1 -> Seq(A)], NEW rec \in A, rec.no = c + 1,
           Q[q] = Append(R[q], rec), \A s \in 0 .. NbFiles - 1 : s # q => Q[s] = R[s]
    PROVE  Chain(Q, q, c + 1, base)
<1>1. PICK n \in Nat : n = NbFiles /\ n > 0
  BY PcapConstants
<1>2. R[q] \in Seq(A) /\ Len(R[q]) \in Nat
  BY LenProperties
<1>3. /\ Len(Q[q]) = Len(R[q]) + 1 /\ Q[q][Len(R[q]) + 1] = rec
      /\ \A k \in 1 .. Len(R[q]) : Q[q][k] = R[q][k]
  <2>1. PICK s \in Seq(A) : s = R[q]
    BY <1>2
  <2>2. Len(Append(s, rec)) = Len(s) + 1 /\ Append(s, rec)[Len(s) + 1] = rec /\ \A k \in 1 .. Len(s) : Append(s, rec)[k] = s[k]
    OBVIOUS
  <2>3. QED
    BY <2>1, <2>2
<1>4. Place(q, n) = q /\ \A i \in 1 .. n - 1 : Place(q, i) # q /\ Place(q, i) \in 0 .. n - 1
  BY <1>1, PlacesApart
<1>5. /\ \A i \in 1 .. n : base[i] \in Nat
      /\ base[n] + Len(R[q]) = c
      /\ \A i \in 1 .. n - 1 : base[i] + Len(R[Place(q, i)]) = base[i + 1]
      /\ \A i \in 1 .. n : \A j \in 1 .. Len(R[Place(q, i)]) : R[Place(q, i)][j].no = base[i] + j
  BY <1>1 DEF Chain
<1>6. \A i \in 1 .. n - 1 : Q[Place(q, i)] = R[Place(q, i)]
  BY <1>1, <1>4
<1>7. n \in 1 .. n /\ base[n] \in Nat
  BY <1>1, <1>5
<1>8. PICK x \in Nat, y \in Nat : x = base[n] /\ y = Len(R[q]) /\ x + (y + 1) = c + 1
  BY <1>2, <1>5, <1>7
<1>9. base[n] + Len(Q[q]) = c + 1
  BY <1>3, <1>8
<1>10. ASSUME NEW i \in 1 .. n, NEW j \in 1 .. Len(Q[Place(q, i)]) PROVE Q[Place(q, i)][j].no = base[i] + j
  <2>1. CASE i < n
    <3>1. i \in 1 .. n - 1
      BY <2>1
    <3>2. Q[Place(q, i)] = R[Place(q, i)]
      BY <1>6, <3>1
    <3>3. QED
      BY <1>5, <1>10, <3>2
  <2>2. CASE i = n
    <3>1. Place(q, i) = q /\ j \in 1 .. Len(R[q]) + 1
      BY <1>3, <1>4, <1>10, <2>2
    <3>2. CASE j \in 1 .. Len(R[q])
      <4>1. R[q][j].no = base[n] + j
        BY <1>4, <1>5, <1>7, <3>2
      <4>2. QED
        BY <1>3, <2>2, <3>1, <3>2, <4>1
    <3>3. CASE j = Len(R[q]) + 1
      <4>1. Q[q][j].no = c + 1
        BY <1>3, <3>3
      <4>2. c + 1 = base[n] + j
        <5>1. j = y + 1 /\ base[n] = x
          BY <1>8, <3>3
        <5>2. QED
          BY <1>8, <5>1
      <4>3. QED
        BY <2>2, <3>1, <4>1, <4>2
    <3>4. QED
      BY <1>2, <3>1, <3>2, <3>3
  <2>3. QED
    BY <1>1, <2>1, <2>2
<1>11. \A i \in 1 .. n - 1 : base[i] + Len(Q[Place(q, i)]) = base[i + 1]
  BY <1>5, <1>6
<1>12. QED
  BY <1>1, <1>5, <1>9, <1>10, <1>11 DEF Chain

Emptied(Q, R, p) == Q[p] = << >> /\ \A s \in 0 .. NbFiles - 1 : s # p => Q[s] = R[s]

(* The next file is emptied and becomes the one that is written. *)
LEMMA ChainMoved ==
    ASSUME NEW A, NEW q \in 0 .. NbFiles - 1, NEW c \in Nat, NEW base,
           NEW R \in [0 .. NbFiles - 1 -> Seq(A)], Chain(R, q, c, base),
           NEW Q \in [0 .. NbFiles - 1 -> Seq(A)], NEW p, p = NextSeq(q),
           Emptied(Q, R, p)
    PROVE  \E b : Chain(Q, p, c, b)
<1>1. PICK n \in Nat : n = NbFiles /\ n > 0
  BY PcapConstants
<1>2. p \in 0 .. n - 1 /\ p = IF q + 1 >= n THEN 0 ELSE q + 1
  BY <1>1 DEF NextSeq
<1>3. Place(p, n) = p /\ \A i \in 1 .. n - 1 : Place(p, i) # p /\ Place(p, i) \in 0 .. n - 1
  BY <1>1, <1>2, PlacesApart
<1>4. ASSUME NEW i \in 1 .. n - 1 PROVE Place(p, i) = Place(q, i + 1) /\ i + 1 \in 1 .. n
  <2>1. i + 1 \in 1 .. n /\ i \in 1 .. n
    BY <1>1
  <2>2. PICK w \in Int : w = q + (i + 1)
    BY <1>1
  <2>3. PICK v \in Int : v = p + i
    BY <1>1, <1>2
  <2>4. Place(q, i + 1) = IF w < n THEN w ELSE w - n
    BY <1>1, <2>1, <2>2, PlaceAt
  <2>5. Place(p, i) = IF v < n THEN v ELSE v - n
    BY <1>1, <1>2, <2>1, <2>3, PlaceAt
  <2>6. CASE q + 1 >= n
    <3>1. p = 0 /\ q = n - 1
      BY <1>1, <1>2, <2>6
    <3>2. v = i /\ w = n + i /\ i < n
      BY <1>1, <2>2, <2>3, <3>1
    <3>3. QED
      BY <2>1, <2>4, <2>5, <3>2
  <2>7. CASE ~ (q + 1 >= n)
    <3>1. p = q + 1
      BY <1>2, <2>7
    <3>2. v = w
      BY <1>1, <2>2, <2>3, <3>1
    <3>3. QED
      BY <2>1, <2>4, <2>5, <3>2
  <2>8. QED
    BY <2>6, <2>7
<1>5. Place(q, n) = q
  BY <1>1, PlacesApart
<1>6. /\ \A i \in 1 .. n : base[i] \in Nat
      /\ base[n] + Len(R[q]) = c
      /\ \A i \in 1 .. n - 1 : base[i] + Len(R[Place(q, i)]) = base[i + 1]
      /\ \A i \in 1 .. n : \A j \in 1 .. Len(R[Place(q, i)]) : R[Place(q, i)][j].no = base[i] + j
  BY <1>1 DEF Chain
<1>7. \A i \in 1 .. n - 1 : Q[Place(p, i)] = R[Place(q, i + 1)]
  BY <1>1, <1>3, <1>4 DEF Emptied
<1>8. PICK b : b = [i \in 1 .. n |-> IF i < n THEN base[i + 1] ELSE c]
  OBVIOUS
<1>9. /\ \A i \in 1 .. n - 1 : b[i] = base[i + 1]
      /\ b[n] = c
  BY <1>1, <1>8
<1>10. Len(Q[p]) = 0 /\ Len(Q[Place(p, n)]) = 0
  BY <1>3 DEF Emptied
<1>11. \A i \in 1 .. n : b[i] \in Nat
  BY <1>1, <1>4, <1>6, <1>8
<1>12. b[n] + Len(Q[p]) = c
  BY <1>9, <1>10
<1>13. ASSUME NEW i \in 1 .. n - 1 PROVE b[i] + Len(Q[Place(p, i)]) = b[i + 1]
  <2>1. b[i] = base[i + 1] /\ Q[Place(p, i)] = R[Place(q, i + 1)]
    BY <1>7, <1>9
  <2>2. CASE i + 1 < n
    <3>1. i + 1 \in 1 .. n - 1
      BY <2>2
    <3>2. base[i + 1] + Len(R[Place(q, i + 1)]) = base[(i + 1) + 1] /\ b[i + 1] = base[(i + 1) + 1]
      BY <1>6, <1>9, <3>1
    <3>3. QED
      BY <2>1, <3>2
  <2>3. CASE i + 1 = n
    BY <1>5, <1>6, <1>9, <2>1, <2>3
  <2>4. QED
    BY <1>1, <2>2, <2>3
<1>14. ASSUME NEW i \in 1 .. n, NEW j \in 1 .. Len(Q[Place(p, i)]) PROVE Q[Place(p, i)][j].no = b[i] + j
  <2>1. i # n
    <3>1. SUFFICES ASSUME i = n PROVE FALSE
      OBVIOUS
    <3>2. j \in 1 .. 0
      BY <1>10, <1>14, <3>1
    <3>3. QED
      BY <3>2
  <2>2. i \in 1 .. n - 1
    BY <2>1
  <2>3. Q[Place(p, i)] = R[Place(q, i + 1)] /\ b[i] = base[i + 1] /\ i + 1 \in 1 .. n
    BY <1>4, <1>7, <1>9, <2>2
  <2>4. QED
    BY <1>6, <1>14, <2>3
<1>15. Chain(Q, p, c, b)
  BY <1>1, <1>11, <1>12, <1>13, <1>14 DEF Chain
<1>16. QED
  BY <1>15

(* Before the first packet. *)
LEMMA ChainEmpty ==
    ASSUME NEW R, \A s \in 0 .. NbFiles - 1 : R[s] = << >>
    PROVE  \E b : Chain(R, 0, 0, b)
<1>1. PICK n \in Nat : n = NbFiles /\ n > 0
  BY PcapConstants
<1>2. PICK b : b = [i \in 1 .. n |-> 0]
  OBVIOUS
<1>3. 0 \in 0 .. n - 1 /\ \A i \in 1 .. n : Place(0, i) \in 0 .. n - 1
  <2>1. 0 \in 0 .. n - 1
    BY <1>1
  <2>2. Place(0, n) = 0 /\ \A i \in 1 .. n - 1 : Place(0, i) \in 0 .. n - 1
    BY <1>1, <2>1, PlacesApart
  <2>3. QED
    BY <1>1, <2>1, <2>2
<1>4. Len(R[0]) = 0 /\ \A i \in 1 .. n : Len(R[Place(0, i)]) = 0
  BY <1>1, <1>3
<1>5. Chain(R, 0, 0, b)
  BY <1>1, <1>2, <1>4 DEF Chain
<1>6. QED
  BY <1>5

-----------------------------------------------------------------------------
(* The records on disk, one file after the other.                          *)

(* They are the last packets up to c. *)
Ends(s, c) == \A k \in 1 .. Len(s) : s[k].no = c - Len(s) + k

LEMMA EndsJoined ==
    ASSUME NEW A, NEW a \in Seq(A), NEW b \in Seq(A), NEW c \in Int, Ends(a, c),
           \A k \in 1 .. Len(b) : b[k].no = c + k
    PROVE  Ends(Joined(a, b), c + Len(b))
<1>1. PICK t : t = Joined(a, b)
  OBVIOUS
<1>2. PICK la \in Nat, lb \in Nat : la = Len(a) /\ lb = Len(b)
  BY LenProperties
<1>3. Len(t) = la + lb /\ \A k \in 1 .. la + lb : t[k] = IF k <= la THEN a[k] ELSE b[k - la]
  BY <1>1, <1>2, JoinedElements
<1>4. ASSUME NEW k \in 1 .. la + lb PROVE t[k].no = (c + lb) - (la + lb) + k
  <2>1. CASE k <= la
    <3>1. t[k] = a[k] /\ k \in 1 .. la
      BY <1>3, <2>1
    <3>2. a[k].no = c - la + k
      BY <1>2, <3>1 DEF Ends
    <3>3. QED
      BY <3>1, <3>2
  <2>2. CASE ~ (k <= la)
    <3>1. t[k] = b[k - la] /\ k - la \in 1 .. lb
      BY <1>3, <2>2
    <3>2. b[k - la].no = c + (k - la)
      BY <1>2, <3>1
    <3>3. QED
      BY <3>1, <3>2
  <2>3. QED
    BY <2>1, <2>2
<1>5. QED
  BY <1>1, <1>2, <1>3, <1>4 DEF Ends

LEMMA ChainFlat ==
    ASSUME NEW A, NEW ss \in Seq(Seq(A)), NEW n \in Nat, n = Len(ss), n > 0, NEW base,
           \A i \in 1 .. n : base[i] \in Nat,
           \A i \in 1 .. n - 1 : base[i] + Len(ss[i]) = base[i + 1],
           \A i \in 1 .. n : \A j \in 1 .. Len(ss[i]) : ss[i][j].no = base[i] + j
    PROVE  FlattenSeq(ss) \in Seq(A) /\ Ends(FlattenSeq(ss), base[n] + Len(ss[n]))
<1>1. PICK fl : Flattens(fl, ss, A) /\ FlattenSeq(ss) = fl[n]
  BY FlattenSteps
<1>2. /\ fl \in [0 .. n -> Seq(A)]
      /\ fl[0] = << >>
      /\ \A m \in 1 .. n : fl[m] = Joined(fl[m - 1], ss[m])
  BY <1>1 DEF Flattens
<1>3. \A m \in 1 .. n : ss[m] \in Seq(A) /\ Len(ss[m]) \in Nat
  BY ElementOfSeq, LenProperties
<1> DEFINE From(m) == IF m = 0 THEN base[1] ELSE base[m] + Len(ss[m])
           T == {m \in Nat : m <= n => Ends(fl[m], From(m))}
<1>4. 0 \in T
  <2>1. Len(fl[0]) = 0
    BY <1>2
  <2>2. Ends(fl[0], From(0))
    BY <2>1 DEF Ends
  <2>3. QED
    BY <2>2
<1>5. ASSUME NEW m \in Nat, m \in T PROVE m + 1 \in T
  <2>1. SUFFICES ASSUME m + 1 <= n PROVE Ends(fl[m + 1], From(m + 1))
    OBVIOUS
  <2>2. m + 1 \in 1 .. n /\ m \in 0 .. n /\ (m + 1) - 1 = m
    BY <2>1
  <2>3. PICK c \in Nat : c = base[m + 1]
    BY <2>2
  <2>4. From(m) = c
    <3>1. CASE m = 0
      BY <2>3, <3>1
    <3>2. CASE m # 0
      <4>1. m \in 1 .. n - 1
        BY <2>1, <3>2
      <4>2. base[m] + Len(ss[m]) = base[m + 1]
        BY <4>1
      <4>3. QED
        BY <2>3, <3>2, <4>2
    <3>3. QED
      BY <3>1, <3>2
  <2>5. PICK a \in Seq(A), b \in Seq(A) : a = fl[m] /\ b = ss[m + 1]
    BY <1>2, <1>3, <2>2
  <2>6. Ends(a, c)
    BY <1>5, <2>1, <2>4, <2>5
  <2>7. \A k \in 1 .. Len(b) : b[k].no = c + k
    BY <2>2, <2>3, <2>5
  <2>8. c \in Int
    OBVIOUS
  <2>9. Ends(Joined(a, b), c + Len(b))
    BY <2>6, <2>7, <2>8, EndsJoined
  <2>10. fl[m + 1] = Joined(a, b)
    BY <1>2, <2>2, <2>5
  <2>11. From(m + 1) = c + Len(b)
    BY <2>3, <2>5
  <2>12. QED
    BY <2>9, <2>10, <2>11
<1> HIDE DEF T
<1>6. n \in T
  BY <1>4, <1>5, SetInduction
<1>7. Ends(fl[n], base[n] + Len(ss[n])) /\ fl[n] \in Seq(A)
  BY <1>2, <1>6 DEF T
<1>8. QED
  BY <1>1, <1>7

-----------------------------------------------------------------------------
(* The state of the capture.                                               *)

(* A record announces what it holds: the first bytes of the packet. *)
Records ==
    {r \in [no : Nat, caplen : Nat, len : Nat, bytes : Seq(Nat)] :
        r.bytes = [k \in 1 .. r.caplen |-> k] /\ r.caplen = Min({r.len, SnapLen})}

Files == {<< >>} \cup {<< f >> : f \in [snaplen : Nat, records : Seq(Records)]}

RecordsOf(f) == IF f = << >> THEN << >> ELSE f[1].records

Held(fs) == [s \in 0 .. NbFiles - 1 |-> RecordsOf(fs[s])]

(* The lengths of the records of a file. *)
RecordLens(records) == [i \in 1 .. Len(records) |-> PktHdr + Len(records[i].bytes)]

LEMMA LengthIs ==
    ASSUME NEW s \in Seq(Records)
    PROVE  /\ FileLength(s) = FileHdr + UpTo(RecordLens(s), Len(s))
           /\ Len(s) \in Nat /\ \A i \in 1 .. Len(s) : s[i] \in Records /\ RecordLens(s)[i] \in Int
<1>1. DOMAIN RecordLens(s) = 1 .. Len(s)
  BY DEF RecordLens
<1>2. FileLength(s) = FileHdr + SumFunctionOnSet(RecordLens(s), DOMAIN RecordLens(s))
  BY Zenon DEF FileLength, TotalLen, SumFunction, RecordLens
<1>3. Len(s) \in Nat
  BY LenProperties
<1>4. ASSUME NEW i \in 1 .. Len(s) PROVE s[i] \in Records /\ RecordLens(s)[i] \in Int
  <2>1. s[i] \in Records
    BY ElementOfSeq
  <2>2. s[i].bytes \in Seq(Nat)
    BY <2>1 DEF Records
  <2>3. Len(s[i].bytes) \in Nat
    BY <2>2, LenProperties
  <2>4. RecordLens(s)[i] = PktHdr + Len(s[i].bytes)
    BY DEF RecordLens
  <2>5. QED
    BY <2>1, <2>3, <2>4, PcapConstants
<1>5. QED
  BY <1>1, <1>2, <1>3, <1>4 DEF UpTo

LEMMA LengthOfNone == FileLength(<< >>) = FileHdr
<1>1. PICK s \in Seq(Records) : s = << >> /\ Len(s) = 0
  BY EmptySeq
<1>2. FileLength(s) = FileHdr + UpTo(RecordLens(s), 0)
  BY <1>1, LengthIs
<1>3. UpTo(RecordLens(s), 0) = 0
  BY UpToStep
<1>4. QED
  BY <1>1, <1>2, <1>3, PcapConstants

LEMMA LengthOfLonger ==
    ASSUME NEW s \in Seq(Records), NEW r \in Records, NEW t, t = Append(s, r)
    PROVE  FileLength(t) = FileLength(s) + PktHdr + Len(r.bytes)
<1>1. PICK n \in Nat : n = Len(s) /\ \A i \in 1 .. n : s[i] \in Records /\ RecordLens(s)[i] \in Int
  BY LengthIs
<1>2. t \in Seq(Records) /\ Len(t) = n + 1 /\ t[n + 1] = r /\ \A i \in 1 .. n : t[i] = s[i]
  BY <1>1
<1>3. \A i \in 1 .. n + 1 : RecordLens(t)[i] \in Int
  BY <1>2, LengthIs
<1>4. PICK f, g : f = RecordLens(s) /\ g = RecordLens(t)
  OBVIOUS
<1>5. ASSUME NEW i \in 1 .. n PROVE g[i] = f[i]
  <2>1. i \in 1 .. n + 1
    OBVIOUS
  <2>2. RecordLens(t)[i] = PktHdr + Len(t[i].bytes)
    BY <1>2, <2>1 DEF RecordLens
  <2>3. RecordLens(s)[i] = PktHdr + Len(s[i].bytes)
    BY <1>1 DEF RecordLens
  <2>4. t[i] = s[i]
    BY <1>2
  <2>5. QED
    BY <1>4, <2>2, <2>3, <2>4
<1>6. g[n + 1] = PktHdr + Len(r.bytes)
  <2>1. n + 1 \in 1 .. n + 1
    OBVIOUS
  <2>2. RecordLens(t)[n + 1] = PktHdr + Len(t[n + 1].bytes)
    BY <1>2, <2>1 DEF RecordLens
  <2>3. QED
    BY <1>2, <1>4, <2>2
<1>7. \A i \in 1 .. n : f[i] \in Int
  BY <1>1, <1>4
<1>8. \A i \in 1 .. n + 1 : g[i] \in Int
  BY <1>3, <1>4
<1>9. UpTo(f, n) = UpTo(g, n)
  BY <1>5, <1>7, UpToEqual
<1>10. UpTo(g, n) \in Int /\ UpTo(g, n + 1) = UpTo(g, n) + g[n + 1]
  <2>1. n + 1 \in Nat /\ n + 1 > 0 /\ (n + 1) - 1 = n
    OBVIOUS
  <2>2. UpTo(g, (n + 1) - 1) \in Int /\ UpTo(g, n + 1) = UpTo(g, (n + 1) - 1) + g[n + 1]
    BY <1>8, <2>1, UpToStep
  <2>3. QED
    BY <2>1, <2>2
<1>11. FileLength(s) = FileHdr + UpTo(f, n) /\ FileLength(t) = FileHdr + UpTo(g, n + 1)
  BY <1>1, <1>2, <1>4, LengthIs
<1>12. Len(r.bytes) \in Nat
  <2>1. r.bytes \in Seq(Nat)
    BY DEF Records
  <2>2. QED
    BY <2>1, LenProperties
<1>13. PICK x \in Int, h \in Nat, k \in Nat, l \in Nat :
         x = UpTo(g, n) /\ h = FileHdr /\ k = PktHdr /\ l = Len(r.bytes)
  BY <1>10, <1>12, PcapConstants
<1>14. FileLength(s) = h + x /\ FileLength(t) = h + (x + (k + l))
  BY <1>6, <1>9, <1>10, <1>11, <1>13
<1>15. h + (x + (k + l)) = (h + x) + k + l
  OBVIOUS
<1>16. QED
  BY <1>13, <1>14, <1>15

LEMMA Appended ==
    ASSUME NEW A, NEW s \in Seq(A), NEW r \in A
    PROVE  /\ Append(s, r) \in Seq(A) /\ Len(s) \in Nat /\ Len(Append(s, r)) = Len(s) + 1
           /\ \A i \in 1 .. Len(s) : Append(s, r)[i] = s[i]
  OBVIOUS

LEMMA FrontOfLonger ==
    ASSUME NEW A, NEW s \in Seq(A), NEW r \in A
    PROVE  Front(Append(s, r)) = s
<1>1. PICK n \in Nat : n = Len(s) /\ DOMAIN s = 1 .. n /\ s = [i \in 1 .. n |-> s[i]]
  BY LenProperties
<1>2. PICK t \in Seq(A) : t = Append(s, r) /\ Len(t) = n + 1 /\ \A i \in 1 .. n : t[i] = s[i]
  BY <1>1, Appended
<1>3. Front(t) = SubSeq(t, 1, n)
  BY <1>2 DEF Front
<1>4. SubSeq(t, 1, n) = [i \in 1 .. n |-> t[i]]
  BY <1>2
<1>5. QED
  BY <1>1, <1>2, <1>3, <1>4

-----------------------------------------------------------------------------
(* What is on disk, q being the file that is written and c the packets     *)
(* captured so far.                                                        *)
Kept(fs, q, c) ==
    /\ fs \in [0 .. NbFiles - 1 -> Files] /\ q \in 0 .. NbFiles - 1 /\ c \in Nat
    /\ fs[q] # << >>
    /\ \E base : Chain(Held(fs), q, c, base)

(* A record is written to file q; file p is opened. *)
Writes(gs, fs, q, rec) == gs = [fs EXCEPT ![q] = Recorded(fs[q], rec)]

Opens(gs, fs, p, n) == gs = [fs EXCEPT ![p] = << [snaplen |-> n, records |-> << >>] >>]

LEMMA FileKinds ==
    ASSUME NEW f \in Files
    PROVE  /\ RecordsOf(f) \in Seq(Records)
           /\ f # << >> => \E g \in [snaplen : Nat, records : Seq(Records)] :
                              f = << g >> /\ f[1] = g /\ RecordsOf(f) = g.records
<1>1. CASE f = << >>
  <2>1. << >> \in Seq(Records)
    BY EmptySeq
  <2>2. QED
    BY <1>1, <2>1 DEF RecordsOf
<1>2. CASE f # << >>
  <2>1. PICK g \in [snaplen : Nat, records : Seq(Records)] : f = << g >>
    BY <1>2 DEF Files
  <2>2. f[1] = g
    BY <2>1
  <2>3. RecordsOf(f) = g.records /\ g.records \in Seq(Records)
    BY <1>2, <2>2 DEF RecordsOf
  <2>4. QED
    BY <2>1, <2>2, <2>3
<1>3. QED
  BY <1>1, <1>2

LEMMA FileWith ==
    ASSUME NEW n \in Nat, NEW s \in Seq(Records), NEW f, f = << [snaplen |-> n, records |-> s] >>
    PROVE  f \in Files /\ f # << >> /\ f[1].records = s /\ RecordsOf(f) = s
<1>1. PICK g : g = [snaplen |-> n, records |-> s]
  OBVIOUS
<1>2. g \in [snaplen : Nat, records : Seq(Records)] /\ g.records = s
  BY <1>1
<1>3. f = << g >> /\ f[1] = g /\ f # << >>
  BY <1>1
<1>4. f \in Files
  BY <1>2, <1>3 DEF Files
<1>5. QED
  BY <1>2, <1>3, <1>4 DEF RecordsOf

LEMMA HeldTyped ==
    ASSUME NEW fs \in [0 .. NbFiles - 1 -> Files]
    PROVE  /\ Held(fs) \in [0 .. NbFiles - 1 -> Seq(Records)]
           /\ \A s \in 0 .. NbFiles - 1 : fs[s] \in Files /\ Held(fs)[s] = RecordsOf(fs[s])
<1>1. \A s \in 0 .. NbFiles - 1 : RecordsOf(fs[s]) \in Seq(Records)
  BY FileKinds
<1>2. QED
  BY <1>1 DEF Held

LEMMA RecordedFile ==
    ASSUME NEW file, NEW f \in [snaplen : Nat, records : Seq(Records)], file[1] = f, NEW rec \in Records
    PROVE  \E n \in Nat, t \in Seq(Records) :
              t = Append(f.records, rec) /\ Recorded(file, rec) = << [snaplen |-> n, records |-> t] >>
<1>1. PICK n \in Nat, r \in Seq(Records) : f = [snaplen |-> n, records |-> r] /\ r = f.records
  OBVIOUS
<1>2. PICK t \in Seq(Records) : t = Append(r, rec)
  BY Appended
<1>3. [f EXCEPT !.records = t] = [snaplen |-> n, records |-> t]
  BY <1>1
<1>4. Recorded(file, rec) = << [f EXCEPT !.records = t] >>
  BY <1>1, <1>2 DEF Recorded
<1>5. QED
  BY <1>1, <1>2, <1>3, <1>4

(* A record is written. *)
LEMMA KeptWritten ==
    ASSUME NEW fs, NEW q, NEW c, Kept(fs, q, c), NEW rec \in Records, rec.no = c + 1,
           NEW gs, Writes(gs, fs, q, rec)
    PROVE  /\ Kept(gs, q, c + 1)
           /\ RecordsOf(fs[q]) \in Seq(Records) /\ RecordsOf(gs[q]) = Append(RecordsOf(fs[q]), rec)
           /\ \A s \in 0 .. NbFiles - 1 : s # q => gs[s] = fs[s]
<1>1. fs \in [0 .. NbFiles - 1 -> Files] /\ q \in 0 .. NbFiles - 1 /\ c \in Nat /\ fs[q] # << >>
  BY DEF Kept
<1>2. PICK base : Chain(Held(fs), q, c, base)
  BY DEF Kept
<1>3. PICK f \in [snaplen : Nat, records : Seq(Records)] : fs[q][1] = f /\ RecordsOf(fs[q]) = f.records
  BY <1>1, FileKinds
<1>4. PICK r \in Seq(Records) : r = f.records
  OBVIOUS
<1>5. PICK n \in Nat, t \in Seq(Records) :
         t = Append(r, rec) /\ Recorded(fs[q], rec) = << [snaplen |-> n, records |-> t] >>
  BY <1>3, <1>4, RecordedFile
<1>6. PICK g : g = Recorded(fs[q], rec)
  OBVIOUS
<1>7. g = << [snaplen |-> n, records |-> t] >>
  BY <1>5, <1>6
<1>8. g \in Files /\ g # << >> /\ RecordsOf(g) = t
  BY <1>7, FileWith
<1>9. gs = [fs EXCEPT ![q] = g]
  BY <1>6 DEF Writes
<1>10. /\ gs \in [0 .. NbFiles - 1 -> Files] /\ gs[q] = g
       /\ \A s \in 0 .. NbFiles - 1 : s # q => gs[s] = fs[s]
  BY <1>1, <1>8, <1>9
<1>11. PICK R \in [0 .. NbFiles - 1 -> Seq(Records)], Q \in [0 .. NbFiles - 1 -> Seq(Records)] :
          /\ R = Held(fs) /\ Q = Held(gs)
          /\ \A s \in 0 .. NbFiles - 1 : R[s] = RecordsOf(fs[s]) /\ Q[s] = RecordsOf(gs[s])
  <2>1. /\ Held(fs) \in [0 .. NbFiles - 1 -> Seq(Records)]
        /\ \A s \in 0 .. NbFiles - 1 : Held(fs)[s] = RecordsOf(fs[s])
    BY <1>1, HeldTyped
  <2>2. /\ Held(gs) \in [0 .. NbFiles - 1 -> Seq(Records)]
        /\ \A s \in 0 .. NbFiles - 1 : Held(gs)[s] = RecordsOf(gs[s])
    BY <1>10, HeldTyped
  <2>3. QED
    BY <2>1, <2>2
<1>12. Q[q] = Append(R[q], rec) /\ \A s \in 0 .. NbFiles - 1 : s # q => Q[s] = R[s]
  BY <1>1, <1>3, <1>4, <1>5, <1>8, <1>10, <1>11
<1>13. Chain(R, q, c, base)
  BY <1>2, <1>11
<1>14. Chain(Q, q, c + 1, base)
  BY <1>1, <1>12, <1>13, ChainLonger
<1>15. Kept(gs, q, c + 1)
  <2>1. gs[q] # << >> /\ c + 1 \in Nat
    BY <1>1, <1>8, <1>10
  <2>2. \E b : Chain(Held(gs), q, c + 1, b)
    BY <1>11, <1>14
  <2>3. QED
    BY <1>1, <1>10, <2>1, <2>2 DEF Kept
<1>16. QED
  BY <1>3, <1>4, <1>5, <1>8, <1>10, <1>15

(* The next file is opened. *)
LEMMA KeptMoved ==
    ASSUME NEW fs, NEW q, NEW c, Kept(fs, q, c), NEW p, p = NextSeq(q), NEW n \in Nat,
           NEW gs, Opens(gs, fs, p, n)
    PROVE  /\ Kept(gs, p, c)
           /\ RecordsOf(gs[p]) = << >>
           /\ \A s \in 0 .. NbFiles - 1 : s # p => gs[s] = fs[s]
<1>1. fs \in [0 .. NbFiles - 1 -> Files] /\ q \in 0 .. NbFiles - 1 /\ c \in Nat
  BY DEF Kept
<1>2. PICK base : Chain(Held(fs), q, c, base)
  BY DEF Kept
<1>3. p \in 0 .. NbFiles - 1
  BY <1>1, PcapConstants DEF NextSeq
<1>4. PICK e \in Seq(Records) : e = << >>
  BY EmptySeq
<1>5. PICK g : g = << [snaplen |-> n, records |-> e] >>
  OBVIOUS
<1>6. g \in Files /\ g # << >> /\ RecordsOf(g) = e
  BY <1>5, FileWith
<1>7. gs = [fs EXCEPT ![p] = g]
  BY <1>4, <1>5 DEF Opens
<1>8. /\ gs \in [0 .. NbFiles - 1 -> Files] /\ gs[p] = g
      /\ \A s \in 0 .. NbFiles - 1 : s # p => gs[s] = fs[s]
  BY <1>1, <1>3, <1>6, <1>7
<1>9. PICK R \in [0 .. NbFiles - 1 -> Seq(Records)], Q \in [0 .. NbFiles - 1 -> Seq(Records)] :
          /\ R = Held(fs) /\ Q = Held(gs)
          /\ \A s \in 0 .. NbFiles - 1 : R[s] = RecordsOf(fs[s]) /\ Q[s] = RecordsOf(gs[s])
  <2>1. /\ Held(fs) \in [0 .. NbFiles - 1 -> Seq(Records)]
        /\ \A s \in 0 .. NbFiles - 1 : Held(fs)[s] = RecordsOf(fs[s])
    BY <1>1, HeldTyped
  <2>2. /\ Held(gs) \in [0 .. NbFiles - 1 -> Seq(Records)]
        /\ \A s \in 0 .. NbFiles - 1 : Held(gs)[s] = RecordsOf(gs[s])
    BY <1>8, HeldTyped
  <2>3. QED
    BY <2>1, <2>2
<1>10. Q[p] = << >> /\ \A s \in 0 .. NbFiles - 1 : s # p => Q[s] = R[s]
  BY <1>3, <1>4, <1>6, <1>8, <1>9
<1>11. Chain(R, q, c, base)
  BY <1>2, <1>9
<1>12. \E b : Chain(Q, p, c, b)
  <2>1. Emptied(Q, R, p)
    BY <1>10 DEF Emptied
  <2>2. QED
    BY <1>1, <1>11, <2>1, ChainMoved
<1>13. Kept(gs, p, c)
  BY <1>1, <1>3, <1>6, <1>8, <1>9, <1>12 DEF Kept
<1>14. QED
  BY <1>4, <1>6, <1>8, <1>13

(* Nothing is on disk yet; the first file may be open. *)
Fresh(fs) ==
    /\ fs \in [0 .. NbFiles - 1 -> Files]
    /\ \A s \in 0 .. NbFiles - 1 : RecordsOf(fs[s]) = << >> /\ (s # 0 => fs[s] = << >>)

(* The first file is opened. *)
LEMMA KeptFresh ==
    ASSUME NEW fs, Fresh(fs), NEW n \in Nat,
           NEW gs, Opens(gs, fs, 0, n)
    PROVE  Fresh(gs) /\ Kept(gs, 0, 0) /\ RecordsOf(gs[0]) = << >>
<1>1. /\ fs \in [0 .. NbFiles - 1 -> Files]
      /\ \A s \in 0 .. NbFiles - 1 : RecordsOf(fs[s]) = << >> /\ (s # 0 => fs[s] = << >>)
  BY DEF Fresh
<1>2. 0 \in 0 .. NbFiles - 1
  BY PcapConstants
<1>3. PICK e \in Seq(Records) : e = << >>
  BY EmptySeq
<1>4. PICK g : g = << [snaplen |-> n, records |-> e] >>
  OBVIOUS
<1>5. g \in Files /\ g # << >> /\ RecordsOf(g) = e
  BY <1>4, FileWith
<1>6. gs = [fs EXCEPT ![0] = g]
  BY <1>3, <1>4 DEF Opens
<1>7. /\ gs \in [0 .. NbFiles - 1 -> Files] /\ gs[0] = g
      /\ \A s \in 0 .. NbFiles - 1 : s # 0 => gs[s] = fs[s]
  BY <1>1, <1>2, <1>5, <1>6
<1>8. \A s \in 0 .. NbFiles - 1 : RecordsOf(gs[s]) = << >> /\ (s # 0 => gs[s] = << >>)
  BY <1>1, <1>3, <1>5, <1>7
<1>9. PICK Q \in [0 .. NbFiles - 1 -> Seq(Records)] :
          Q = Held(gs) /\ \A s \in 0 .. NbFiles - 1 : Q[s] = RecordsOf(gs[s])
  BY <1>7, HeldTyped
<1>10. \E b : Chain(Q, 0, 0, b)
  BY <1>8, <1>9, ChainEmpty
<1>11. Kept(gs, 0, 0)
  BY <1>2, <1>5, <1>7, <1>9, <1>10 DEF Kept
<1>12. QED
  BY <1>2, <1>7, <1>8, <1>11 DEF Fresh

(* The length the code keeps is that of the file it writes; the others     *)
(* were left with the record that gave them their length.                  *)
Full(s) == FileLength(s) >= SaveLen /\ FileLength(Front(s)) < SaveLen

Lengths(fs, q, fl) ==
    /\ fl = FileLength(RecordsOf(fs[q])) /\ fl < SaveLen
    /\ \A s \in 0 .. NbFiles - 1 : s # q /\ fs[s] # << >> => Full(RecordsOf(fs[s]))

Capturing(fs, q, fl, c) ==
    /\ Kept(fs, q, c)
    /\ fl \in Nat /\ Lengths(fs, q, fl)
    /\ c = 0 => q = 0 /\ Fresh(fs)

LEMMA FirstOpened ==
    ASSUME NEW fs, Fresh(fs), NEW n \in Nat,
           NEW gs, Opens(gs, fs, 0, n)
    PROVE  Capturing(gs, 0, FileHdr, 0)
<1>1. Fresh(gs) /\ Kept(gs, 0, 0) /\ RecordsOf(gs[0]) = << >>
  BY KeptFresh
<1>2. \A s \in 0 .. NbFiles - 1 : s # 0 => gs[s] = << >>
  BY <1>1 DEF Fresh
<1>3. Lengths(gs, 0, FileHdr)
  BY <1>1, <1>2, LengthOfNone, PcapConstants DEF Lengths
<1>4. QED
  BY <1>1, <1>3, PcapConstants DEF Capturing

(* A record is written, w being the length of the file after it. *)
LEMMA LengthWritten ==
    ASSUME NEW fs, NEW q, NEW fl, NEW c, Capturing(fs, q, fl, c), NEW rec \in Records, rec.no = c + 1,
           NEW gs, Writes(gs, fs, q, rec), NEW w, w = fl + PktHdr + Len(rec.bytes)
    PROVE  /\ Kept(gs, q, c + 1) /\ c + 1 \in Nat /\ c + 1 # 0 /\ w \in Nat
           /\ w = FileLength(RecordsOf(gs[q])) /\ FileLength(Front(RecordsOf(gs[q]))) < SaveLen
           /\ \A s \in 0 .. NbFiles - 1 : s # q /\ gs[s] # << >> => Full(RecordsOf(gs[s]))
<1>1. Kept(fs, q, c) /\ fl \in Nat /\ Lengths(fs, q, fl)
  BY DEF Capturing
<1>2. /\ Kept(gs, q, c + 1)
      /\ RecordsOf(fs[q]) \in Seq(Records) /\ RecordsOf(gs[q]) = Append(RecordsOf(fs[q]), rec)
      /\ \A s \in 0 .. NbFiles - 1 : s # q => gs[s] = fs[s]
  BY <1>1, KeptWritten
<1>3. c \in Nat
  BY <1>1 DEF Kept
<1>4. PICK r \in Seq(Records) : r = RecordsOf(fs[q])
  BY <1>2
<1>5. PICK t : t = Append(r, rec)
  OBVIOUS
<1>6. FileLength(t) = FileLength(r) + PktHdr + Len(rec.bytes)
  BY <1>5, LengthOfLonger
<1>7. fl = FileLength(r) /\ fl < SaveLen
  BY <1>1, <1>4 DEF Lengths
<1>8. w = FileLength(t)
  BY <1>6, <1>7
<1>9. Front(t) = r
  BY <1>5, FrontOfLonger
<1>10. Len(rec.bytes) \in Nat
  <2>1. rec.bytes \in Seq(Nat)
    BY DEF Records
  <2>2. QED
    BY <2>1, LenProperties
<1>11. w \in Nat
  <2>1. PICK x \in Nat, y \in Nat, z \in Nat : x = fl /\ y = PktHdr /\ z = Len(rec.bytes)
    BY <1>1, <1>10, PcapConstants
  <2>2. x + y + z \in Nat
    OBVIOUS
  <2>3. QED
    BY <2>1, <2>2
<1>12. \A s \in 0 .. NbFiles - 1 : s # q /\ fs[s] # << >> => Full(RecordsOf(fs[s]))
  BY <1>1 DEF Lengths
<1>13. \A s \in 0 .. NbFiles - 1 : s # q /\ gs[s] # << >> => Full(RecordsOf(gs[s]))
  BY <1>2, <1>12
<1>14. w = FileLength(RecordsOf(gs[q])) /\ FileLength(Front(RecordsOf(gs[q]))) < SaveLen
  BY <1>2, <1>4, <1>5, <1>7, <1>8, <1>9
<1>15. c + 1 \in Nat /\ c + 1 # 0
  BY <1>3
<1>16. QED
  BY <1>2, <1>11, <1>13, <1>14, <1>15

(* The file has not its length yet. *)
LEMMA StillOpen ==
    ASSUME NEW fs, NEW q, NEW fl, NEW c, Capturing(fs, q, fl, c), NEW rec \in Records, rec.no = c + 1,
           NEW gs, Writes(gs, fs, q, rec), NEW w, w = fl + PktHdr + Len(rec.bytes),
           w < SaveLen
    PROVE  Capturing(gs, q, w, c + 1)
<1>1. /\ Kept(gs, q, c + 1) /\ c + 1 # 0 /\ w \in Nat
      /\ w = FileLength(RecordsOf(gs[q]))
      /\ \A s \in 0 .. NbFiles - 1 : s # q /\ gs[s] # << >> => Full(RecordsOf(gs[s]))
  BY LengthWritten
<1>2. Lengths(gs, q, w)
  BY <1>1 DEF Lengths
<1>3. QED
  BY <1>1, <1>2 DEF Capturing

(* It has, and the next is opened. *)
LEMMA NextOpened ==
    ASSUME NEW fs, NEW q, NEW fl, NEW c, Capturing(fs, q, fl, c), NEW rec \in Records, rec.no = c + 1,
           NEW gs, Writes(gs, fs, q, rec), NEW w, w = fl + PktHdr + Len(rec.bytes),
           w >= SaveLen, NEW p, p = NextSeq(q), NEW n \in Nat,
           NEW hs, Opens(hs, gs, p, n)
    PROVE  Capturing(hs, p, FileHdr, c + 1)
<1>1. PICK d \in Nat : d = c + 1 /\ d # 0
  BY LengthWritten
<1>2. /\ Kept(gs, q, d)
      /\ w = FileLength(RecordsOf(gs[q])) /\ FileLength(Front(RecordsOf(gs[q]))) < SaveLen
      /\ \A s \in 0 .. NbFiles - 1 : s # q /\ gs[s] # << >> => Full(RecordsOf(gs[s]))
  BY <1>1, LengthWritten
<1>3. /\ Kept(hs, p, d)
      /\ RecordsOf(hs[p]) = << >>
      /\ \A s \in 0 .. NbFiles - 1 : s # p => hs[s] = gs[s]
  BY <1>2, KeptMoved
<1>4. Full(RecordsOf(gs[q]))
  BY <1>2 DEF Full
<1>5. ASSUME NEW s \in 0 .. NbFiles - 1, s # p, hs[s] # << >> PROVE Full(RecordsOf(hs[s]))
  <2>1. hs[s] = gs[s]
    BY <1>3, <1>5
  <2>2. CASE s = q
    BY <1>4, <2>1, <2>2
  <2>3. CASE s # q
    BY <1>2, <1>5, <2>1, <2>3
  <2>4. QED
    BY <2>2, <2>3
<1>6. FileHdr = FileLength(RecordsOf(hs[p])) /\ FileHdr < SaveLen /\ FileHdr \in Nat
  BY <1>3, LengthOfNone, PcapConstants
<1>7. Lengths(hs, p, FileHdr)
  BY <1>5, <1>6 DEF Lengths
<1>8. Capturing(hs, p, FileHdr, d)
  BY <1>1, <1>3, <1>6, <1>7 DEF Capturing
<1>9. QED
  BY <1>1, <1>8

(* The inductive invariant.  Once the program has ended nothing is said. *)
PcapInvariant ==
    \/ capture.fp = "exit"
    \/ /\ capture = [fp |-> "none", seq |-> 0, flen |-> 0]
       /\ captured = 0 /\ Fresh(files)
    \/ /\ capture = [fp |-> "open", seq |-> capture.seq, flen |-> capture.flen]
       /\ Capturing(files, capture.seq, capture.flen, captured)

LEMMA PcapStarts == PcapInit => PcapInvariant
<1>1. SUFFICES ASSUME PcapInit PROVE Fresh(files)
  BY DEF PcapInit, PcapInvariant
<1>2. files = [i \in 0 .. NbFiles - 1 |-> << >>]
  BY <1>1 DEF PcapInit
<1>3. PICK e : e = << >> /\ e \in Files /\ RecordsOf(e) = << >>
  BY DEF Files, RecordsOf
<1>4. files \in [0 .. NbFiles - 1 -> Files] /\ \A s \in 0 .. NbFiles - 1 : files[s] = e
  BY <1>2, <1>3
<1>5. QED
  BY <1>3, <1>4 DEF Fresh

LEMMA OpenedIs ==
    ASSUME NEW fp, NEW q, NEW fl, NEW fs, NEW n, NEW st,
           st = [capture |-> [fp |-> fp, seq |-> q, flen |-> fl], files |-> fs]
    PROVE  /\ Opened(st, n).capture = [fp |-> "open", seq |-> q, flen |-> FileHdr]
           /\ Opens(Opened(st, n).files, fs, q, n)
<1>1. st.capture = [fp |-> fp, seq |-> q, flen |-> fl] /\ st.files = fs /\ st.capture.seq = q
  OBVIOUS
<1>2. Opened(st, n).capture = [st.capture EXCEPT !.fp = "open", !.flen = FileHdr]
  BY DEF Opened
<1>3. Opened(st, n).files = [st.files EXCEPT ![st.capture.seq] = << [snaplen |-> n, records |-> << >>] >>]
  BY DEF Opened
<1>4. QED
  BY <1>1, <1>2, <1>3 DEF Opens

(* lazybsd_enable_pcap, called before the first packet. *)
LEMMA PcapEnabled ==
    ASSUME PcapInvariant, NEW ok \in BOOLEAN, lazybsd_enable_pcap(ok)
    PROVE  PcapInvariant'
<1>1. /\ capture.fp # "exit" /\ captured = 0 /\ captured' = 0
      /\ Becomes(IF ok THEN Opened(Now, SnapLen) ELSE OpenFailed(Now))
  BY DEF lazybsd_enable_pcap
<1>2. PICK q, fl, fp : capture = [fp |-> fp, seq |-> q, flen |-> fl]
  BY <1>1 DEF PcapInvariant
<1>3. q = 0 /\ Fresh(files)
  <2>1. CASE capture = [fp |-> "none", seq |-> 0, flen |-> 0] /\ Fresh(files)
    BY <1>2, <2>1
  <2>2. CASE Capturing(files, capture.seq, capture.flen, captured)
    BY <1>1, <1>2, <2>2 DEF Capturing
  <2>3. QED
    BY <1>1, <2>1, <2>2 DEF PcapInvariant
<1>4. CASE ok = FALSE
  <2>1. capture' = OpenFailed(Now).capture
    BY <1>1, <1>4 DEF Becomes
  <2>2. Now = [capture |-> [fp |-> fp, seq |-> q, flen |-> fl], files |-> files]
    BY <1>2 DEF Now
  <2>3. capture'.fp = "exit"
    BY <2>1, <2>2 DEF OpenFailed
  <2>4. QED
    BY <2>3 DEF PcapInvariant
<1>5. CASE ok = TRUE
  <2>1. PICK gs : gs = Opened(Now, SnapLen).files
    OBVIOUS
  <2>2. Now = [capture |-> [fp |-> fp, seq |-> 0, flen |-> fl], files |-> files]
    BY <1>2, <1>3 DEF Now
  <2>3. Opened(Now, SnapLen).capture = [fp |-> "open", seq |-> 0, flen |-> FileHdr] /\ Opens(gs, files, 0, SnapLen)
    BY <2>1, <2>2, OpenedIs
  <2>4. capture' = [fp |-> "open", seq |-> 0, flen |-> FileHdr] /\ files' = gs
    BY <1>1, <1>5, <2>1, <2>3 DEF Becomes
  <2>5. Capturing(gs, 0, FileHdr, 0)
    BY <1>3, <2>3, PcapConstants, FirstOpened
  <2>6. capture'.seq = 0 /\ capture'.flen = FileHdr
    BY <2>4
  <2>7. Capturing(files', capture'.seq, capture'.flen, captured')
    BY <1>1, <2>4, <2>5, <2>6
  <2>8. capture' = [fp |-> "open", seq |-> capture'.seq, flen |-> capture'.flen]
    BY <2>4, <2>6
  <2>9. QED
    BY <2>7, <2>8 DEF PcapInvariant, Capturing, Kept, Lengths, Fresh
<1>6. QED
  BY <1>4, <1>5
(* lazybsd_dump_packets: the record of a packet. *)
LEMMA RecordOf ==
    ASSUME NEW segs \in Frames, NEW no \in Nat,
           NEW snap, snap = Min({TotalLen(segs), SnapLen}),
           NEW rec, rec = [no |-> no, caplen |-> snap, len |-> TotalLen(segs), bytes |-> Dumped(segs, snap)]
    PROVE  rec \in Records /\ rec.no = no /\ rec.bytes = Dumped(segs, snap) /\ snap \in Nat
<1>1. segs \in Seq(Nat) /\ SnapLen \in Nat
  BY PcapConstants
<1>2. PICK n \in Nat : n = TotalLen(segs)
  <2>1. PICK l \in Nat : l = Len(segs) /\ DOMAIN segs = 1 .. l /\ \A k \in 1 .. l : segs[k] \in Nat
    BY <1>1, LenProperties
  <2>2. TotalLen(segs) = SumFunctionOnSet(segs, 1 .. l)
    BY <2>1, Zenon DEF TotalLen, SumFunction
  <2>3. IsFiniteSet(1 .. l)
    BY FS_Interval
  <2>4. SumFunctionOnSet(segs, 1 .. l) \in Nat
    BY <2>1, <2>3, SumOfNat
  <2>5. QED
    BY <2>2, <2>4
<1>3. snap = IF n <= SnapLen THEN n ELSE SnapLen
  BY <1>1, <1>2, MinOfTwo
<1>4. snap \in Nat /\ snap <= n
  BY <1>1, <1>3
<1>5. PICK b \in Seq(Nat) : b = Dumped(segs, snap) /\ b = [k \in 1 .. snap |-> k]
  BY <1>1, <1>2, <1>4, DumpedPrefix
<1>6. rec = [no |-> no, caplen |-> snap, len |-> n, bytes |-> b]
  BY <1>2, <1>5
<1>7. rec \in [no : Nat, caplen : Nat, len : Nat, bytes : Seq(Nat)]
  BY <1>4, <1>6
<1>8. rec.no = no /\ rec.caplen = snap /\ rec.len = n /\ rec.bytes = b
  BY <1>6
<1>9. rec.caplen = Min({rec.len, SnapLen})
  BY <1>2, <1>8
<1>10. QED
  BY <1>4, <1>5, <1>7, <1>8, <1>9 DEF Records

LEMMA PcapDumped ==
    ASSUME PcapInvariant, NEW ok \in BOOLEAN, NEW segs \in Frames, lazybsd_dump_packets(segs, ok)
    PROVE  PcapInvariant'
<1>1. PICK snap : snap = Min({TotalLen(segs), SnapLen})
  OBVIOUS
<1>2. PICK rec : rec = [no |-> captured + 1, caplen |-> snap, len |-> TotalLen(segs), bytes |-> Dumped(segs, snap)]
  OBVIOUS
<1>3. PICK w : w = capture.flen + PktHdr + Len(Dumped(segs, snap))
  OBVIOUS
<1>4. PICK gs : gs = [files EXCEPT ![capture.seq] = Recorded(files[capture.seq], rec)]
  OBVIOUS
<1>5. PICK wrote : wrote = [capture |-> [capture EXCEPT !.flen = w], files |-> gs]
  OBVIOUS
<1>6. PICK moved : moved = [wrote EXCEPT !.capture.seq = NextSeq(wrote.capture.seq)]
  OBVIOUS
<1>7. /\ capture.fp = "open" /\ captured' = captured + 1
      /\ IF wrote.capture.flen < SaveLen THEN ok /\ Becomes(wrote)
         ELSE Becomes(IF ok THEN Opened(moved, snap) ELSE OpenFailed(moved))
  BY <1>1, <1>2, <1>3, <1>4, <1>5, <1>6 DEF lazybsd_dump_packets
<1>8. PICK q, fl : capture = [fp |-> "open", seq |-> q, flen |-> fl] /\ Capturing(files, q, fl, captured)
  BY <1>7 DEF PcapInvariant
<1>9. captured \in Nat
  BY <1>8 DEF Capturing, Kept
<1>10. rec \in Records /\ rec.no = captured + 1 /\ rec.bytes = Dumped(segs, snap) /\ snap \in Nat
  <2>1. captured + 1 \in Nat
    BY <1>9
  <2>2. QED
    BY <1>1, <1>2, <2>1, RecordOf
<1>11. w = fl + PktHdr + Len(rec.bytes)
  BY <1>3, <1>8, <1>10
<1>12. Writes(gs, files, q, rec)
  BY <1>4, <1>8 DEF Writes
<1>13. wrote = [capture |-> [fp |-> "open", seq |-> q, flen |-> w], files |-> gs]
  BY <1>5, <1>8
<1>14. wrote.capture = [fp |-> "open", seq |-> q, flen |-> w] /\ wrote.files = gs /\ wrote.capture.flen = w
  BY <1>13
<1>15. PICK p : p = NextSeq(q)
  OBVIOUS
<1>16. moved = [capture |-> [fp |-> "open", seq |-> p, flen |-> w], files |-> gs]
  BY <1>6, <1>13, <1>15
<1>17. ASSUME NEW r, NEW x, capture' = [fp |-> "open", seq |-> r, flen |-> x],
              Capturing(files', r, x, captured + 1)
       PROVE  PcapInvariant'
  <2>1. capture'.seq = r /\ capture'.flen = x
    BY <1>17
  <2>2. capture' = [fp |-> "open", seq |-> capture'.seq, flen |-> capture'.flen]
    BY <1>17, <2>1
  <2>3. Capturing(files', capture'.seq, capture'.flen, captured')
    BY <1>7, <1>17, <2>1
  <2>4. QED
    BY <2>2, <2>3 DEF PcapInvariant, Capturing, Kept, Lengths, Fresh
<1>18. CASE w < SaveLen
  <2>1. capture' = [fp |-> "open", seq |-> q, flen |-> w] /\ files' = gs
    BY <1>7, <1>14, <1>18 DEF Becomes
  <2>2. Capturing(gs, q, w, captured + 1)
    BY <1>8, <1>10, <1>11, <1>12, <1>18, StillOpen
  <2>3. QED
    BY <1>17, <2>1, <2>2
<1>19. CASE ~ (w < SaveLen) /\ ok = TRUE
  <2>1. PICK hs : hs = Opened(moved, snap).files
    OBVIOUS
  <2>2. Opened(moved, snap).capture = [fp |-> "open", seq |-> p, flen |-> FileHdr] /\ Opens(hs, gs, p, snap)
    BY <1>16, <2>1, OpenedIs
  <2>3. capture' = [fp |-> "open", seq |-> p, flen |-> FileHdr] /\ files' = hs
    BY <1>7, <1>14, <1>19, <2>1, <2>2 DEF Becomes
  <2>4. w >= SaveLen
    <3>1. w \in Nat
      BY <1>8, <1>10, <1>11, <1>12, LengthWritten
    <3>2. QED
      BY <1>19, <3>1, PcapConstants
  <2>5. Capturing(hs, p, FileHdr, captured + 1)
    BY <1>8, <1>10, <1>11, <1>12, <1>15, <2>2, <2>4, NextOpened
  <2>6. QED
    BY <1>17, <2>3, <2>5
<1>20. CASE ~ (w < SaveLen) /\ ok = FALSE
  <2>1. capture' = OpenFailed(moved).capture
    BY <1>7, <1>14, <1>20 DEF Becomes
  <2>2. capture'.fp = "exit"
    BY <1>16, <2>1 DEF OpenFailed
  <2>3. QED
    BY <2>2 DEF PcapInvariant
<1>21. QED
  BY <1>18, <1>19, <1>20

(* What a reader finds. *)
LEMMA DiskReadable ==
    ASSUME NEW fl, Capturing(files, capture.seq, fl, captured)
    PROVE  OnDisk \in Seq(Records) /\ Ends(OnDisk, captured)
<1>1. PICK n \in Nat, q \in 0 .. NbFiles - 1, c \in Nat : n = NbFiles /\ n > 0 /\ q = capture.seq /\ c = captured
  BY PcapConstants DEF Capturing, Kept
<1>2. files \in [0 .. NbFiles - 1 -> Files]
  BY DEF Capturing, Kept
<1>3. PICK base : Chain(Held(files), q, c, base)
  BY <1>1 DEF Capturing, Kept
<1>4. PICK R \in [0 .. NbFiles - 1 -> Seq(Records)] :
         R = Held(files) /\ \A s \in 0 .. NbFiles - 1 : R[s] = RecordsOf(files[s])
  BY <1>2, HeldTyped
<1>5. /\ \A i \in 1 .. n : base[i] \in Nat
      /\ base[n] + Len(R[q]) = c
      /\ \A i \in 1 .. n - 1 : base[i] + Len(R[Place(q, i)]) = base[i + 1]
      /\ \A i \in 1 .. n : \A j \in 1 .. Len(R[Place(q, i)]) : R[Place(q, i)][j].no = base[i] + j
  BY <1>1, <1>3, <1>4 DEF Chain
<1>6. Place(q, n) = q /\ \A i \in 1 .. n : Place(q, i) \in 0 .. NbFiles - 1
  <2>1. Place(q, n) = q /\ \A i \in 1 .. n - 1 : Place(q, i) \in 0 .. NbFiles - 1
    BY <1>1, PlacesApart
  <2>2. QED
    BY <1>1, <2>1
<1>7. PICK ss : ss = [i \in 1 .. n |-> R[Place(q, i)]]
  OBVIOUS
<1>8. ss \in [1 .. n -> Seq(Records)] /\ \A i \in 1 .. n : ss[i] = R[Place(q, i)]
  BY <1>6, <1>7
<1>9. ss \in Seq(Seq(Records))
  BY <1>8, SeqDef
<1>10. Len(ss) = n
  BY <1>8, <1>9, LenProperties
<1>11. /\ \A i \in 1 .. n - 1 : base[i] + Len(ss[i]) = base[i + 1]
       /\ \A i \in 1 .. n : \A j \in 1 .. Len(ss[i]) : ss[i][j].no = base[i] + j
  <2>1. ASSUME NEW i \in 1 .. n - 1 PROVE base[i] + Len(ss[i]) = base[i + 1]
    <3>1. i \in 1 .. n
      OBVIOUS
    <3>2. ss[i] = R[Place(q, i)]
      BY <1>8, <3>1
    <3>3. QED
      BY <1>5, <3>2
  <2>2. ASSUME NEW i \in 1 .. n, NEW j \in 1 .. Len(ss[i]) PROVE ss[i][j].no = base[i] + j
    <3>1. ss[i] = R[Place(q, i)]
      BY <1>8
    <3>2. QED
      BY <1>5, <2>2, <3>1
  <2>3. QED
    BY <2>1, <2>2
<1>12. FlattenSeq(ss) \in Seq(Records) /\ Ends(FlattenSeq(ss), base[n] + Len(ss[n]))
  BY <1>1, <1>5, <1>9, <1>10, <1>11, ChainFlat
<1>13. base[n] + Len(ss[n]) = c
  BY <1>1, <1>5, <1>6, <1>8
<1>14. OnDisk = FlattenSeq(ss)
  <2>1. ASSUME NEW i \in 1 .. n
        PROVE  ss[i] = IF files[(q + i) % NbFiles] = << >> THEN << >> ELSE files[(q + i) % NbFiles][1].records
    <3>1. ss[i] = RecordsOf(files[Place(q, i)])
      BY <1>4, <1>6, <1>8
    <3>2. QED
      BY <3>1 DEF RecordsOf, Place
  <2>2. ss = [i \in 1 .. n |-> IF files[(q + i) % NbFiles] = << >> THEN << >> ELSE files[(q + i) % NbFiles][1].records]
    BY <1>8, <2>1
  <2>3. QED
    BY <1>1, <2>2 DEF OnDisk
<1>15. QED
  BY <1>1, <1>12, <1>13, <1>14

LEMMA InvariantReadable == PcapInvariant => CapturesReadable
<1>1. SUFFICES ASSUME PcapInvariant, capture.fp = "open" PROVE CapturesReadable
  BY DEF CapturesReadable
<1>2. PICK q, fl : q = capture.seq /\ fl = capture.flen /\ Capturing(files, q, fl, captured)
  BY <1>1 DEF PcapInvariant
<1>3. OnDisk \in Seq(Records) /\ Ends(OnDisk, captured)
  BY <1>2, DiskReadable
<1>4. PICK d \in Seq(Records) : d = OnDisk /\ Ends(d, captured)
  BY <1>3
<1>5. ASSUME NEW i \in 1 .. Len(d)
      PROVE  /\ d[i].bytes = [k \in 1 .. d[i].caplen |-> k]
             /\ d[i].caplen = Min({d[i].len, SnapLen})
             /\ d[i].no = captured - Len(d) + i
  <2>1. d[i] \in Records
    BY ElementOfSeq
  <2>2. d[i].no = captured - Len(d) + i
    BY <1>4 DEF Ends
  <2>3. QED
    BY <2>1, <2>2 DEF Records
<1>6. Lengths(files, q, fl) /\ Kept(files, q, captured)
  BY <1>2 DEF Capturing
<1>7. files \in [0 .. NbFiles - 1 -> Files] /\ q \in 0 .. NbFiles - 1 /\ files[q] # << >>
  BY <1>6 DEF Kept
<1>8. \A s \in 0 .. NbFiles - 1 : files[s] # << >> => RecordsOf(files[s]) = files[s][1].records
  BY DEF RecordsOf
<1>9. fl = FileLength(files[q][1].records) /\ fl < SaveLen
  BY <1>6, <1>7, <1>8 DEF Lengths
<1>10. ASSUME NEW s \in DOMAIN files \ {q}, files[s] # << >>
       PROVE  FileLength(files[s][1].records) >= SaveLen /\ FileLength(Front(files[s][1].records)) < SaveLen
  <2>1. s \in 0 .. NbFiles - 1 /\ s # q
    BY <1>7
  <2>2. Full(files[s][1].records)
    BY <1>6, <1>8, <1>10, <2>1 DEF Lengths
  <2>3. QED
    BY <2>2 DEF Full
<1>11. QED
  BY <1>2, <1>4, <1>5, <1>9, <1>10 DEF CapturesReadable

(* Whatever the packets and the lengths of packet and file, and wherever a *)
(* file reaches its length, the files of the capture hold consecutive      *)
(* packets up to the last, each record the first bytes of its packet and   *)
(* as many as it announces, and the length the code keeps is that of the   *)
(* file it writes (lazybsd_enable_pcap, lazybsd_dump_packets).             *)
THEOREM CapturesAreReadable == PcapSpec => []CapturesReadable
<1>1. PcapInvariant /\ [PcapNext]_pcapVars => PcapInvariant'
  <2>1. ASSUME PcapInvariant, UNCHANGED pcapVars PROVE PcapInvariant'
    BY <2>1 DEF pcapVars, PcapInvariant, Capturing, Kept, Lengths, Fresh
  <2>2. ASSUME PcapInvariant, PcapNext PROVE PcapInvariant'
    BY <2>2, PcapEnabled, PcapDumped DEF PcapNext
  <2>3. QED
    BY <2>1, <2>2
<1>2. QED
  BY <1>1, PcapStarts, InvariantReadable, PTL DEF PcapSpec
=============================================================================
