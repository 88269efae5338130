---------------------------- MODULE TxPathProofs ----------------------------
(***************************************************************************)
(* The transmit path neither leaks nor frees twice, and frees no chain     *)
(* that the NIC has still to read, for every burst size, ring size and set *)
(* of packets, when reference mbufs do not run out and the dispatcher does *)
(* not answer packets itself.                                              *)
(***************************************************************************)
EXTENDS TxPath, TLAPS

(* Head_INC stays in the ring. *)
LEMMA AfterInRing ==
    ASSUME head \in Ring, NEW k \in 0 .. TxSize
    PROVE  After(k) \in Ring
BY SizeAssumption DEF After, Ring

(* A packet has at least one segment and fits into the ring. *)
LEMMA NbSegsInRange == \A m : NbSegs(m) \in 1 .. TxSize
BY SegsAssumption, SizeAssumption DEF NbSegs

(* The state stays well-typed, whatever fails. *)
LEMMA TypesPreserved ==
    ASSUME TypeOK, BurstInStep, [Next]_vars
    PROVE  TypeOK' /\ BurstInStep'
<1>1. ASSUME NEW p \in Pkts, lazybsd_dpdk_if_send(p) PROVE TypeOK' /\ BurstInStep'
  BY <1>1, SizeAssumption DEF lazybsd_dpdk_if_send, Queued, TypeOK, BurstInStep, Slots
<1>2. CASE if_send_no_mbuf
  BY <1>2, SizeAssumption DEF if_send_no_mbuf, TypeOK, BurstInStep, Slots
<1>3. CASE send_single_packet
  BY <1>3, SizeAssumption DEF send_single_packet, Queued, TypeOK, BurstInStep, Slots
<1>4. CASE tx_drain
  BY <1>4, SizeAssumption DEF tx_drain, TypeOK, BurstInStep, Slots
<1>5. CASE rte_eth_tx_burst
  <2>1. ret \in Slots /\ NbSegs(m_table[ret]) \in Nat
    BY <1>5, NbSegsInRange, SizeAssumption DEF rte_eth_tx_burst, TypeOK, Slots
  <2>2. nic' \in Seq(Pkts \cup {NULL, Response})
    <3>1. m_table[ret] \in Pkts \cup {NULL, Response}
      BY <2>1 DEF TypeOK
    <3>2. [k \in 1 .. NbSegs(m_table[ret]) |-> m_table[ret]] \in Seq(Pkts \cup {NULL, Response})
      BY <2>1, <3>1
    <3>3. QED
      BY <1>5, <3>2 DEF rte_eth_tx_burst, TypeOK
  <2>3. QED
    BY <1>5, <2>1, <2>2, SizeAssumption DEF rte_eth_tx_burst, TypeOK, BurstInStep, Slots
<1>6. CASE burst_sent
  <2>1. i + 1 \in 0 .. MaxBurst /\ i + 1 <= n /\ i \in Slots
    BY <1>6, SizeAssumption DEF burst_sent, TypeOK, BurstInStep, Slots
  <2>2. /\ txring' \in [Ring -> Pkts \cup {NULL}]
        /\ head' \in Ring
        /\ live' \in [Pkts -> BOOLEAN]
    <3>1. CASE bsd_m_table[i] = NULL
      BY <1>6, <3>1 DEF burst_sent, TypeOK
    <3>2. CASE bsd_m_table[i] # NULL
      <4>1. lazybsd_txring_enqueue(bsd_m_table[i], NbSegs(m_table[i]))
        BY <1>6, <3>2 DEF burst_sent
      <4>2. bsd_m_table[i] \in Pkts \cup {NULL}
        BY <2>1 DEF TypeOK
      <4>3. NbSegs(m_table[i]) \in 0 .. TxSize
        BY NbSegsInRange
      <4>4. QED
        BY <4>1, <4>2, <4>3, AfterInRing DEF lazybsd_txring_enqueue, TypeOK
    <3>3. QED
      BY <3>1, <3>2
  <2>3. QED
    BY <1>6, <2>1, <2>2 DEF burst_sent, TypeOK, BurstInStep
<1>7. CASE burst_dropped
  <2>1. i + 1 \in 0 .. MaxBurst /\ i + 1 <= n
    BY <1>7, SizeAssumption DEF burst_dropped, TypeOK
  <2>2. live' \in [Pkts -> BOOLEAN]
    BY <1>7 DEF burst_dropped, TypeOK
  <2>3. QED
    BY <1>7, <2>1, <2>2 DEF burst_dropped, TypeOK, BurstInStep
<1>8. CASE burst_done
  BY <1>8, SizeAssumption DEF burst_done, TypeOK, BurstInStep, Slots
<1>9. CASE nic_transmit
  BY <1>9 DEF nic_transmit, TypeOK, BurstInStep
<1>10. CASE tx_burst_returns
  BY <1>10 DEF tx_burst_returns, TypeOK, BurstInStep
<1>11. CASE UNCHANGED vars
  BY <1>11 DEF vars, TypeOK, BurstInStep
<1>12. QED
  BY <1>1, <1>2, <1>3, <1>4, <1>5, <1>6, <1>7, <1>8, <1>9, <1>10, <1>11 DEF Next, Lcore

(* The empty table and ring are well-typed. *)
LEMMA InitTyped == Init => TypeOK /\ BurstInStep
BY SizeAssumption DEF Init, TypeOK, BurstInStep, Slots, Ring

(* tx_mbufs, nic_tx_ring and send_burst's indices stay in their ranges,    *)
(* also when allocations fail and when the dispatcher answers packets.     *)
THEOREM TxTypeCorrect == SafeSpec => []TypeOK
<1>1. TypeOK /\ BurstInStep /\ [Next]_vars => (TypeOK /\ BurstInStep)'
  BY TypesPreserved
<1>2. QED
  BY <1>1, InitTyped, PTL DEF SafeSpec

-----------------------------------------------------------------------------
(* lazybsd_txring_enqueue hands the chain of entry i to the ring: the      *)
(* chains it frees are exactly the ones that leave the ring.               *)
LEMMA SentKeepsOwner ==
    ASSUME TxInvariant, burst_sent
    PROVE  TableAligned' /\ OneOwner'
<1> DEFINE p == bsd_m_table[i]
           seg == NbSegs(m_table[i])
           reused == {After(k) : k \in 0 .. seg - 1}
           last == After(seg - 1)
<1> USE DEF TxInvariant
<1>1. /\ pc = "sent" /\ pc' = "sent" /\ i < ret /\ i' = i + 1
      /\ n' = n /\ m_table' = m_table /\ bsd_m_table' = bsd_m_table
  BY DEF burst_sent
<1>2. i \in ToDo /\ ToDo = i .. n - 1 /\ ToDo' = (i + 1) .. (n - 1) /\ ToDo \subseteq Slots
  BY <1>1, SizeAssumption DEF ToDo, TypeOK, BurstInStep, Slots
<1>3. \A k \in ToDo' : k \in ToDo /\ k # i
  BY <1>1, <1>2 DEF TypeOK
<1>4. \A k \in ToDo : k # i => k \in ToDo'
  BY <1>1, <1>2 DEF TypeOK
<1>5. p \in Pkts /\ p # NULL
  BY <1>2, PktsAssumption DEF TableAligned
<1>6. seg \in 1 .. TxSize
  BY NbSegsInRange
<1>7. /\ txring' = [s \in Ring |-> IF s = last THEN p ELSE IF s \in reused THEN NULL ELSE txring[s]]
      /\ live' = [q \in Pkts |-> live[q] /\ q \notin {txring[s] : s \in reused}]
  BY <1>5 DEF burst_sent, lazybsd_txring_enqueue
<1>8. last \in reused /\ reused \subseteq Ring
  <2>1. \A k \in 0 .. seg - 1 : k \in 0 .. TxSize
    BY <1>6, SizeAssumption
  <2>2. \A k \in 0 .. seg - 1 : After(k) \in Ring
    BY <2>1, AfterInRing DEF TypeOK
  <2>3. seg - 1 \in 0 .. seg - 1
    BY <1>6, SizeAssumption
  <2>4. QED
    BY <2>2, <2>3
<1> HIDE DEF p, seg, reused, last
<1>9. \A s \in Ring : txring[s] # p
  BY <1>2, <1>5 DEF OneOwner, p
<1>10. \A k \in ToDo' : bsd_m_table[k] # p /\ bsd_m_table[k] \in Pkts
  BY <1>2, <1>3, <1>5 DEF OneOwner, TableAligned, p
<1>11. /\ txring'[last] = p
       /\ \A s \in Ring : s \in reused /\ s # last => txring'[s] = NULL
       /\ \A s \in Ring : s \notin reused => txring'[s] = txring[s]
  BY <1>7, <1>8
<1>12. ASSUME NEW q \in Pkts
       PROVE  live'[q] <=> (\E k \in ToDo' : bsd_m_table[k] = q) \/ (\E s \in Ring : txring'[s] = q)
  <2>1. live'[q] <=> live[q] /\ \A s \in reused : txring[s] # q
    BY <1>7
  <2>2. CASE q = p
    BY <1>2, <1>8, <1>9, <1>11, <2>1, <2>2 DEF OneOwner, p
  <2>3. CASE q # p
    <3>1. q # NULL
      BY PktsAssumption
    <3>2. ASSUME NEW k \in ToDo', bsd_m_table[k] = q PROVE live'[q]
      BY <1>3, <1>8, <2>1, <3>1, <3>2 DEF OneOwner
    <3>3. ASSUME NEW s \in Ring, txring'[s] = q PROVE live'[q]
      <4>1. s \notin reused /\ txring[s] = q
        BY <1>11, <2>3, <3>1, <3>3
      <4>2. QED
        BY <1>8, <2>1, <3>1, <4>1 DEF OneOwner
    <3>4. ASSUME live'[q]
          PROVE  (\E k \in ToDo' : bsd_m_table[k] = q) \/ (\E s \in Ring : txring'[s] = q)
      <4>1. CASE \E k \in ToDo : bsd_m_table[k] = q
        BY <1>4, <2>3, <4>1 DEF p
      <4>2. CASE \E s \in Ring : txring[s] = q
        <5>1. PICK s \in Ring : txring[s] = q
          BY <4>2
        <5>2. s \notin reused
          BY <2>1, <3>4, <5>1
        <5>3. QED
          BY <1>11, <5>1, <5>2
      <4>3. QED
        BY <2>1, <3>4, <4>1, <4>2 DEF OneOwner
    <3>5. QED
      BY <3>2, <3>3, <3>4
  <2>4. QED
    BY <2>2, <2>3
<1>13. \A k, l \in ToDo' : bsd_m_table[k] = bsd_m_table[l] /\ bsd_m_table[k] # NULL => k = l
  BY <1>3 DEF OneOwner
<1>14. \A s, t \in Ring : txring'[s] = txring'[t] /\ txring'[s] # NULL => s = t
  BY <1>9, <1>11 DEF OneOwner
<1>15. \A k \in ToDo', s \in Ring : bsd_m_table[k] = txring'[s] => txring'[s] = NULL
  <2>1. SUFFICES ASSUME NEW k \in ToDo', NEW s \in Ring, bsd_m_table[k] = txring'[s],
                        txring'[s] # NULL
                 PROVE  FALSE
    OBVIOUS
  <2>2. txring'[s] # p
    BY <1>10, <2>1
  <2>3. txring'[s] = txring[s]
    BY <1>11, <2>1, <2>2
  <2>4. QED
    BY <1>3, <2>1, <2>3 DEF OneOwner
<1>16. TableAligned'
  BY <1>1, <1>3 DEF TableAligned
<1>17. QED
  BY <1>1, <1>12, <1>13, <1>14, <1>15, <1>16 DEF OneOwner

(* Every step keeps one owner per chain, when no allocation fails and the  *)
(* dispatcher answers nothing.                                             *)
LEMMA OwnerPreserved ==
    ASSUME ~AllocFails, ~Responses, TxInvariant, [Next]_vars
    PROVE  TxInvariant'
<1> USE DEF TxInvariant
<1>1. TypeOK' /\ BurstInStep'
  BY TypesPreserved
<1>2. ASSUME NEW p \in Pkts, lazybsd_dpdk_if_send(p) PROVE TableAligned' /\ OneOwner'
  <2>1. /\ pc = "idle" /\ ~live[p] /\ len \in Slots
        /\ live' = [live EXCEPT ![p] = TRUE]
        /\ m_table' = [m_table EXCEPT ![len] = p]
        /\ bsd_m_table' = [bsd_m_table EXCEPT ![len] = p]
        /\ txring' = txring
    BY <1>2 DEF lazybsd_dpdk_if_send, TypeOK
  <2>2. ToDo = 0 .. len - 1 /\ ToDo' = 0 .. len
    <3>1. CASE len + 1 = MaxBurst
      BY <1>2, <2>1, <3>1 DEF lazybsd_dpdk_if_send, Queued, ToDo, Slots
    <3>2. CASE len + 1 # MaxBurst
      BY <1>2, <2>1, <3>2 DEF lazybsd_dpdk_if_send, Queued, ToDo, Slots
    <3>3. QED
      BY <3>1, <3>2
  <2>3. len \in ToDo' /\ \A k \in ToDo' : k = len \/ (k \in ToDo /\ k # len)
    BY <2>1, <2>2 DEF Slots
  <2>4. \A k \in ToDo : k \in ToDo' /\ k # len
    BY <2>1, <2>2 DEF Slots
  <2>5. ToDo' \subseteq Slots
    BY <2>1, <2>2, SizeAssumption DEF Slots
  <2>6. /\ bsd_m_table'[len] = p /\ m_table'[len] = p
        /\ \A k \in ToDo : bsd_m_table'[k] = bsd_m_table[k] /\ m_table'[k] = m_table[k]
    BY <2>1, <2>3, <2>4, <2>5 DEF TypeOK
  <2>7. /\ \A k \in ToDo : bsd_m_table[k] # p
        /\ \A s \in Ring : txring[s] # p
    BY <2>1 DEF OneOwner
  <2>8. live'[p] /\ \A q \in Pkts : q # p => live'[q] = live[q]
    BY <2>1 DEF TypeOK
  <2>9. TableAligned'
    BY <2>3, <2>6 DEF TableAligned
  <2>10. ASSUME NEW q \in Pkts
         PROVE  live'[q] <=> (\E k \in ToDo' : bsd_m_table'[k] = q) \/ (\E s \in Ring : txring[s] = q)
    <3>1. CASE q = p
      BY <2>3, <2>6, <2>8, <3>1
    <3>2. CASE q # p
      BY <2>3, <2>4, <2>6, <2>8, <3>2 DEF OneOwner
    <3>3. QED
      BY <3>1, <3>2
  <2>11. \A k, l \in ToDo' : bsd_m_table'[k] = bsd_m_table'[l] /\ bsd_m_table'[k] # NULL => k = l
    BY <2>3, <2>6, <2>7 DEF OneOwner
  <2>12. \A k \in ToDo', s \in Ring : bsd_m_table'[k] = txring[s] => txring[s] = NULL
    BY <2>3, <2>6, <2>7 DEF OneOwner
  <2>13. QED
    BY <2>1, <2>9, <2>10, <2>11, <2>12 DEF OneOwner
<1>3. ASSUME \/ tx_drain \/ rte_eth_tx_burst \/ tx_burst_returns \/ nic_transmit
             \/ UNCHANGED vars
      PROVE  TableAligned' /\ OneOwner'
  <2>1. ToDo' = ToDo
    BY <1>3 DEF tx_drain, rte_eth_tx_burst, tx_burst_returns, nic_transmit, vars, ToDo, BurstInStep
  <2>2. UNCHANGED <<m_table, bsd_m_table, txring, live>>
    BY <1>3 DEF tx_drain, rte_eth_tx_burst, tx_burst_returns, nic_transmit, vars
  <2>3. QED
    BY <2>1, <2>2 DEF TableAligned, OneOwner
<1>4. ASSUME burst_sent
      PROVE  TableAligned' /\ OneOwner'
  BY <1>4, SentKeepsOwner
<1>5. ASSUME burst_dropped
      PROVE  TableAligned' /\ OneOwner'
  <2>1. /\ pc = "sent" /\ pc' = "sent" /\ ret <= i /\ i < n /\ i' = i + 1
        /\ n' = n /\ m_table' = m_table /\ bsd_m_table' = bsd_m_table /\ txring' = txring
        /\ live' = [q \in Pkts |-> live[q] /\ q # bsd_m_table[i]]
    BY <1>5 DEF burst_dropped
  <2>2. i \in ToDo /\ (\A k \in ToDo' : k \in ToDo /\ k # i) /\ (\A k \in ToDo : k # i => k \in ToDo')
    BY <2>1 DEF ToDo, TypeOK
  <2>3. ASSUME NEW q \in Pkts
        PROVE  live'[q] <=> (\E k \in ToDo' : bsd_m_table[k] = q) \/ (\E s \in Ring : txring[s] = q)
    <3>1. live'[q] <=> live[q] /\ q # bsd_m_table[i]
      BY <2>1
    <3>2. q # NULL
      BY PktsAssumption
    <3>3. QED
      BY <2>2, <3>1, <3>2 DEF OneOwner
  <2>4. QED
    BY <2>1, <2>2, <2>3 DEF OneOwner, TableAligned
<1>6. ASSUME burst_done
      PROVE  TableAligned' /\ OneOwner'
  <2>1. /\ ToDo = {} /\ ToDo' = {}
        /\ UNCHANGED <<m_table, bsd_m_table, txring, live>>
    BY <1>6 DEF burst_done, ToDo, TypeOK
  <2>2. QED
    BY <2>1 DEF TableAligned, OneOwner
<1>7. TableAligned' /\ OneOwner'
  BY <1>2, <1>3, <1>4, <1>5, <1>6 DEF Next, Lcore, if_send_no_mbuf, send_single_packet
<1>8. QED
  BY <1>1, <1>7

(* The empty table and ring own nothing. *)
LEMMA InitOwner == Init => TxInvariant
<1>1. ASSUME Init PROVE ToDo = {}
  BY <1>1 DEF Init, ToDo
<1>2. ASSUME Init PROVE OneOwner /\ TableAligned
  BY <1>1, <1>2, PktsAssumption DEF Init, OneOwner, TableAligned
<1>3. QED
  BY <1>2, InitTyped DEF TxInvariant

(* Without allocation failures and dispatcher answers, every chain the     *)
(* stack sends is freed exactly once: by the reuse of its slot of          *)
(* nic_tx_ring, or by send_burst when the NIC did not take it.             *)
THEOREM TxOwnership ==
    ASSUME ~AllocFails, ~Responses
    PROVE  SafeSpec => []OneOwner
<1>1. TxInvariant /\ [Next]_vars => TxInvariant'
  BY OwnerPreserved
<1>2. TxInvariant => OneOwner
  BY DEF TxInvariant
<1>3. QED
  BY <1>1, <1>2, InitOwner, PTL DEF SafeSpec

-----------------------------------------------------------------------------
(* Packets of the burst that the NIC took and txring holds. *)
Parked == IF i < ret THEN i ELSE ret

(* The slot of txring that was filled k slots before the last one. *)
Before(k) == IF k < head THEN head - 1 - k ELSE head - 1 - k + TxSize

(* What keeps SentBeforeFree.  off[k] is the place in nic where the        *)
(* descriptors of entry k of the burst begin: none or negative when the    *)
(* NIC has read them.  The NIC and txring go round in step: a descriptor   *)
(* before off[Parked] is of a packet parked no further back in txring than *)
(* the descriptor in nic, and the others are of the packets still in the   *)
(* table.                                                                  *)
InStep(off) ==
    /\ off[ret] = Len(nic)
    /\ \A k \in 0 .. ret - 1 : off[k + 1] = off[k] + NbSegs(m_table[k])
    /\ \A k, l \in 0 .. ret : k <= l => off[k] <= off[l]
    /\ \A d \in 1 .. Len(nic) :
          IF d <= off[Parked]
          THEN \E e \in d .. off[Parked] : txring[Before(off[Parked] - e)] = nic[d]
          ELSE \E k \in Parked .. ret - 1 : off[k] < d /\ d <= off[k + 1] /\ nic[d] = m_table[k]

(* The inductive form of SentBeforeFree. *)
NicInvariant == Len(nic) <= NicSize /\ \E off \in [0 .. ret -> Int] : InStep(off)

(* Going back less than once round stays in the ring. *)
LEMMA BeforeInRing ==
    ASSUME head \in Ring, NEW k \in 0 .. TxSize - 1
    PROVE  Before(k) \in Ring
BY SizeAssumption DEF Before, Ring

(* Filling seg more slots leaves the slot k back where it was, now k + seg *)
(* back, as long as that is less than once round.                          *)
LEMMA SlotsStay ==
    ASSUME head \in Ring, NEW seg \in 1 .. TxSize, NEW k \in Nat, k + seg < TxSize,
           head' = After(seg)
    PROVE  /\ Before(k + seg)' = Before(k)
           /\ \A j \in 0 .. seg - 1 : After(j) # Before(k)
<1>1. head \in Int /\ 0 <= head /\ head < TxSize /\ TxSize \in Nat
  BY SizeAssumption DEF Ring
<1>2. Before(k + seg)' = Before(k)
  BY <1>1 DEF Before, After
<1>3. ASSUME NEW j \in 0 .. seg - 1 PROVE After(j) # Before(k)
  BY <1>1 DEF Before, After
<1>4. QED
  BY <1>2, <1>3

(* The slot filled last is the one before the head. *)
LEMMA LastSlot ==
    ASSUME head \in Ring, NEW seg \in 1 .. TxSize, head' = After(seg)
    PROVE  Before(0)' = After(seg - 1)
<1>1. head \in Int /\ 0 <= head /\ head < TxSize /\ TxSize \in Nat
  BY SizeAssumption DEF Ring
<1>2. QED
  BY <1>1 DEF Before, After

(* A chain that the NIC still refers to is parked or in the table, so it   *)
(* is live.                                                                *)
LEMMA HeldUntilRead ==
    ASSUME TxInvariant, NicInvariant, NicSize <= TxSize
    PROVE  SentBeforeFree
<1>1. SUFFICES ASSUME NEW d \in 1 .. Len(nic), nic[d] \in Pkts
               PROVE  live[nic[d]]
  BY DEF SentBeforeFree
<1>2. PICK off \in [0 .. ret -> Int] : InStep(off)
  BY DEF NicInvariant
<1>3. /\ ret \in Nat /\ Parked \in 0 .. ret /\ Len(nic) \in Nat /\ off[Parked] \in Int
      /\ Parked <= ret /\ ret \in 0 .. ret
  BY DEF Parked, TxInvariant, TypeOK
<1>4. off[Parked] <= Len(nic)
  BY <1>2, <1>3 DEF InStep
<1>5. CASE d <= off[Parked]
  <2>1. PICK e \in d .. off[Parked] : txring[Before(off[Parked] - e)] = nic[d]
    BY <1>2, <1>5 DEF InStep
  <2>2. off[Parked] - e \in 0 .. TxSize - 1
    BY <1>3, <1>4, <2>1, SizeAssumption DEF NicInvariant
  <2>3. Before(off[Parked] - e) \in Ring
    BY <2>2, BeforeInRing DEF TxInvariant, TypeOK
  <2>4. QED
    BY <1>1, <2>1, <2>3 DEF TxInvariant, OneOwner
<1>6. CASE ~(d <= off[Parked])
  <2>1. PICK k \in Parked .. ret - 1 : nic[d] = m_table[k]
    BY <1>2, <1>6 DEF InStep
  <2>2. k \in ToDo
    BY <1>3 DEF Parked, ToDo, TxInvariant, TypeOK, BurstInStep
  <2>3. QED
    BY <1>1, <2>1, <2>2 DEF TxInvariant, OneOwner, TableAligned
<1>7. QED
  BY <1>5, <1>6

(* rte_eth_tx_burst puts the descriptors of the next packet behind those   *)
(* of the packets it took before.                                          *)
LEMMA TakeInStep ==
    ASSUME TxInvariant, NicInvariant, rte_eth_tx_burst
    PROVE  NicInvariant'
<1> DEFINE m == m_table[ret]
<1>1. PICK off \in [0 .. ret -> Int] : InStep(off)
  BY DEF NicInvariant
<1>2. /\ ret \in Nat /\ ret' = ret + 1 /\ i = 0 /\ i' = 0
      /\ m_table' = m_table /\ txring' = txring /\ head' = head
      /\ Len(nic) \in Nat /\ NbSegs(m) \in Nat /\ NbSegs(m) >= 1
  BY NbSegsInRange, SizeAssumption DEF rte_eth_tx_burst, TxInvariant, TypeOK, BurstInStep
<1>3. /\ Len(nic') = Len(nic) + NbSegs(m) /\ Len(nic') <= NicSize
      /\ \A d \in 1 .. Len(nic) : nic'[d] = nic[d]
      /\ \A d \in Len(nic) + 1 .. Len(nic') : nic'[d] = m
  <2> DEFINE added == [k \in 1 .. NbSegs(m) |-> m]
  <2>1. added \in Seq({m}) /\ Len(added) = NbSegs(m) /\ \A k \in 1 .. NbSegs(m) : added[k] = m
    BY <1>2
  <2>2. nic' = nic \o added /\ Len(nic) + NbSegs(m) <= NicSize
    BY DEF rte_eth_tx_burst
  <2>3. nic \in Seq(Pkts \cup {NULL, Response})
    BY DEF TxInvariant, TypeOK
  <2> HIDE DEF added
  <2>4. /\ Len(nic') = Len(nic) + Len(added)
        /\ \A d \in 1 .. Len(nic) : nic'[d] = nic[d]
        /\ \A d \in Len(nic) + 1 .. Len(nic') : nic'[d] = added[d - Len(nic)]
    BY <2>1, <2>2, <2>3
  <2>5. QED
    BY <1>2, <2>1, <2>2, <2>4
<1> HIDE DEF m
<1>4. PICK new \in [0 .. ret + 1 -> Int] :
             /\ new[ret + 1] = Len(nic')
             /\ \A k \in 0 .. ret : new[k] = off[k] /\ off[k] \in Int
  <2> DEFINE f == [k \in 0 .. ret + 1 |-> IF k = ret + 1 THEN Len(nic') ELSE off[k]]
  <2>1. /\ f \in [0 .. ret + 1 -> Int] /\ f[ret + 1] = Len(nic')
        /\ \A k \in 0 .. ret : f[k] = off[k] /\ off[k] \in Int
    BY <1>2, <1>3
  <2>2. QED
    BY <2>1
<1>5. Parked = 0 /\ Parked' = 0
  BY <1>2 DEF Parked
<1>6. off[0] <= Len(nic) /\ off[ret] = Len(nic)
  BY <1>1, <1>2 DEF InStep
<1>7. \A k \in 0 .. ret' - 1 : new[k + 1] = new[k] + NbSegs(m_table[k])
  <2>1. SUFFICES ASSUME NEW k \in 0 .. ret PROVE new[k + 1] = new[k] + NbSegs(m_table[k])
    BY <1>2
  <2>2. CASE k = ret
    BY <1>2, <1>3, <1>4, <1>6, <2>2 DEF m
  <2>3. CASE k # ret
    <3>1. k \in 0 .. ret - 1 /\ k + 1 \in 0 .. ret
      BY <1>2, <2>3
    <3>2. QED
      BY <1>1, <1>4, <3>1 DEF InStep
  <2>4. QED
    BY <2>2, <2>3
<1>8. \A k, l \in 0 .. ret' : k <= l => new[k] <= new[l]
  <2>1. SUFFICES ASSUME NEW k \in 0 .. ret + 1, NEW l \in 0 .. ret + 1, k <= l
                 PROVE  new[k] <= new[l]
    BY <1>2
  <2>2. \A j \in 0 .. ret : off[j] <= Len(nic)
    BY <1>1, <1>2 DEF InStep
  <2>3. CASE l = ret + 1
    <3>1. CASE k = ret + 1
      BY <1>2, <1>3, <1>4, <2>3, <3>1
    <3>2. CASE k # ret + 1
      <4>1. k \in 0 .. ret
        BY <1>2, <3>2
      <4>2. QED
        BY <1>2, <1>3, <1>4, <2>2, <2>3, <4>1
    <3>3. QED
      BY <3>1, <3>2
  <2>4. CASE l # ret + 1
    <3>1. k \in 0 .. ret /\ l \in 0 .. ret
      BY <1>2, <2>1, <2>4
    <3>2. QED
      BY <1>1, <1>4, <2>1, <3>1 DEF InStep
  <2>5. QED
    BY <2>3, <2>4
<1>9. ASSUME NEW d \in 1 .. Len(nic')
      PROVE  IF d <= new[0]
             THEN \E e \in d .. new[0] : txring[Before(new[0] - e)] = nic'[d]
             ELSE \E k \in 0 .. ret' - 1 : new[k] < d /\ d <= new[k + 1] /\ nic'[d] = m_table[k]
  <2>1. new[0] = off[0]
    BY <1>2, <1>4
  <2>2. CASE d <= Len(nic)
    <3>1. d \in 1 .. Len(nic) /\ nic'[d] = nic[d]
      BY <1>2, <1>3, <2>2
    <3>2. CASE d <= off[0]
      BY <1>1, <1>5, <2>1, <3>1, <3>2 DEF InStep
    <3>3. CASE ~(d <= off[0])
      <4>1. PICK k \in 0 .. ret - 1 : off[k] < d /\ d <= off[k + 1] /\ nic[d] = m_table[k]
        BY <1>1, <1>5, <3>1, <3>3 DEF InStep
      <4>2. k \in 0 .. ret' - 1 /\ k \in 0 .. ret /\ k + 1 \in 0 .. ret
        BY <1>2
      <4>3. new[k] < d /\ d <= new[k + 1] /\ nic'[d] = m_table[k]
        BY <1>4, <3>1, <4>1, <4>2
      <4>4. QED
        BY <2>1, <3>3, <4>2, <4>3
    <3>4. QED
      BY <3>2, <3>3
  <2>3. CASE ~(d <= Len(nic))
    <3>1. d \in Len(nic) + 1 .. Len(nic') /\ nic'[d] = m /\ ret \in 0 .. ret' - 1
      BY <1>2, <1>3, <2>3
    <3>2. ~(d <= new[0]) /\ new[ret] < d /\ d <= new[ret + 1]
      BY <1>2, <1>3, <1>4, <1>6, <2>1, <2>3
    <3>3. QED
      BY <3>1, <3>2 DEF m
  <2>4. QED
    BY <2>2, <2>3
<1>10. InStep(new)'
  BY <1>2, <1>4, <1>5, <1>7, <1>8, <1>9 DEF InStep, Before, NbSegs
<1>11. QED
  BY <1>2, <1>3, <1>4, <1>10 DEF NicInvariant

(* The NIC reads descriptors from the front: every place moves down by     *)
(* one.                                                                    *)
LEMMA TransmitInStep ==
    ASSUME TxInvariant, NicInvariant, nic_transmit
    PROVE  NicInvariant'
<1>1. PICK off \in [0 .. ret -> Int] : InStep(off)
  BY DEF NicInvariant
<1>2. /\ UNCHANGED <<ret, i, m_table, txring, head>> /\ ret \in Nat /\ i \in Nat
      /\ Parked' = Parked /\ Parked \in 0 .. ret
  BY DEF nic_transmit, TxInvariant, TypeOK, Parked
<1>3. /\ Len(nic) \in Nat /\ Len(nic') = Len(nic) - 1
      /\ \A d \in 1 .. Len(nic') : nic'[d] = nic[d + 1]
  BY DEF nic_transmit, TxInvariant, TypeOK
<1>4. PICK new \in [0 .. ret -> Int] :
             \A k \in 0 .. ret : new[k] = off[k] - 1 /\ off[k] \in Int
  <2> DEFINE f == [k \in 0 .. ret |-> off[k] - 1]
  <2>1. f \in [0 .. ret -> Int] /\ \A k \in 0 .. ret : f[k] = off[k] - 1 /\ off[k] \in Int
    OBVIOUS
  <2>2. QED
    BY <2>1
<1>5. new[ret] = Len(nic')
  BY <1>1, <1>2, <1>3, <1>4 DEF InStep
<1>6. \A k \in 0 .. ret - 1 : new[k + 1] = new[k] + NbSegs(m_table[k])
  <2>1. SUFFICES ASSUME NEW k \in 0 .. ret - 1 PROVE new[k + 1] = new[k] + NbSegs(m_table[k])
    OBVIOUS
  <2>2. k \in 0 .. ret /\ k + 1 \in 0 .. ret /\ NbSegs(m_table[k]) \in Nat
    BY <1>2, NbSegsInRange, SizeAssumption
  <2>3. QED
    BY <1>1, <1>4, <2>2 DEF InStep
<1>7. \A k, l \in 0 .. ret : k <= l => new[k] <= new[l]
  BY <1>1, <1>2, <1>4 DEF InStep
<1>8. ASSUME NEW d \in 1 .. Len(nic')
      PROVE  IF d <= new[Parked]
             THEN \E e \in d .. new[Parked] : txring[Before(new[Parked] - e)] = nic'[d]
             ELSE \E k \in Parked .. ret - 1 : new[k] < d /\ d <= new[k + 1] /\ nic'[d] = m_table[k]
  <2>1. d + 1 \in 1 .. Len(nic) /\ nic'[d] = nic[d + 1] /\ new[Parked] = off[Parked] - 1
    BY <1>2, <1>3, <1>4
  <2>2. CASE d + 1 <= off[Parked]
    <3>1. PICK e \in d + 1 .. off[Parked] : txring[Before(off[Parked] - e)] = nic[d + 1]
      BY <1>1, <2>1, <2>2 DEF InStep
    <3>2. e - 1 \in d .. new[Parked] /\ new[Parked] - (e - 1) = off[Parked] - e
      <4>1. off[Parked] \in Int /\ d \in Int
        BY <1>2, <1>4
      <4>2. QED
        BY <2>1, <4>1
    <3>3. d <= new[Parked]
      BY <1>2, <1>4, <2>1, <2>2
    <3>4. QED
      BY <2>1, <3>1, <3>2, <3>3
  <2>3. CASE ~(d + 1 <= off[Parked])
    <3>1. PICK k \in Parked .. ret - 1 :
                 off[k] < d + 1 /\ d + 1 <= off[k + 1] /\ nic[d + 1] = m_table[k]
      BY <1>1, <2>1, <2>3 DEF InStep
    <3>2. k \in 0 .. ret /\ k + 1 \in 0 .. ret
      BY <1>2
    <3>3. new[k] < d /\ d <= new[k + 1] /\ ~(d <= new[Parked])
      <4>1. off[k] \in Int /\ off[k + 1] \in Int /\ off[Parked] \in Int /\ d \in Int
        BY <1>2, <1>4, <3>2
      <4>2. new[k] = off[k] - 1 /\ new[k + 1] = off[k + 1] - 1
        BY <1>4, <3>2
      <4>3. QED
        BY SMTT(30), <2>1, <2>3, <3>1, <4>1, <4>2
    <3>4. QED
      BY <2>1, <3>1, <3>3
  <2>4. QED
    BY <2>2, <2>3
<1>9. InStep(new)'
  BY <1>2, <1>5, <1>6, <1>7, <1>8 DEF InStep, Before, NbSegs
<1>10. Len(nic') <= NicSize
  BY <1>3, SizeAssumption DEF NicInvariant
<1>11. QED
  BY <1>2, <1>4, <1>9, <1>10 DEF NicInvariant

(* lazybsd_txring_enqueue reuses slots further back than the NIC's oldest  *)
(* descriptor.                                                             *)
LEMMA ParkInStep ==
    ASSUME TxInvariant, NicInvariant, NicSize <= TxSize, burst_sent
    PROVE  NicInvariant'
<1> DEFINE p == bsd_m_table[i]
           seg == NbSegs(m_table[i])
<1>1. PICK off \in [0 .. ret -> Int] : InStep(off)
  BY DEF NicInvariant
<1>2. /\ ret \in Nat /\ i \in Nat /\ i < ret /\ Parked = i /\ Parked' = i + 1
      /\ ret' = ret /\ i' = i + 1 /\ m_table' = m_table /\ nic' = nic
      /\ Len(nic) \in Nat /\ Len(nic) <= TxSize /\ seg \in 1 .. TxSize
  BY SMTT(30), NbSegsInRange, SizeAssumption DEF burst_sent, TxInvariant, TypeOK, Parked, NicInvariant
<1>3. PICK x \in Int, y \in Int :
             off[i] = x /\ off[i + 1] = y /\ y = x + seg /\ y <= Len(nic)
  <2>1. off[i] \in Int /\ off[i + 1] \in Int /\ off[i + 1] = off[i] + seg /\ off[i + 1] <= Len(nic)
    BY <1>1, <1>2 DEF InStep
  <2>2. QED
    BY <2>1
<1>4. i \in ToDo /\ p = m_table[i] /\ p # NULL
  <2>1. i \in ToDo
    BY <1>2 DEF burst_sent, ToDo, TxInvariant, TypeOK, BurstInStep
  <2>2. QED
    BY <2>1, PktsAssumption DEF TxInvariant, TableAligned
<1>5. lazybsd_txring_enqueue(p, seg)
  BY <1>4 DEF burst_sent
<1>6. /\ head \in Ring /\ head' = After(seg)
      /\ txring' = [s \in Ring |->
             IF s = After(seg - 1) THEN p
             ELSE IF s \in {After(k) : k \in 0 .. seg - 1} THEN NULL ELSE txring[s]]
  BY <1>5 DEF lazybsd_txring_enqueue, TxInvariant, TypeOK
<1> HIDE DEF p, seg
<1>7. seg - 1 \in 0 .. TxSize /\ seg - 1 \in 0 .. seg - 1
  BY <1>2, SizeAssumption
<1>8. After(seg - 1) \in Ring
  BY <1>6, <1>7, AfterInRing
<1>9. ASSUME NEW d \in 1 .. Len(nic)
      PROVE  IF d <= y
             THEN \E e \in d .. y : txring'[Before(y - e)'] = nic[d]
             ELSE \E k \in i + 1 .. ret - 1 : off[k] < d /\ d <= off[k + 1] /\ nic[d] = m_table[k]
  <2>1. CASE d <= x
    <3>1. PICK e \in d .. x : txring[Before(x - e)] = nic[d]
      BY <1>1, <1>2, <1>3, <2>1 DEF InStep
    <3>2. /\ x - e \in Nat /\ x - e + seg < TxSize /\ y - e = x - e + seg
          /\ e \in d .. y /\ d <= y /\ x - e \in 0 .. TxSize - 1
      <4>1. seg \in Nat /\ TxSize \in Nat /\ e \in Int /\ d <= e /\ e <= x /\ 1 <= d /\ 1 <= seg
        BY <1>2, SizeAssumption
      <4>2. QED
        BY <1>2, <1>3, <4>1
    <3>3. Before(y - e)' = Before(x - e)
      BY <1>2, <1>6, <3>2, SlotsStay
    <3>4. \A j \in 0 .. seg - 1 : After(j) # Before(x - e)
      BY <1>2, <1>6, <3>2, SlotsStay
    <3>5. Before(x - e) \in Ring
      BY <1>6, <3>2, BeforeInRing
    <3>6. txring'[Before(x - e)] = txring[Before(x - e)]
      BY <1>6, <1>7, <3>4, <3>5
    <3>7. QED
      BY <3>1, <3>2, <3>3, <3>6
  <2>2. CASE x < d /\ d <= y
    <3>1. ~(d <= off[Parked])
      BY <1>2, <1>3, <2>2
    <3>2. PICK k \in i .. ret - 1 : off[k] < d /\ d <= off[k + 1] /\ nic[d] = m_table[k]
      BY <1>1, <1>2, <3>1 DEF InStep
    <3>3. k = i
      <4>1. SUFFICES ASSUME k # i PROVE FALSE
        OBVIOUS
      <4>2. k \in 0 .. ret /\ i + 1 \in 0 .. ret /\ i + 1 <= k
        BY <1>2, <4>1
      <4>3. y <= off[k] /\ off[k] \in Int
        BY <1>1, <1>3, <4>2 DEF InStep
      <4>4. QED
        BY <1>3, <2>2, <3>2, <4>3
    <3>4. Before(0)' = After(seg - 1)
      BY <1>2, <1>6, LastSlot
    <3>5. txring'[Before(0)'] = nic[d]
      BY <1>4, <1>6, <1>8, <3>2, <3>3, <3>4
    <3>6. y \in d .. y /\ y - y = 0
      BY <1>3, <2>2
    <3>7. QED
      BY <2>2, <3>5, <3>6
  <2>3. CASE ~(d <= y)
    <3>1. ~(d <= x)
      BY <1>2, <1>3, <2>3
    <3>2. PICK k \in i .. ret - 1 : off[k] < d /\ d <= off[k + 1] /\ nic[d] = m_table[k]
      BY <1>1, <1>2, <1>3, <3>1 DEF InStep
    <3>3. k # i /\ k \in i + 1 .. ret - 1
      BY <1>2, <1>3, <2>3, <3>2
    <3>4. QED
      BY <2>3, <3>2, <3>3
  <2>4. QED
    BY <1>3, <2>1, <2>2, <2>3
<1>10. InStep(off)'
  BY <1>1, <1>2, <1>3, <1>9 DEF InStep, NbSegs
<1>11. QED
  BY <1>2, <1>10 DEF NicInvariant

(* The NIC and txring stay in step. *)
LEMMA InStepPreserved ==
    ASSUME ~AllocFails, ~Responses, NicSize <= TxSize, TxInvariant, NicInvariant, [Next]_vars
    PROVE  NicInvariant'
<1>1. CASE rte_eth_tx_burst
  BY <1>1, TakeInStep
<1>2. CASE nic_transmit
  BY <1>2, TransmitInStep
<1>3. CASE burst_sent
  BY <1>3, ParkInStep
<1>4. ASSUME \/ tx_drain \/ tx_burst_returns \/ burst_dropped \/ UNCHANGED vars
             \/ \E q \in Pkts : lazybsd_dpdk_if_send(q)
      PROVE  NicInvariant'
  <2>1. PICK off \in [0 .. ret -> Int] : InStep(off)
    BY DEF NicInvariant
  <2>2. UNCHANGED <<nic, txring, head, ret>> /\ ret \in Nat
    BY <1>4 DEF tx_drain, tx_burst_returns, burst_dropped, lazybsd_dpdk_if_send, vars,
                TxInvariant, TypeOK
  <2>3. Parked' = Parked
    BY <1>4 DEF tx_drain, tx_burst_returns, burst_dropped, lazybsd_dpdk_if_send, vars,
                Parked, TxInvariant, TypeOK
  <2>4. ret = 0 \/ m_table' = m_table
    BY <1>4 DEF tx_drain, tx_burst_returns, burst_dropped, lazybsd_dpdk_if_send, vars,
                TxInvariant, TypeOK, BurstInStep
  <2>5. InStep(off)'
    <3>1. CASE ret = 0
      <4>1. Parked = 0 /\ 0 .. ret - 1 = {} /\ Parked .. ret - 1 = {}
        BY <3>1 DEF Parked, TxInvariant, TypeOK
      <4>2. QED
        BY <2>1, <2>2, <2>3, <3>1, <4>1 DEF InStep, Before
    <3>2. CASE m_table' = m_table
      BY <2>1, <2>2, <2>3, <3>2 DEF InStep, Before
    <3>3. QED
      BY <2>4, <3>1, <3>2
  <2>6. QED
    BY <2>1, <2>2, <2>5 DEF NicInvariant
<1>5. CASE burst_done
  <2>1. PICK off \in [0 .. ret -> Int] : InStep(off)
    BY DEF NicInvariant
  <2>2. /\ UNCHANGED <<nic, txring, head>> /\ ret' = 0 /\ i' = 0
        /\ Parked = ret /\ Parked' = 0 /\ ret \in Nat /\ Len(nic) \in Nat
    BY <1>5 DEF burst_done, Parked, TxInvariant, TypeOK, BurstInStep
  <2>3. PICK new \in [0 .. 0 -> Int] : new[0] = Len(nic)
    <3>1. [k \in 0 .. 0 |-> Len(nic)] \in [0 .. 0 -> Int] /\ [k \in 0 .. 0 |-> Len(nic)][0] = Len(nic)
      BY <2>2
    <3>2. QED
      BY <3>1
  <2>4. off[ret] = Len(nic) /\ 0 .. 0 = {0} /\ 0 .. 0 - 1 = {}
    BY <2>1 DEF InStep
  <2>5. \A d \in 1 .. Len(nic) : \E e \in d .. Len(nic) : txring[Before(Len(nic) - e)] = nic[d]
    <3>1. SUFFICES ASSUME NEW d \in 1 .. Len(nic)
                   PROVE  \E e \in d .. Len(nic) : txring[Before(Len(nic) - e)] = nic[d]
      OBVIOUS
    <3>2. d <= off[Parked] /\ off[Parked] = Len(nic)
      BY <2>2, <2>4
    <3>3. \E e \in d .. off[Parked] : txring[Before(off[Parked] - e)] = nic[d]
      BY <2>1, <3>2 DEF InStep
    <3>4. QED
      BY <3>2, <3>3
  <2>6. InStep(new)'
    BY <2>2, <2>3, <2>4, <2>5 DEF InStep, Before
  <2>7. QED
    BY <2>2, <2>3, <2>6 DEF NicInvariant
<1>6. QED
  BY <1>1, <1>2, <1>3, <1>4, <1>5 DEF Next, Lcore, if_send_no_mbuf, send_single_packet

(* Without allocation failures and dispatcher answers, no chain is freed   *)
(* before the NIC has read it, provided that the NIC's queue is no longer  *)
(* than nic_tx_ring: the reuse of a slot is as good as the completion that *)
(* the code never asks the NIC for.                                        *)
THEOREM NotFreedBeforeSent ==
    ASSUME ~AllocFails, ~Responses, NicSize <= TxSize
    PROVE  SafeSpec => []SentBeforeFree
<1>1. Init => TxInvariant /\ NicInvariant
  <2>1. SUFFICES ASSUME Init PROVE TxInvariant /\ NicInvariant
    OBVIOUS
  <2>2. TxInvariant
    BY <2>1, InitOwner
  <2>3. PICK off \in [0 .. 0 -> Int] : off[0] = 0
    <3>1. [k \in 0 .. 0 |-> 0] \in [0 .. 0 -> Int] /\ [k \in 0 .. 0 |-> 0][0] = 0
      OBVIOUS
    <3>2. QED
      BY <3>1
  <2>4. nic = << >> /\ Len(nic) = 0 /\ ret = 0 /\ 0 .. 0 = {0} /\ 0 .. 0 - 1 = {} /\ 1 .. 0 = {}
    BY <2>1 DEF Init
  <2>5. InStep(off)
    BY <2>3, <2>4 DEF InStep
  <2>6. QED
    BY <2>2, <2>3, <2>4, <2>5, SizeAssumption DEF NicInvariant
<1>2. TxInvariant /\ NicInvariant /\ [Next]_vars => TxInvariant' /\ NicInvariant'
  BY OwnerPreserved, InStepPreserved
<1>3. TxInvariant /\ NicInvariant => SentBeforeFree
  BY HeldUntilRead
<1>4. QED
  BY <1>1, <1>2, <1>3, PTL DEF SafeSpec

=============================================================================
