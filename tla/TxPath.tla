------------------------------- MODULE TxPath -------------------------------
(***************************************************************************)
(* The zero-copy transmit path of one port: lazybsd_dpdk_if_send,          *)
(* send_single_packet and send_burst of src/lazybsd_dpdk.cc with           *)
(* lazybsd_if_send_onepkt and the nic_tx_ring of src/lazybsd_memory.cc     *)
(* (built with LAZYBSD_USE_PAGE_ARRAY).                                    *)
(*                                                                         *)
(* A packet of the stack is an mbuf chain whose data stays where it is:    *)
(* the rte mbuf queued for the NIC only refers to it.  So the chain must   *)
(* live until the NIC has read it.  The lcore parks it in txring, a ring   *)
(* as long as the NIC's, and frees it when its slot comes round again.     *)
(*                                                                         *)
(* A chain and the rte mbuf that refers to it share a name here; Response  *)
(* is an rte mbuf with data of its own, a received packet that the user's  *)
(* dispatcher turned into an answer.  The NIC (external) takes a prefix of *)
(* a burst, as much as its descriptors allow, and reads the descriptors in *)
(* order while the lcore does other things.                                *)
(***************************************************************************)
EXTENDS Integers, Sequences

CONSTANTS Pkts,         \* the mbuf chains of the stack
          Segs,         \* mbufs of each chain: nb_segs, one descriptor each
          NULL,
          Response,     \* an answer of the dispatcher, of one segment
          MaxBurst,     \* MAX_PKT_BURST
          TxSize,       \* TX_QUEUE_SIZE
          NicSize,      \* nb_txd: descriptors of the NIC's tx queue
          AllocFails,   \* may rte_pktmbuf_alloc of a reference mbuf fail?
          Responses     \* may the dispatcher answer LAZYBSD_DISPATCH_RESPONSE?

ASSUME PktsAssumption == NULL \notin Pkts /\ Response \notin Pkts /\ NULL # Response
ASSUME SizeAssumption == /\ MaxBurst \in Nat \ {0}
                         /\ TxSize \in Nat \ {0}
                         /\ NicSize \in Nat \ {0}
ASSUME SegsAssumption == Segs \in [Pkts -> 1 .. TxSize]
ASSUME FlagAssumption == AllocFails \in BOOLEAN /\ Responses \in BOOLEAN

VARIABLES
    len,            \* tx_mbufs.len
    m_table,        \* tx_mbufs.m_table: the rte mbufs of the next burst
    bsd_m_table,    \* tx_mbufs.bsd_m_table: the chains they refer to
    txring,         \* nic_tx_ring.m_table
    head,           \* nic_tx_ring.head
    live,           \* chains that are allocated
    nic,            \* descriptors the NIC has not read: the packet of each
    pc,             \* the lcore: "idle", or in send_burst: "tx", "sent"
    n,              \* send_burst's argument
    ret,            \* packets of the burst the NIC took
    i               \* next entry of the burst to deal with

vars == <<len, m_table, bsd_m_table, txring, head, live, nic, pc, n, ret, i>>

Slots == 0 .. MaxBurst - 1
Ring  == 0 .. TxSize - 1

NbSegs(m) == IF m \in Pkts THEN Segs[m] ELSE 1

Init ==
    /\ len = 0
    /\ m_table = [k \in Slots |-> NULL]
    /\ bsd_m_table = [k \in Slots |-> NULL]
    /\ txring = [s \in Ring |-> NULL]
    /\ head = 0
    /\ live = [p \in Pkts |-> FALSE]
    /\ nic = << >>
    /\ pc = "idle"
    /\ n = 0
    /\ ret = 0
    /\ i = 0

-----------------------------------------------------------------------------
(* Queueing.                                                               *)

(* Mutant of Queued: a full table waits for the drain. *)
Queued_Full(newlen) == len' = newlen /\ UNCHANGED <<pc, n>>

(* The end of lazybsd_dpdk_if_send and of send_single_packet: a full table *)
(* is sent at once.                                                        *)
Queued(newlen) ==
    IF newlen = MaxBurst
    THEN pc' = "tx" /\ n' = MaxBurst /\ UNCHANGED len
    ELSE len' = newlen /\ UNCHANGED <<pc, n>>

(* The stack allocates chain p and calls lazybsd_dpdk_if_send, which makes *)
(* a reference mbuf for it (lazybsd_bsd_to_rte, or a clone of the received *)
(* mbuf its data is in).                                                   *)
lazybsd_dpdk_if_send(p) ==
    /\ pc = "idle"
    /\ ~live[p]
    /\ live' = [live EXCEPT ![p] = TRUE]
    /\ m_table' = [m_table EXCEPT ![len] = p]
    /\ bsd_m_table' = [bsd_m_table EXCEPT ![len] = p]
    /\ Queued(len + 1)
    /\ UNCHANGED <<txring, head, nic, ret, i>>

(* lazybsd_bsd_to_rte gets no mbuf: lazybsd_if_send_onepkt frees the chain *)
(* and returns 0, which lazybsd_dpdk_if_send stores as the new length.     *)
if_send_no_mbuf ==
    /\ AllocFails
    /\ pc = "idle"
    /\ len' = 0
    /\ UNCHANGED <<m_table, bsd_m_table, txring, head, live, nic, pc, n, ret, i>>

(* send_single_packet, for an answer of the dispatcher: bsd_m_table keeps  *)
(* what the slot held before.                                              *)
send_single_packet ==
    /\ Responses
    /\ pc = "idle"
    /\ m_table' = [m_table EXCEPT ![len] = Response]
    /\ Queued(len + 1)
    /\ UNCHANGED <<bsd_m_table, txring, head, live, nic, ret, i>>

(* Mutant of tx_drain: a single packet is left waiting for company. *)
tx_drain_NotOne ==
    /\ pc = "idle"
    /\ len > 1
    /\ pc' = "tx"
    /\ n' = len
    /\ UNCHANGED <<len, m_table, bsd_m_table, txring, head, live, nic, ret, i>>

(* main_loop's TX drain. *)
tx_drain ==
    /\ pc = "idle"
    /\ len > 0
    /\ pc' = "tx"
    /\ n' = len
    /\ UNCHANGED <<len, m_table, bsd_m_table, txring, head, live, nic, ret, i>>

-----------------------------------------------------------------------------
(* send_burst.                                                             *)

(* rte_eth_tx_burst: the driver writes the descriptors of the next packet *)
(* of the burst, one for each segment, when they all fit.                  *)
rte_eth_tx_burst ==
    /\ pc = "tx"
    /\ ret < n
    /\ LET m == m_table[ret] IN
       /\ Len(nic) + NbSegs(m) <= NicSize
       /\ nic' = nic \o [k \in 1 .. NbSegs(m) |-> m]
    /\ ret' = ret + 1
    /\ UNCHANGED <<len, m_table, bsd_m_table, txring, head, live, pc, n, i>>

(* It returns ret, the packets it took. *)
tx_burst_returns ==
    /\ pc = "tx"
    /\ pc' = "sent"
    /\ UNCHANGED <<len, m_table, bsd_m_table, txring, head, live, nic, n, ret, i>>

(* Head_INC, k times. *)
After(k) == IF head + k < TxSize THEN head + k ELSE head + k - TxSize

(* Mutant of lazybsd_txring_enqueue: one slot too many is freed. *)
txring_enqueue_OneMore(p, seg_num) ==
    LET reused == {After(k) : k \in 0 .. seg_num}
        freed  == {txring[s] : s \in reused}
    IN  /\ txring' = [s \in Ring |-> IF s = After(seg_num - 1) THEN p
                                     ELSE IF s \in reused THEN NULL ELSE txring[s]]
        /\ head' = After(seg_num)
        /\ live' = [q \in Pkts |-> live[q] /\ q \notin freed]

(* lazybsd_txring_enqueue: frees what the next seg_num slots hold, and     *)
(* parks p in the last of them.                                            *)
lazybsd_txring_enqueue(p, seg_num) ==
    LET reused == {After(k) : k \in 0 .. seg_num - 1}
        freed  == {txring[s] : s \in reused}
    IN  /\ txring' = [s \in Ring |-> IF s = After(seg_num - 1) THEN p
                                     ELSE IF s \in reused THEN NULL ELSE txring[s]]
        /\ head' = After(seg_num)
        /\ live' = [q \in Pkts |-> live[q] /\ q \notin freed]

(* A packet the NIC took. *)
burst_sent ==
    /\ pc = "sent"
    /\ i < ret
    /\ IF bsd_m_table[i] # NULL
       THEN lazybsd_txring_enqueue(bsd_m_table[i], NbSegs(m_table[i]))
       ELSE UNCHANGED <<txring, head, live>>
    /\ i' = i + 1
    /\ UNCHANGED <<len, m_table, bsd_m_table, nic, pc, n, ret>>

(* Mutant of burst_dropped: only the rte mbuf is freed. *)
burst_dropped_Leak ==
    /\ pc = "sent"
    /\ ret <= i /\ i < n
    /\ i' = i + 1
    /\ UNCHANGED <<len, m_table, bsd_m_table, txring, head, live, nic, pc, n, ret>>

(* A packet the NIC had no room for: the rte mbuf and the chain are freed. *)
burst_dropped ==
    /\ pc = "sent"
    /\ ret <= i /\ i < n
    /\ live' = [q \in Pkts |-> live[q] /\ q # bsd_m_table[i]]
    /\ i' = i + 1
    /\ UNCHANGED <<len, m_table, bsd_m_table, txring, head, nic, pc, n, ret>>

(* send_burst returns and its caller empties the table. *)
burst_done ==
    /\ pc = "sent"
    /\ i = n
    /\ len' = 0
    /\ n' = 0 /\ ret' = 0 /\ i' = 0
    /\ pc' = "idle"
    /\ UNCHANGED <<m_table, bsd_m_table, txring, head, live, nic>>

(* The NIC has read its oldest descriptor. *)
nic_transmit ==
    /\ nic # << >>
    /\ nic' = Tail(nic)
    /\ UNCHANGED <<len, m_table, bsd_m_table, txring, head, live, pc, n, ret, i>>

-----------------------------------------------------------------------------
Lcore == \/ tx_drain \/ rte_eth_tx_burst \/ tx_burst_returns
         \/ burst_sent \/ burst_dropped \/ burst_done

Next ==
    \/ \E p \in Pkts : lazybsd_dpdk_if_send(p)
    \/ if_send_no_mbuf
    \/ send_single_packet
    \/ Lcore
    \/ nic_transmit

SafeSpec == Init /\ [][Next]_vars

(* The lcore goes round main_loop for ever and drains the table each time  *)
(* the tx delay has passed.                                                *)
Spec == SafeSpec /\ WF_vars(Lcore)

-----------------------------------------------------------------------------
(* Correctness.                                                            *)

TypeOK ==
    /\ len \in Slots
    /\ m_table \in [Slots -> Pkts \cup {NULL, Response}]
    /\ bsd_m_table \in [Slots -> Pkts \cup {NULL}]
    /\ txring \in [Ring -> Pkts \cup {NULL}]
    /\ head \in Ring
    /\ live \in [Pkts -> BOOLEAN]
    /\ nic \in Seq(Pkts \cup {NULL, Response})
    /\ pc \in {"idle", "tx", "sent"}
    /\ n \in 0 .. MaxBurst /\ ret \in 0 .. MaxBurst /\ i \in 0 .. MaxBurst

(* Entries of the table the lcore has still to deal with. *)
ToDo == IF pc = "idle" THEN 0 .. len - 1
        ELSE IF pc = "tx" THEN 0 .. n - 1
        ELSE i .. n - 1

(* Every live chain is held in exactly one place, the table or txring, and *)
(* neither holds a chain that was freed: nothing leaks, nothing is freed   *)
(* twice, nothing freed is referred to.                                    *)
OneOwner ==
    /\ \A p \in Pkts : live[p] <=> \/ \E k \in ToDo : bsd_m_table[k] = p
                                   \/ \E s \in Ring : txring[s] = p
    /\ \A k, l \in ToDo : bsd_m_table[k] = bsd_m_table[l] /\ bsd_m_table[k] # NULL => k = l
    /\ \A s, t \in Ring : txring[s] = txring[t] /\ txring[s] # NULL => s = t
    /\ \A k \in ToDo, s \in Ring : bsd_m_table[k] = txring[s] => txring[s] = NULL

(* A chain the NIC has still to read is not freed: reuse of a slot of      *)
(* txring means that the NIC is done with the packet parked there.         *)
SentBeforeFree == \A d \in 1 .. Len(nic) : nic[d] \in Pkts => live[nic[d]]

(* What keeps OneOwner: indices stay inside the burst, and an entry of the *)
(* table stands for a chain and its reference mbuf.                        *)
BurstInStep == /\ i <= n /\ ret <= n
               /\ pc = "idle" => n = 0
               /\ pc = "tx" => i = 0

TableAligned == \A k \in ToDo : bsd_m_table[k] \in Pkts /\ m_table[k] = bsd_m_table[k]

(* The inductive form of OneOwner. *)
TxInvariant == TypeOK /\ BurstInStep /\ TableAligned /\ OneOwner

(* No packet stays in the table: it is taken by the NIC or dropped, or,    *)
(* when no mbuf is left for another one, forgotten with the whole table    *)
(* (if_send_no_mbuf).                                                      *)
QueuedIsSent ==
    \A p \in Pkts : (\E k \in ToDo : bsd_m_table[k] = p) ~>
                    ~(\E k \in ToDo : bsd_m_table[k] = p)
=============================================================================
