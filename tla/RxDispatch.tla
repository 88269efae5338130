----------------------------- MODULE RxDispatch -----------------------------
(***************************************************************************)
(* The receive side of one port: main_loop, process_dispatch_ring,         *)
(* process_packets and lazybsd_veth_input of src/lazybsd_dpdk.cc.          *)
(*                                                                         *)
(* Every lcore is a process of its own, with its own copy of the stack. It *)
(* polls one hardware queue, and one dispatch ring on which the others put *)
(* the packets meant for it: those that the user's dispatcher sends there  *)
(* and copies of ARP (and NDP) packets, which every stack must see.  The   *)
(* rings and the mbuf pool are shared memory; rte_ring and rte_mempool     *)
(* operations (external) are atomic.                                       *)
(*                                                                         *)
(* A packet is one rte mbuf: no scatter or LRO offload is ever enabled, so *)
(* the NIC delivers single segments.  KNI is not built.                    *)
(***************************************************************************)
EXTENDS Integers, Sequences, SeqPlaces

CONSTANTS Mbufs,        \* the rte mbufs of pktmbuf_pool
          NbQueues,     \* queues of the port, and processes
          MaxFrames,    \* bound: frames the network sends
          Arp,          \* the frames that protocol_filter calls ARP or NDP
          MaxBurst,     \* MAX_PKT_BURST
          RingCap,      \* capacity of a dispatch ring: DISPATCH_RING_SIZE - 1
          RxSize,       \* RX_QUEUE_SIZE
          HasDispatcher \* was a packet_dispatcher registered?

ASSUME QueueAssumption == NbQueues \in Nat \ {0}
ASSUME BurstAssumption == /\ MaxBurst \in Nat \ {0}
                          /\ RingCap \in Nat \ {0}
                          /\ RxSize \in Nat \ {0}
ASSUME FrameAssumption == MaxFrames \in Nat /\ Arp \subseteq 1 .. MaxFrames
ASSUME DispAssumption  == HasDispatcher \in BOOLEAN

VARIABLES
    pool,       \* free mbufs
    data,       \* mbuf -> the frame in it
    nicq,       \* rx queue of each lcore
    ring,       \* dispatch_ring[port][queue]
    burst,      \* what is left of each lcore's pkts_burst
    from_ring,  \* pkts_from_ring
    j,          \* the loop variable of the copies
    pc,         \* where each lcore is
    stack,      \* mbufs each stack holds
    tx,         \* mbufs each lcore has sent as responses
    src,        \* history: the queue each frame arrived on
    delivered,  \* history: the frames each stack was given, in order
    missed,     \* history: the frames dropped on their way to each stack
    shared      \* history: the ARP frames an lcore is done copying

vars == <<pool, data, nicq, ring, burst, from_ring, j, pc, stack, tx,
          src, delivered, missed, shared>>

Queues == 0 .. NbQueues - 1

LAZYBSD_DISPATCH_ERROR    == -1
LAZYBSD_DISPATCH_RESPONSE == -2

Init ==
    /\ pool = Mbufs
    /\ data = [m \in Mbufs |-> 0]
    /\ nicq = [q \in Queues |-> << >>]
    /\ ring = [q \in Queues |-> << >>]
    /\ burst = [q \in Queues |-> << >>]
    /\ from_ring = [q \in Queues |-> FALSE]
    /\ j = [q \in Queues |-> 0]
    /\ pc = [q \in Queues |-> "ring"]
    /\ stack = [q \in Queues |-> {}]
    /\ tx = [q \in Queues |-> {}]
    /\ src = << >>
    /\ delivered = [q \in Queues |-> << >>]
    /\ missed = [q \in Queues |-> {}]
    /\ shared = {}

-----------------------------------------------------------------------------
(* The NIC puts the next frame on the queue it hashes to; without a free   *)
(* mbuf or descriptor it drops the frame, which then never arrived.        *)
nic_receive(q, m) ==
    /\ Len(src) < MaxFrames
    /\ m \in pool
    /\ Len(nicq[q]) < RxSize
    /\ src' = Append(src, q)
    /\ data' = [data EXCEPT ![m] = Len(src) + 1]
    /\ pool' = pool \ {m}
    /\ nicq' = [nicq EXCEPT ![q] = Append(@, m)]
    /\ UNCHANGED <<ring, burst, from_ring, j, pc, stack, tx, delivered, missed, shared>>

(* process_dispatch_ring: a burst from the ring. *)
process_dispatch_ring(q) ==
    LET nb_rb == Lesser(MaxBurst, Len(ring[q])) IN
    /\ pc[q] = "ring"
    /\ burst' = [burst EXCEPT ![q] = SubSeq(ring[q], 1, nb_rb)]
    /\ ring' = [ring EXCEPT ![q] = SubSeq(@, nb_rb + 1, Len(@))]
    /\ from_ring' = [from_ring EXCEPT ![q] = TRUE]
    /\ pc' = [pc EXCEPT ![q] = IF nb_rb > 0 THEN "work" ELSE "rx"]
    /\ UNCHANGED <<pool, data, nicq, j, stack, tx, src, delivered, missed, shared>>

(* Mutant of rte_eth_rx_burst: an lcore with nothing to read polls its NIC *)
(* queue again.                                                            *)
rte_eth_rx_burst_Spin(q) ==
    /\ pc[q] = "rx"
    /\ \E nb_rx \in 0 .. Lesser(MaxBurst, Len(nicq[q])) :
          /\ Len(nicq[q]) > 0 => nb_rx > 0
          /\ burst' = [burst EXCEPT ![q] = SubSeq(nicq[q], 1, nb_rx)]
          /\ nicq' = [nicq EXCEPT ![q] = SubSeq(@, nb_rx + 1, Len(@))]
          /\ pc' = [pc EXCEPT ![q] = IF nb_rx > 0 THEN "work" ELSE "rx"]
    /\ from_ring' = [from_ring EXCEPT ![q] = FALSE]
    /\ UNCHANGED <<pool, data, ring, j, stack, tx, src, delivered, missed, shared>>

(* rte_eth_rx_burst: a burst from the NIC, as long as the driver likes. *)
rte_eth_rx_burst(q) ==
    /\ pc[q] = "rx"
    /\ \E nb_rx \in 0 .. Lesser(MaxBurst, Len(nicq[q])) :
          /\ Len(nicq[q]) > 0 => nb_rx > 0
          /\ burst' = [burst EXCEPT ![q] = SubSeq(nicq[q], 1, nb_rx)]
          /\ nicq' = [nicq EXCEPT ![q] = SubSeq(@, nb_rx + 1, Len(@))]
          /\ pc' = [pc EXCEPT ![q] = IF nb_rx > 0 THEN "work" ELSE "ring"]
    /\ from_ring' = [from_ring EXCEPT ![q] = FALSE]
    /\ UNCHANGED <<pool, data, ring, j, stack, tx, src, delivered, missed, shared>>

-----------------------------------------------------------------------------
(* process_packets, on the first packet of the burst.                      *)

rtem(q)  == burst[q][1]
frame(q) == data[rtem(q)]

(* Mutant of Filter: packets from a ring are copied too. *)
Filter_Always(q) ==
    /\ j' = [j EXCEPT ![q] = 0]
    /\ pc' = [pc EXCEPT ![q] = IF frame(q) \in Arp THEN "copy" ELSE "input"]
    /\ UNCHANGED <<pool, data, nicq, ring, burst, from_ring, stack, tx,
                   src, delivered, missed, shared>>

(* protocol_filter: an ARP packet from the NIC is copied to the other      *)
(* queues first; whatever came from a ring is not.                         *)
Filter(q) ==
    /\ j' = [j EXCEPT ![q] = 0]
    /\ pc' = [pc EXCEPT ![q] = IF frame(q) \in Arp /\ ~from_ring[q] THEN "copy" ELSE "input"]
    /\ UNCHANGED <<pool, data, nicq, ring, burst, from_ring, stack, tx,
                   src, delivered, missed, shared>>

(* On to the next packet; after the last one, main_loop goes from the ring *)
(* to the NIC, and from the NIC round to the ring.                         *)
NextPacket(q) ==
    /\ burst' = [burst EXCEPT ![q] = Tail(@)]
    /\ pc' = [pc EXCEPT ![q] = IF Len(burst[q]) > 1 THEN "work"
                               ELSE IF from_ring[q] THEN "rx" ELSE "ring"]

(* No dispatcher, or a packet that another lcore has dispatched. *)
undispatched(q) ==
    /\ pc[q] = "work"
    /\ from_ring[q] \/ ~HasDispatcher
    /\ Filter(q)

(* The dispatcher keeps the packet on its queue. *)
dispatch_here(q) ==
    /\ pc[q] = "work"
    /\ ~from_ring[q] /\ HasDispatcher
    /\ Filter(q)

(* The dispatcher answers anything else. *)
dispatch(q, ret) ==
    /\ pc[q] = "work"
    /\ ~from_ring[q] /\ HasDispatcher
    /\ ret # q
    /\ NextPacket(q)
    /\ \/ /\ ret = LAZYBSD_DISPATCH_RESPONSE
          /\ tx' = [tx EXCEPT ![q] = @ \cup {rtem(q)}]
          /\ UNCHANGED <<pool, ring, missed>>
       \/ /\ ret = LAZYBSD_DISPATCH_ERROR \/ ret >= NbQueues
          /\ pool' = pool \cup {rtem(q)}
          /\ UNCHANGED <<tx, ring, missed>>
       \/ /\ ret \in Queues
          /\ IF Len(ring[ret]) < RingCap
             THEN /\ ring' = [ring EXCEPT ![ret] = Append(@, rtem(q))]
                  /\ UNCHANGED <<pool, missed>>
             ELSE /\ pool' = pool \cup {rtem(q)}
                  /\ missed' = [missed EXCEPT ![ret] = @ \cup {frame(q)}]
                  /\ UNCHANGED ring
          /\ UNCHANGED tx
    /\ UNCHANGED <<data, nicq, from_ring, j, stack, src, delivered, shared>>

(* One round of the loop that copies an ARP packet: pktmbuf_deep_clone and *)
(* rte_ring_enqueue.  The clone may fail although the pool is not empty:   *)
(* the caches of other lcores may hold what is left of it.                 *)
copy(q) ==
    /\ pc[q] = "copy"
    /\ j[q] < NbQueues
    /\ j' = [j EXCEPT ![q] = @ + 1]
    /\ \/ /\ j[q] = q
          /\ UNCHANGED <<pool, data, ring, missed>>
       \/ /\ j[q] # q
          /\ Len(ring[j[q]]) < RingCap
          /\ \E mbuf_clone \in pool :
                /\ pool' = pool \ {mbuf_clone}
                /\ data' = [data EXCEPT ![mbuf_clone] = frame(q)]
                /\ ring' = [ring EXCEPT ![j[q]] = Append(@, mbuf_clone)]
          /\ UNCHANGED missed
       \/ /\ j[q] # q
          /\ missed' = [missed EXCEPT ![j[q]] = @ \cup {frame(q)}]
          /\ UNCHANGED <<pool, data, ring>>
    /\ UNCHANGED <<nicq, burst, from_ring, pc, stack, tx, src, delivered, shared>>

(* Mutant of copies_done: the last queue is left out. *)
copies_done_Early(q) ==
    /\ pc[q] = "copy"
    /\ j[q] = NbQueues - 1
    /\ pc' = [pc EXCEPT ![q] = "input"]
    /\ shared' = shared \cup {frame(q)}
    /\ UNCHANGED <<pool, data, nicq, ring, burst, from_ring, j, stack, tx,
                   src, delivered, missed>>

copies_done(q) ==
    /\ pc[q] = "copy"
    /\ j[q] = NbQueues
    /\ pc' = [pc EXCEPT ![q] = "input"]
    /\ shared' = shared \cup {frame(q)}
    /\ UNCHANGED <<pool, data, nicq, ring, burst, from_ring, j, stack, tx,
                   src, delivered, missed>>

(* lazybsd_veth_input: the stack takes the packet over, ... *)
lazybsd_veth_input(q) ==
    /\ pc[q] = "input"
    /\ stack' = [stack EXCEPT ![q] = @ \cup {rtem(q)}]
    /\ delivered' = [delivered EXCEPT ![q] = Append(@, frame(q))]
    /\ NextPacket(q)
    /\ UNCHANGED <<pool, data, nicq, ring, from_ring, j, tx, src, missed, shared>>

(* Mutant of veth_input_drop: the packet is dropped and not freed. *)
veth_input_drop_Leak(q) ==
    /\ pc[q] = "input"
    /\ missed' = [missed EXCEPT ![q] = @ \cup {frame(q)}]
    /\ NextPacket(q)
    /\ UNCHANGED <<pool, data, nicq, ring, from_ring, j, stack, tx, src, delivered, shared>>

(* ... or it has a bad checksum, or lazybsd_mbuf_gethdr finds no memory.   *)
veth_input_drop(q) ==
    /\ pc[q] = "input"
    /\ pool' = pool \cup {rtem(q)}
    /\ missed' = [missed EXCEPT ![q] = @ \cup {frame(q)}]
    /\ NextPacket(q)
    /\ UNCHANGED <<data, nicq, ring, from_ring, j, stack, tx, src, delivered, shared>>

-----------------------------------------------------------------------------
(* The stack frees an mbuf (lazybsd_mbuf_ext_free). *)
lazybsd_mbuf_ext_free(q, m) ==
    /\ m \in stack[q]
    /\ stack' = [stack EXCEPT ![q] = @ \ {m}]
    /\ pool' = pool \cup {m}
    /\ UNCHANGED <<data, nicq, ring, burst, from_ring, j, pc, tx,
                   src, delivered, missed, shared>>

(* The NIC has sent a response, or send_burst has dropped it. *)
tx_free(q, m) ==
    /\ m \in tx[q]
    /\ tx' = [tx EXCEPT ![q] = @ \ {m}]
    /\ pool' = pool \cup {m}
    /\ UNCHANGED <<data, nicq, ring, burst, from_ring, j, pc, stack,
                   src, delivered, missed, shared>>

-----------------------------------------------------------------------------
(* One lcore going round main_loop. *)
Lcore(q) ==
    \/ process_dispatch_ring(q)
    \/ rte_eth_rx_burst(q)
    \/ undispatched(q)
    \/ dispatch_here(q)
    \/ \E ret \in -2 .. NbQueues : dispatch(q, ret)
    \/ copy(q)
    \/ copies_done(q)
    \/ lazybsd_veth_input(q)
    \/ veth_input_drop(q)

Environment(q) ==
    \E m \in Mbufs : nic_receive(q, m) \/ lazybsd_mbuf_ext_free(q, m) \/ tx_free(q, m)

Next == \E q \in Queues : Lcore(q) \/ Environment(q)

SafeSpec == Init /\ [][Next]_vars

(* Every process keeps going round its main_loop. *)
Spec == SafeSpec /\ \A q \in Queues : WF_vars(Lcore(q))

-----------------------------------------------------------------------------
(* Correctness.                                                            *)

Frames == 1 .. MaxFrames

TypeOK ==
    /\ pool \subseteq Mbufs
    /\ data \in [Mbufs -> 0 .. MaxFrames]
    /\ nicq \in [Queues -> Seq(Mbufs)]
    /\ ring \in [Queues -> Seq(Mbufs)]
    /\ burst \in [Queues -> Seq(Mbufs)]
    /\ from_ring \in [Queues -> BOOLEAN]
    /\ j \in [Queues -> 0 .. NbQueues]
    /\ pc \in [Queues -> {"ring", "rx", "work", "copy", "input"}]
    /\ stack \in [Queues -> SUBSET Mbufs]
    /\ tx \in [Queues -> SUBSET Mbufs]
    /\ src \in Seq(Queues) /\ Len(src) <= MaxFrames
    /\ delivered \in [Queues -> Seq(0 .. MaxFrames)]
    /\ missed \in [Queues -> SUBSET (0 .. MaxFrames)]
    /\ shared \subseteq 0 .. MaxFrames

(* A packet is handled exactly while there is one. *)
BurstInStep == \A q \in Queues : pc[q] \in {"work", "copy", "input"} <=> Len(burst[q]) > 0

Places == {"nic", "ring", "burst", "stack", "tx"}

Holds(p, q, m) ==
    \/ p = "nic"   /\ On(nicq[q], m)
    \/ p = "ring"  /\ On(ring[q], m)
    \/ p = "burst" /\ On(burst[q], m)
    \/ p = "stack" /\ m \in stack[q]
    \/ p = "tx"    /\ m \in tx[q]

NotLost == \A m \in Mbufs \ pool : \E p \in Places, q \in Queues : Holds(p, q, m)

FreeNotHeld == \A m \in pool, p \in Places, q \in Queues : ~Holds(p, q, m)

SingleHolder ==
    \A m \in Mbufs, p, o \in Places, q, r \in Queues :
        Holds(p, q, m) /\ Holds(o, r, m) => p = o /\ q = r

NoRepeats == \A q \in Queues : Once(nicq[q]) /\ Once(ring[q]) /\ Once(burst[q])

(* Every mbuf is free or in exactly one place of one lcore: across drops,  *)
(* full rings, failed copies and hand-overs between processes none is      *)
(* lost, freed while in use, or owned twice.                               *)
OneHolder == NotLost /\ FreeNotHeld /\ SingleHolder /\ NoRepeats

(* The inductive form of OneHolder. *)
RxInvariant == TypeOK /\ BurstInStep /\ OneHolder

(* The frames that arrived on one queue reach a stack in the order of      *)
(* their arrival and at most once each, by whichever way they come.        *)
InOrder ==
    \A q \in Queues : \A i, k \in 1 .. Len(delivered[q]) :
        i < k /\ src[delivered[q][i]] = src[delivered[q][k]] =>
            delivered[q][i] < delivered[q][k]

InTransit(f, q) ==
    \E m \in Mbufs : data[m] = f /\ (On(ring[q], m) \/ On(burst[q], m))

(* An ARP frame its lcore has kept and copied is on its way to every       *)
(* stack, or there, or was dropped on that way: no stack is left out.      *)
ArpShared ==
    \A f \in shared, q \in Queues :
        InTransit(f, q) \/ On(delivered[q], f) \/ f \in missed[q]

(* A frame on its way to a stack gets there or is dropped at its door.     *)
DispatchedArrives ==
    \A q \in Queues, f \in Frames :
        (\E i \in 1 .. Len(ring[q]) : data[ring[q][i]] = f) ~>
            (On(delivered[q], f) \/ f \in missed[q])
=============================================================================
