------------------------------ MODULE PortInit ------------------------------
(***************************************************************************)
(* The start of the ports (src/lazybsd_dpdk.cc): the mbuf pools of the     *)
(* sockets, the loop of init_port_start over the ports and the slaves of   *)
(* bonded ones, with the statics it keeps from port to port, the           *)
(* redirection table, the wait for the links, and lazybsd_rss_check, which *)
(* tells the stack whether the NIC will deliver a connection to the queue  *)
(* of this process.                                                        *)
(*                                                                         *)
(* Words of the hash and its inputs are sequences of bits, the highest     *)
(* first.  The hash has HashBits of them (32 in the code).                 *)
(***************************************************************************)
EXTENDS Integers, Sequences, FiniteSets, SequencesExt, FiniteSetsExt, Functions

CONSTANTS
    PortList,       \* dpdk.portid_list
    Slaves,         \* of each port of the list, the slaves of a bond
    LcoreList,      \* of each port of the list, the lcores: one queue each
    KeySize,        \* of each port and slave: hash_key_size, "40" or "52"
    RetaSize,       \* reta_size
    Capa,           \* what the device can offload: "rx", "ip", "l4", "tso"
    DescLim,        \* the limits on its descriptors
    HashKey,        \* the keys "40", "52" and "sym"
    HashBits,       \* bits of a hash
    GroupSize,      \* RTE_ETH_RETA_GROUP_SIZE
    QueueSize,      \* RX_QUEUE_SIZE and TX_QUEUE_SIZE
    PortConfigs,    \* the configurations: symmetric_rss, tso, tx_csum_offoad_skip, numa_on
    ProcLcore,      \* dpdk.proc_lcore: the lcore of each process
    SocketOf,       \* rte_lcore_to_socket_id
    MaxPktBurst,    \* MAX_PKT_BURST
    CacheSize,      \* MEMPOOL_CACHE_SIZE
    DispatchSize,   \* DISPATCH_RING_SIZE
    PoolAlign,      \* 4096; the first pool is aligned to twice that
    Flows,          \* connections: saddr, daddr, sport, dport
    MaxCheckTime    \* MAX_CHECK_TIME

Devices == DOMAIN Capa

(* A lcore with no port ends the program; a device is the port of one bond *)
(* or a port of the list, as it is configured only once.  The size of a    *)
(* redirection table is a power of two (asserted where it is read).        *)
ASSUME PortAssumption ==
    /\ {HashBits, GroupSize, QueueSize, MaxCheckTime, PoolAlign} \subseteq Nat \ {0}
    /\ {MaxPktBurst, CacheSize, DispatchSize} \subseteq Nat
    /\ PortList \in Seq(Nat \cap Devices) /\ PortList # << >> /\ ProcLcore \in Seq(Nat)
    /\ \A p \in ToSet(PortList) :
          /\ LcoreList[p] \in Seq(ToSet(ProcLcore)) /\ LcoreList[p] # << >> /\ IsInjective(LcoreList[p])
          /\ Slaves[p] \in Seq(Devices \ ToSet(PortList))
    /\ \A d \in Devices :
          /\ RetaSize[d] \in Nat \cap ({0} \cup {2 ^ k : k \in 0 .. 15})
          /\ RetaSize[d] > GroupSize => RetaSize[d] % GroupSize = 0
          /\ DescLim[d] \in [min : Nat, max : Nat, align : Nat \ {0}] /\ DescLim[d].min <= DescLim[d].max

VARIABLES
    conf,       \* the configuration of the process
    pools,      \* pktmbuf_pool: the number of mbufs of each socket's pool, 0 for none
    pos,        \* the ports and slaves that are initialised
    rsskey,     \* rsskey, by name, and rsskey_len, by the name of the key of that length
    nbdesc,     \* the static nb_rxd (nb_txd goes the same way)
    dev,        \* what each device was configured with
    features,   \* hw_features of each port of the list
    link,       \* check_all_ports_link_status
    check       \* the last call of lazybsd_rss_check

portVars == <<conf, pools, pos, rsskey, nbdesc, dev, features, link, check>>

-----------------------------------------------------------------------------
(* The pools (init_mem_pool).                                              *)

Socket(lcore) == IF conf.numa THEN SocketOf[lcore] ELSE 0

AlignCeil(n, align) == ((n + align - 1) \div align) * align

NbPorts == Len(PortList)
NbProcs == Len(ProcLcore)

(* lcore_conf.nb_rx_queue of a process: a queue of each port it is listed at. *)
RxQueues(lcore) == Cardinality({p \in ToSet(PortList) : lcore \in ToSet(LcoreList[p])})

(* The mbufs of the first pool. *)
FirstPool(lcore) ==
    LET f == (Max(ToSet(PortList)) + 1) * 2
    IN  AlignCeil(RxQueues(lcore) * NbProcs * f * QueueSize + NbPorts * f * NbProcs * MaxPktBurst
                  + NbPorts * f * NbProcs * QueueSize + NbProcs * CacheSize
                  + NbProcs * NbPorts * DispatchSize, 2 * PoolAlign)

LaterPool_NoRings == AlignCeil(NbPorts * NbProcs * MaxPktBurst + NbProcs * CacheSize, PoolAlign)

(* The number that is computed for the reference pool of a socket is kept  *)
(* in the same variable, and is also that of the mbuf pool of the next     *)
(* socket.                                                                 *)
LaterPool ==
    AlignCeil(NbPorts * NbProcs * MaxPktBurst + NbPorts * NbProcs * QueueSize + NbProcs * CacheSize, PoolAlign)

NoPools == [s \in {Socket(l) : l \in ToSet(ProcLcore)} |-> 0]

(* In the primary process, on the given lcore: a pool for each socket that *)
(* has none, in the order of the processes, so that the socket of the      *)
(* first process has the first.                                            *)
init_mem_pool(lcore) ==
    /\ pos = 0 /\ pools = NoPools
    /\ pools' = [s \in DOMAIN pools |-> IF s = Socket(ProcLcore[1]) THEN FirstPool(lcore) ELSE LaterPool]
    /\ UNCHANGED <<conf, pos, rsskey, nbdesc, dev, features, link, check>>

-----------------------------------------------------------------------------
(* The devices in the order of the loops, with the port each belongs to:   *)
(* the slaves of a bond come before it.                                    *)
InitOrder ==
    FlattenSeq([i \in 1 .. Len(PortList) |->
        LET u == PortList[i]
        IN  [j \in 1 .. Len(Slaves[u]) + 1 |->
                << IF j <= Len(Slaves[u]) THEN Slaves[u][j] ELSE u, u >>]])

NextKey_SymmetricFirst(k, d) ==
    LET given == IF conf.symmetric THEN [k EXCEPT !.key = "sym"] ELSE k
    IN  IF KeySize[d] = "52" THEN [key |-> "52", len |-> "52"] ELSE given

(* 52 bytes of key when the device asks for them; nothing sets 40 again.   *)
NextKey(k, d) ==
    LET sized == IF KeySize[d] = "52" THEN [key |-> "52", len |-> "52"] ELSE k
    IN  IF conf.symmetric THEN [sized EXCEPT !.key = "sym"] ELSE sized

Features_AnyTso(d) ==
    (Capa[d] \cap {"rx"}) \cup (IF conf.csumskip THEN {} ELSE Capa[d] \cap {"ip", "l4"})
    \cup (IF conf.tso THEN {"tso"} ELSE {})

(* The offloads asked of a device; each one is also noted in hw_features   *)
(* of the port.                                                            *)
Features(d) ==
    (Capa[d] \cap {"rx"}) \cup (IF conf.csumskip THEN {} ELSE Capa[d] \cap {"ip", "l4"})
    \cup (IF conf.tso THEN Capa[d] \cap {"tso"} ELSE {})

(* rte_eth_dev_adjust_nb_rx_tx_desc *)
Adjusted(n, d) ==
    LET lim == DescLim[d]
        up  == AlignCeil(n, lim.align)
        cut == IF up > lim.max THEN lim.max ELSE up
    IN  IF cut < lim.min THEN lim.min ELSE cut

set_rss_table_PerGroup(size, nb) == [k \in 0 .. size - 1 |-> (k % GroupSize) % nb]

(* One entry after the other, over the groups the device takes them in. *)
set_rss_table(size, nb) ==
    LET groups == IF size \div GroupSize > 1 THEN size \div GroupSize ELSE 1
        table  == [i \in 0 .. groups - 1 |-> [j \in 0 .. GroupSize - 1 |-> (i * GroupSize + j) % nb]]
    IN  [k \in 0 .. size - 1 |-> table[k \div GroupSize][k % GroupSize]]

Descriptors_Unadjusted(d) == nbdesc

(* The descriptors the queues of a device are set up with. *)
Descriptors(d) == Adjusted(nbdesc, d)

init_port_start ==
    LET d  == InitOrder[pos + 1][1]
        u  == InitOrder[pos + 1][2]
        nb == Len(LcoreList[u])
        n  == Descriptors(d)
        k  == NextKey(rsskey, d)
    IN  /\ pos < Len(InitOrder) /\ pools # NoPools
        /\ pos' = pos + 1
        /\ rsskey' = k
        /\ nbdesc' = n
        /\ dev' = [dev EXCEPT ![d] = [key |-> k.key, offloads |-> Features(d), desc |-> n,
                                      reta |-> IF nb > 1 /\ RetaSize[d] > 0
                                               THEN set_rss_table(RetaSize[d], nb) ELSE << >>]]
        /\ features' = [features EXCEPT ![u] = @ \cup Features(d)]
        /\ UNCHANGED <<conf, pools, link, check>>

(* A device may have too few queues, or refuse its configuration (a key of *)
(* another length, for one), a queue or the start; or a pool cannot be     *)
(* had: the program then ends.                                             *)
init_port_failed ==
    /\ pos < Len(InitOrder)
    /\ pos' = Len(InitOrder) + 1
    /\ UNCHANGED <<conf, pools, rsskey, nbdesc, dev, features, link, check>>

-----------------------------------------------------------------------------
(* The wait for the links: a look every 100 ms, and a last one to report.  *)

TimeUp_Late(count) == count = MaxCheckTime

TimeUp(count) == count = MaxCheckTime - 1

check_all_ports_link_status(up) ==
    /\ pos = Len(InitOrder) /\ ~ link.over
    /\ link' = IF link.count > MaxCheckTime THEN [link EXCEPT !.over = TRUE]
               ELSE IF link.flag THEN [link EXCEPT !.over = TRUE, !.reported = TRUE]
               ELSE [link EXCEPT !.flag = up \/ TimeUp(link.count), !.count = @ + 1]
    /\ UNCHANGED <<conf, pools, pos, rsskey, nbdesc, dev, features, check>>

-----------------------------------------------------------------------------
(* The hash.  KeyBit is 0 past the end of the key.                         *)

KeyBit(key, i) == IF i <= Len(HashKey[key]) THEN HashKey[key][i] ELSE 0

Xor(a, b) == [w \in 1 .. HashBits |-> (a[w] + b[w]) % 2]

Zero == [w \in 1 .. HashBits |-> 0]

(* The window moves on by one bit of the key. *)
Shifted(v, key, n) == Append(Tail(v), KeyBit(key, n + HashBits))

toeplitz_hash(key, data) ==
    LET at[n \in 0 .. Len(data)] ==
            IF n = 0 THEN [hash |-> Zero, v |-> [w \in 1 .. HashBits |-> KeyBit(key, w)]]
            ELSE LET s == at[n - 1]
                 IN  [hash |-> IF data[n] = 1 THEN Xor(s.hash, s.v) ELSE s.hash, v |-> Shifted(s.v, key, n)]
    IN  at[Len(data)].hash

(* The hash of the NIC: bit by bit, the parity of the data against the key *)
(* from that bit on.                                                       *)
NicHash(key, data) ==
    [w \in 1 .. HashBits |->
        Cardinality({n \in 1 .. Len(data) : data[n] = 1 /\ KeyBit(key, n + w - 1) = 1}) % 2]

Number(bits) ==
    LET at[n \in 0 .. Len(bits)] == IF n = 0 THEN 0 ELSE 2 * at[n - 1] + bits[n]
    IN  at[Len(bits)]

DataOf(f) == f.saddr \o f.daddr \o f.sport \o f.dport

Swapped(f) == [saddr |-> f.daddr, daddr |-> f.saddr, sport |-> f.dport, dport |-> f.sport]

(* Keys and packets are bits, the two addresses of a packet are of one     *)
(* length and so are its two ports; the symmetric key repeats at either    *)
(* length (0x6d5a, twice in an address and once in a port).                *)
ASSUME FlowAssumption ==
    /\ \A key \in {"40", "52", "sym"} : HashKey[key] \in Seq({0, 1})
    /\ \A f \in Flows :
          /\ {f.saddr, f.daddr, f.sport, f.dport} \subseteq Seq({0, 1})
          /\ Len(f.saddr) = Len(f.daddr) /\ Len(f.sport) = Len(f.dport)
          /\ \A len \in {Len(f.saddr), Len(f.sport)}, i \in 1 .. Len(DataOf(f)) + HashBits :
                i + len < Len(DataOf(f)) + HashBits => KeyBit("sym", i + len) = KeyBit("sym", i)

NicQueue(d, data) == dev[d].reta[Number(NicHash(dev[d].key, data)) % RetaSize[d]]

(* init_lcore_conf: the place of the lcore on the port's list. *)
QueueOf(p, lcore) == (CHOOSE i \in 1 .. Len(LcoreList[p]) : LcoreList[p][i] = lcore) - 1

Claims(p, lcore, data) ==
    LET nb == Len(LcoreList[p])
    IN  nb <= 1 \/ (Number(toeplitz_hash(rsskey.key, data)) % RetaSize[p]) % nb = QueueOf(p, lcore)

NoCheck == [port |-> << >>, nic |-> -1, claimed |-> {}, hash |-> << >>, back |-> << >>]

(* Which lcores of the port take the connection for theirs, the queue it   *)
(* is delivered to, and the hashes of its two directions.                  *)
lazybsd_rss_check(p, f) ==
    /\ pos = Len(InitOrder) /\ check = NoCheck
    /\ RetaSize[p] > 0
    /\ check' = [port |-> << p >>,
                 nic |-> IF Len(LcoreList[p]) > 1 THEN NicQueue(p, DataOf(f)) ELSE 0,
                 claimed |-> {QueueOf(p, l) : l \in {l \in ToSet(LcoreList[p]) : Claims(p, l, DataOf(f))}},
                 hash |-> toeplitz_hash(rsskey.key, DataOf(f)),
                 back |-> toeplitz_hash(rsskey.key, DataOf(Swapped(f)))]
    /\ UNCHANGED <<conf, pools, pos, rsskey, nbdesc, dev, features, link>>

-----------------------------------------------------------------------------
PortInitState ==
    /\ conf \in PortConfigs
    /\ pools = NoPools
    /\ pos = 0
    /\ rsskey = [key |-> "40", len |-> "40"]
    /\ nbdesc = QueueSize
    /\ dev = [d \in Devices |-> [key |-> "none", offloads |-> {}, desc |-> 0, reta |-> << >>]]
    /\ features = [p \in ToSet(PortList) |-> {}]
    /\ link = [count |-> 0, flag |-> FALSE, over |-> FALSE, reported |-> FALSE]
    /\ check = NoCheck

PortNext ==
    \/ \E l \in ToSet(ProcLcore) : init_mem_pool(l)
    \/ init_port_start
    \/ init_port_failed
    \/ \E up \in BOOLEAN : check_all_ports_link_status(up)
    \/ \E p \in ToSet(PortList), f \in Flows : lazybsd_rss_check(p, f)

PortSpec == PortInitState /\ [][PortNext]_portVars

-----------------------------------------------------------------------------
(* One of the first n devices asks for the longer key. *)
LongKey(n) == \E k \in 1 .. n : KeySize[InitOrder[k][1]] = "52"

(* The configurations in which the key is not replaced after port p has    *)
(* got its own: the symmetric key, devices that all take the short one, or *)
(* one that takes the long one no later than p.                            *)
KeyStays(p) ==
    \/ conf.symmetric
    \/ LET n == Len(InitOrder)
       IN  \A i \in 1 .. n : InitOrder[i][1] = p /\ LongKey(n) => LongKey(i)

(* A connection is claimed by exactly the process whose queue the NIC      *)
(* delivers it to, so that its answers come back to the process that       *)
(* opened it: the table, the key and the hash of the device and the check  *)
(* agree, also when the queues do not divide the groups of the table       *)
(* (lazybsd_rss_check, toeplitz_hash, set_rss_table).  The check has one   *)
(* key for all ports, that of the last: nothing is said of a port that was *)
(* set up with 40 bytes of key before a device asked for 52, unless        *)
(* symmetric_rss is on; there the check and the NIC may disagree.          *)
ClaimedWhereDelivered ==
    \A i \in 1 .. Len(check.port) :
        KeyStays(check.port[i]) => check.claimed = {check.nic}

(* With the symmetric key both directions of a connection have one hash,   *)
(* and so one queue (symmetric_rsskey, toeplitz_hash).                     *)
SymmetricFlows == conf.symmetric /\ check # NoCheck => check.hash = check.back

(* The queue the NIC chooses for a connection is the one its process       *)
(* expects, for its answers and, with the symmetric key, for both          *)
(* directions, whatever ports were set up before, and after unless the key *)
(* does not stay.                                                          *)
FlowsDelivered == ClaimedWhereDelivered /\ SymmetricFlows

(* What the stack is told that a port can offload was configured on it or  *)
(* on one of its slaves (hw_features): a bond is announced with what any   *)
(* of its slaves can do.                                                   *)
FeaturesConfigured ==
    \A p \in ToSet(PortList) :
        features[p] \subseteq Capa[p] \cup UNION {Capa[s] : s \in ToSet(Slaves[p])}

(* QueueSize descriptors are too few for the device, or no number it takes. *)
OverQueueSize(d) == DescLim[d].min > QueueSize \/ QueueSize % DescLim[d].align # 0

(* Every device is set up with a number of descriptors it accepts, though  *)
(* the number starts from what the device before it made of it, and it is  *)
(* never more than the transmit ring of the process has places unless a    *)
(* device so far does not work with that many (nb_rxd, nb_txd).            *)
DescriptorsFit ==
    \A i \in 1 .. IF pos > Len(InitOrder) THEN 0 ELSE pos :
        LET d == InitOrder[i][1]
        IN  /\ dev[d].desc \in DescLim[d].min .. DescLim[d].max
            /\ \/ dev[d].desc <= QueueSize
               \/ \E k \in 1 .. pos : OverQueueSize(InitOrder[k][1])

(* The wait for the links is over only after the state of all of them was  *)
(* reported, also when one never comes up.                                 *)
LinksReported == link.over => link.reported

(* The receive rings of the ports can be filled: the pool of a socket has  *)
(* an mbuf for every descriptor of the queues polled on it, also where the *)
(* pool is not the first and got the smaller number (init_mem_pool).  The  *)
(* numbers do not count the slaves of a bond, nor devices that take more   *)
(* descriptors than RX_QUEUE_SIZE.                                         *)
RingsFilled ==
    pools # NoPools =>
        \A s \in DOMAIN pools :
            LET queues == {pl \in ToSet(PortList) \X ToSet(ProcLcore) :
                              /\ Slaves[pl[1]] = << >> /\ pl[2] \in ToSet(LcoreList[pl[1]])
                              /\ Socket(pl[2]) = s}
            IN  pools[s] >= SumFunction([pl \in queues |-> Min({dev[pl[1]].desc, QueueSize})])

(* What is kept from one device to the next while ports are set up does no *)
(* harm: descriptors and features are those the devices have, the pools    *)
(* suffice for them, and the wait for the links reports all of them        *)
(* (init_mem_pool, init_port_start).                                       *)
PortsConfigured == DescriptorsFit /\ FeaturesConfigured /\ LinksReported /\ RingsFilled
=============================================================================
