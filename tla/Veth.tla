-------------------------------- MODULE Veth --------------------------------
(***************************************************************************)
(* The virtual Ethernet interface (bsd/lib/lazybsd_veth.c, with the side   *)
(* of it in src/lazybsd_dpdk.cc): received packets wrapped in mbufs without *)
(* a copy, the chain an application fills for a zero-copy write, and the   *)
(* attachment of a port with its addresses.                                *)
(*                                                                         *)
(* A received packet is a sequence of segments (rte_mbufs); an mbuf of the *)
(* stack is the segment it refers to.  Bytes of a zero-copy write are      *)
(* numbered in the order in which they are written.                        *)
(***************************************************************************)
EXTENDS Integers, Sequences, FiniteSets, SequencesExt, Functions

CONSTANTS
    Segs,          \* the segments of a packet, in order
    ClusterSizes,  \* the space of the mbufs m_getm2 may put in a chain
    ZcLengths,     \* the lengths asked for
    Vips, Vips6,   \* the virtual addresses of the configuration: << address, parses >>
    PrefixLens,    \* the prefix lengths of the configuration
    ByteBits,      \* bits of a byte of an address
    AddrBits,      \* bits of an IPv6 address
    DefaultPrefix  \* the prefix length when none is configured: 64

ASSUME VethAssumption ==
    /\ {ByteBits, AddrBits, DefaultPrefix} \subseteq Nat \ {0}
    /\ AddrBits % ByteBits = 0 /\ DefaultPrefix <= AddrBits /\ PrefixLens \subseteq 0 .. AddrBits
    /\ {Vips, Vips6} \subseteq Seq(Nat \X BOOLEAN)
    /\ ClusterSizes \subseteq Nat \ {0} /\ ZcLengths \subseteq Nat
    /\ Segs \in Seq(Nat) /\ Len(Segs) > 0
    /\ \A i, j \in 1 .. Len(Segs) : Segs[i] = Segs[j] => i = j

VARIABLES
    rx,       \* the packet being received: where the call is, the segments that
              \* mbufs refer to, and whether a segment could not be wrapped
    freed,    \* how often each segment went back to its pool
    zm,       \* the lazybsd_zc_mbuf: off, len, and the chain: space and bytes of
              \* each mbuf, and the one bsd_mbuf_off points to
    ifc       \* the attachment: softc, host context, the interface's addresses

vethVars == <<rx, freed, zm, ifc>>

-----------------------------------------------------------------------------
(* Received packets.                                                       *)

NoRx == [at |-> "none", chain |-> << >>, cut |-> FALSE]

FreeAll(f, segs) == [s \in DOMAIN f |-> f[s] + Cardinality({i \in 1 .. Len(segs) : segs[i] = s})]

Returned(r) == [NoRx EXCEPT !.at = "over", !.cut = r]

(* A packet whose checksum the NIC found wrong is dropped. *)
lazybsd_veth_input ==
    /\ rx.at = "none"
    /\ \/ rx' = Returned(FALSE) /\ freed' = FreeAll(freed, Segs)
       \/ rx' = [rx EXCEPT !.at = "gethdr"] /\ UNCHANGED freed
    /\ UNCHANGED <<zm, ifc>>

lazybsd_mbuf_gethdr ==
    /\ rx.at = "gethdr"
    /\ \/ rx' = [rx EXCEPT !.at = "get", !.chain = << Segs[1] >>] /\ UNCHANGED freed
       \/ rx' = Returned(FALSE) /\ freed' = FreeAll(freed, Segs)
    /\ UNCHANGED <<zm, ifc>>

(* lazybsd_mbuf_free: every mbuf of the chain gives the segment it refers  *)
(* to back, and nothing that hangs on it.                                  *)
lazybsd_mbuf_ext_free_Packet(f, chain) ==
    FreeAll(f, FlattenSeq([i \in 1 .. Len(chain) |->
                    SelectSeq(Segs, LAMBDA s : s >= chain[i])]))

lazybsd_mbuf_ext_free(f, chain) == FreeAll(f, chain)

(* A segment that cannot be wrapped: the chain is released, and then the   *)
(* packet.  The first segment is in both; its pool has cut it off from the *)
(* ones behind it.                                                         *)
lazybsd_mbuf_get ==
    /\ rx.at = "get" /\ Len(rx.chain) < Len(Segs)
    /\ \/ rx' = [rx EXCEPT !.chain = Append(@, Segs[Len(@) + 1])] /\ UNCHANGED freed
       \/ /\ rx' = Returned(TRUE)
          /\ freed' = FreeAll(lazybsd_mbuf_ext_free(freed, rx.chain), << Segs[1] >>)
    /\ UNCHANGED <<zm, ifc>>

lazybsd_veth_process_packet ==
    /\ rx.at = "get" /\ Len(rx.chain) = Len(Segs)
    /\ rx' = [rx EXCEPT !.at = "stack"]
    /\ UNCHANGED <<freed, zm, ifc>>

(* The stack frees mbufs from the front, at any point of their use. *)
stack_free(n) ==
    /\ rx.at = "stack" /\ n <= Len(rx.chain)
    /\ freed' = lazybsd_mbuf_ext_free(freed, SubSeq(rx.chain, 1, n))
    /\ rx' = IF n = Len(rx.chain) THEN Returned(FALSE)
             ELSE [rx EXCEPT !.chain = SubSeq(@, n + 1, Len(@))]
    /\ UNCHANGED <<zm, ifc>>

-----------------------------------------------------------------------------
(* Zero-copy writes.                                                       *)

NoZm == [off |-> 0, len |-> 0, space |-> << >>, bytes |-> << >>, cur |-> 0]

SpaceOf(space) == SumFunction(space)

(* A chain with room for len bytes and for at least one, none of whose     *)
(* mbufs but the last could be left out.                                   *)
m_getm2(len) ==
    {space \in UNION {[1 .. n -> ClusterSizes] : n \in 1 .. 3} :
        /\ SpaceOf(space) >= (IF len > 1 THEN len ELSE 1)
        /\ SpaceOf(Front(space)) < (IF len > 1 THEN len ELSE 1)}

lazybsd_zc_mbuf_get(len) ==
    /\ zm = NoZm
    /\ \E space \in m_getm2(len) :
          zm' = [off |-> 0, len |-> len, space |-> space, bytes |-> [i \in 1 .. Len(space) |-> << >>], cur |-> 1]
    /\ UNCHANGED <<rx, freed, ifc>>

Room(z, i) == z.space[i] - Len(z.bytes[i])

(* The room of the mbufs from cur up to i. *)
RoomBefore(z, i) == SumFunction([k \in z.cur .. i - 1 |-> Room(z, k)])

(* What goes to mbuf i. *)
Share(z, len, i) ==
    LET left == len - RoomBefore(z, i)
    IN  IF i < z.cur \/ left <= 0 THEN 0 ELSE IF Room(z, i) < left THEN Room(z, i) ELSE left

(* The mbuf at which the last byte was placed; 0 when the chain ran out. *)
LastOf(z, len) ==
    LET S == {i \in z.cur .. Len(z.space) : RoomBefore(z, i) + Share(z, len, i) = len}
    IN  IF S = {} THEN 0 ELSE CHOOSE i \in S : \A k \in S : i <= k

WithinLength_Each(z, len) == len <= z.len

(* What would exceed the length asked for is refused. *)
WithinLength(z, len) == z.off + len <= z.len

lazybsd_zc_mbuf_write(len) ==
    /\ zm.cur > 0
    /\ WithinLength(zm, len)
    /\ zm' = [zm EXCEPT
                !.bytes = [i \in 1 .. Len(zm.space) |->
                    @[i] \o [k \in 1 .. Share(zm, len, i) |-> zm.off + RoomBefore(zm, i) + k]],
                !.off = @ + len, !.cur = LastOf(zm, len)]
    /\ UNCHANGED <<rx, freed, ifc>>

(* The chain goes to the socket with lazybsd_write. *)
zc_mbuf_sent ==
    /\ zm # NoZm
    /\ zm' = NoZm
    /\ UNCHANGED <<rx, freed, ifc>>

-----------------------------------------------------------------------------
(* Attachment of a port.                                                   *)

NoIf == [at |-> "none", softc |-> FALSE, ctx |-> FALSE, prefix |-> 0, asked |-> 0, ip6 |-> FALSE,
         gw6 |-> FALSE, addrs |-> {}, refused |-> {}]

Parsed_InPlace(list) ==
    SubSeq([i \in 1 .. Len(list) |-> IF list[i][2] THEN list[i][1] ELSE 0],
           1, Cardinality({i \in 1 .. Len(list) : list[i][2]}))

(* The addresses that parse, side by side from the front. *)
Parsed(list) ==
    LET upto[n \in 0 .. Len(list)] ==
            IF n = 0 THEN << >>
            ELSE IF list[n][2] THEN Append(upto[n - 1], list[n][1]) ELSE upto[n - 1]
    IN  upto[Len(list)]

(* Whole bytes of ones, and the first bits of the one after them. *)
PrefixMask(n) ==
    [b \in 1 .. AddrBits |->
        IF (b - 1) \div ByteBits < n \div ByteBits THEN 1
        ELSE IF (b - 1) \div ByteBits = n \div ByteBits /\ (b - 1) % ByteBits < n % ByteBits THEN 1 ELSE 0]

(* lazybsd_veth_config: the prefix length is set with the address. *)
lazybsd_veth_attach(ip6, gw6, prefix) ==
    /\ ifc.at = "none"
    /\ ifc' = [NoIf EXCEPT !.at = "setup", !.softc = TRUE, !.asked = prefix, !.ip6 = ip6, !.gw6 = gw6,
                           !.prefix = IF ~ ip6 THEN 0 ELSE IF prefix = 0 THEN DefaultPrefix ELSE prefix]
    /\ UNCHANGED <<rx, freed, zm>>

(* lazybsd_dpdk_register_if; without a context the softc is freed and the  *)
(* program ends.                                                           *)
register_if ==
    /\ ifc.at = "setup"
    /\ \/ ifc' = [ifc EXCEPT !.at = "addr", !.ctx = TRUE]
       \/ ifc' = [NoIf EXCEPT !.at = "failed"]
    /\ UNCHANGED <<rx, freed, zm>>

(* The addresses each call gives the interface; the virtual IPv6 addresses *)
(* have the prefix of the first.                                           *)
lazybsd_veth_setaddr == {<< "ip" >>}
lazybsd_veth_set_gateway == {<< "gateway" >>}
lazybsd_veth_setvaddr == {<< "vip", v >> : v \in ToSet(Parsed(Vips))}
lazybsd_veth_setaddr6(prefix) == {<< "ip6", PrefixMask(prefix) >>}
lazybsd_veth_set_gateway6 == {<< "gateway6" >>}
lazybsd_veth_setvaddr6(prefix) == {<< "vip6", v, PrefixMask(prefix) >> : v \in ToSet(Parsed(Vips6))}

AddressesOf(ip6, gw6, prefix) ==
    lazybsd_veth_setaddr \cup lazybsd_veth_set_gateway \cup lazybsd_veth_setvaddr
    \cup (IF ip6 THEN lazybsd_veth_setaddr6(prefix) ELSE {})
    \cup (IF ip6 /\ gw6 THEN lazybsd_veth_set_gateway6 ELSE {})
    \cup lazybsd_veth_setvaddr6(prefix)

(* An address that the interface refuses is reported and the rest go on:   *)
(* ifioctl returns an errno, and the loops stop at negative numbers.       *)
lazybsd_veth_setup_interface ==
    /\ ifc.at = "addr"
    /\ \E refused \in SUBSET AddressesOf(ifc.ip6, ifc.gw6, ifc.prefix) :
          ifc' = [ifc EXCEPT !.at = "attached", !.refused = refused,
                             !.addrs = AddressesOf(ifc.ip6, ifc.gw6, ifc.prefix) \ refused]
    /\ UNCHANGED <<rx, freed, zm>>

lazybsd_veth_detach ==
    /\ ifc.at \in {"attached", "failed"}
    /\ ifc' = NoIf
    /\ UNCHANGED <<rx, freed, zm>>

-----------------------------------------------------------------------------
VethInit ==
    /\ rx = NoRx
    /\ freed = [s \in ToSet(Segs) |-> 0]
    /\ zm = NoZm
    /\ ifc = NoIf

InputNext ==
    \/ lazybsd_veth_input \/ lazybsd_mbuf_gethdr \/ lazybsd_mbuf_get
    \/ lazybsd_veth_process_packet
    \/ \E n \in 1 .. Len(Segs) : stack_free(n)

ZcNext ==
    \/ \E len \in ZcLengths : lazybsd_zc_mbuf_get(len) \/ lazybsd_zc_mbuf_write(len)
    \/ zc_mbuf_sent

AttachNext ==
    \/ \E ip6, gw6 \in BOOLEAN, prefix \in PrefixLens : lazybsd_veth_attach(ip6, gw6, prefix)
    \/ register_if
    \/ lazybsd_veth_setup_interface
    \/ lazybsd_veth_detach

VethNext == InputNext \/ ZcNext \/ AttachNext

VethSpec == VethInit /\ [][VethNext]_vethVars

-----------------------------------------------------------------------------
(* A segment of a received packet goes back to its pool once, by the time  *)
(* nothing of the stack refers to it: whichever of the mbufs is freed      *)
(* first, and whether the packet is dropped before the first of them was   *)
(* there.  A packet of which a later segment could not be wrapped is the   *)
(* exception: its first segment goes back twice (lazybsd_veth_input).      *)
SegmentsOnce ==
    ~ rx.cut =>
        \A s \in ToSet(Segs) :
            freed[s] = IF rx.at = "over" \/ (rx.at = "stack" /\ s \notin ToSet(rx.chain)) THEN 1 ELSE 0

(* The bytes written to a chain lie in it in order, no mbuf is filled past *)
(* its end, and the chain does not run out before the length it was made   *)
(* for is reached, whatever pieces it is written in                        *)
(* (lazybsd_zc_mbuf_get, lazybsd_zc_mbuf_write).                           *)
ZcInOrder ==
    zm # NoZm =>
        /\ FlattenSeq(zm.bytes) = [k \in 1 .. zm.off |-> k]
        /\ \A i \in 1 .. Len(zm.space) : Len(zm.bytes[i]) <= zm.space[i]
        /\ zm.cur \in 1 .. Len(zm.space)

VirtualOf(kind) == {a[2] : a \in {a \in ifc.addrs \cup ifc.refused : a[1] = kind}}

Readable(list) == {v[1] : v \in {v \in ToSet(list) : v[2]}}

(* An attached interface has all the virtual addresses that could be read  *)
(* and that it did not refuse itself, and no other, and the mask of the    *)
(* IPv6 address has as many bits as the prefix; an attachment that fails   *)
(* keeps neither softc nor context.                                        *)
AddressesSet ==
    /\ ifc.at = "attached" =>
          /\ VirtualOf("vip") = Readable(Vips)
          /\ VirtualOf("vip6") = Readable(Vips6)
          /\ \A a \in ifc.addrs :
                a[1] = "ip6" =>
                    \A b \in 1 .. AddrBits :
                        (a[2][b] = 1) <=> b <= (IF ifc.asked = 0 THEN DefaultPrefix ELSE ifc.asked)
    /\ ifc.at = "failed" => ~ ifc.softc /\ ~ ifc.ctx
=============================================================================
