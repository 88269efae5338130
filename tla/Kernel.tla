------------------------------- MODULE Kernel -------------------------------
(***************************************************************************)
(* The kernel library, the memory, the start-up, the ports, the virtual    *)
(* interface and packet capture together.  The parts do not touch each     *)
(* other's state, so that a behaviour stays in one part.                   *)
(***************************************************************************)
EXTENDS KernTime, KernSubr, PagePool, Startup, PortInit, Veth, Pcap

CONSTANT KernelParts      \* the parts a run looks at

VARIABLE part

vars == <<timeVars, subrVars, poolVars, startVars, portVars, vethVars, pcapVars, part>>

-----------------------------------------------------------------------------
Init == TimeInit /\ SubrInit /\ PoolInit /\ StartInit /\ PortInitState /\ VethInit /\ PcapInit
        /\ part \in KernelParts /\ (part # "port" => conf = CHOOSE c \in PortConfigs : TRUE)

InTime  == UNCHANGED <<subrVars, poolVars, startVars, portVars, vethVars, pcapVars, part>>
InSubr  == UNCHANGED <<timeVars, poolVars, startVars, portVars, vethVars, pcapVars, part>>
InPool  == UNCHANGED <<timeVars, subrVars, startVars, portVars, vethVars, pcapVars, part>>
InStart == UNCHANGED <<timeVars, subrVars, poolVars, portVars, vethVars, pcapVars, part>>
InPort  == UNCHANGED <<timeVars, subrVars, poolVars, startVars, vethVars, pcapVars, part>>
InVeth  == UNCHANGED <<timeVars, subrVars, poolVars, startVars, portVars, pcapVars, part>>
InPcap  == UNCHANGED <<timeVars, subrVars, poolVars, startVars, portVars, vethVars, part>>

Next ==
    \/ part = "timer" /\ TimerNext /\ InTime
    \/ part = "rate"  /\ RateNext  /\ InTime
    \/ part = "pps"   /\ PpsNext   /\ InTime
    \/ part = "conv"  /\ ConvNext  /\ InTime
    \/ part = "uio"   /\ UioNext   /\ InSubr
    \/ part = "heap"  /\ HeapNext  /\ InSubr
    \/ part = "sb"    /\ SbNext    /\ InSubr
    \/ part = "sized" /\ SizedNext /\ InSubr
    \/ part = "pool"  /\ PoolNext  /\ InPool
    \/ part = "start" /\ StartNext /\ InStart
    \/ part = "port"  /\ PortNext  /\ InPort
    \/ part = "input" /\ InputNext /\ InVeth
    \/ part = "zc"    /\ ZcNext    /\ InVeth
    \/ part = "veth"  /\ AttachNext /\ InVeth
    \/ part = "pcap"  /\ PcapNext  /\ InPcap

Spec == Init /\ [][Next]_vars

(* The pure functions of the kernel library agree with what they are to    *)
(* compute on every input within the bounds: tvtohz, the sizes of hash     *)
(* tables, and the binary search of groupmember.                           *)
AlgorithmsExact == TimeoutCovered /\ HashSized /\ GroupFound

(* Bytes that are moved in pieces, between the vectors of a uio or into    *)
(* the mbufs of a zero-copy buffer, arrive once and in order, wherever a   *)
(* piece ends and a call begins (uiomove, lazybsd_zc_mbuf_write).          *)
BytesInOrder == UioInOrder /\ ZcInOrder
=============================================================================
