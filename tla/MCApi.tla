------------------------------- MODULE MCApi -------------------------------
(* Instances of the socket calls and the routing ioctl. *)
EXTENDS Api

SeqsOf(S, n) == UNION {[1 .. k -> S] : k \in 0 .. n}

Message(level, type, n, val) == [level |-> level, type |-> type, n |-> n, val |-> val]

(* IP_TOS in one byte and in four, IP_TTL, and a level that is passed on. *)
MCOut == {Message(0, 1, 1, 7), Message(0, 1, 4, 7), Message(0, 2, 4, 9),
          Message(5, 9, 16, 3), Message(5, 9, 4, 3), Message(5, 9, 1, 6)}

MCControls == SeqsOf(MCOut, 2)

MCIn == {Message(0, 68, 1, 7), Message(0, 65, 1, 9), Message(5, 9, 16, 3), Message(0, 20, 4, 3)}

MCDeliveries ==
    SeqsOf(MCIn, 2) \cup
    {<< Message(0, 68, 1, 7), Message(5, 9, 16, 3), Message(0, 65, 1, 9) >>,
     << Message(0, 65, 1, 7), Message(0, 65, 1, 8), Message(0, 20, 4, 9) >>}

-----------------------------------------------------------------------------
(* Routing messages.                                                       *)

MCRequest(type, flags, addrs, sas) ==
    LET r == [type |-> type, version |-> TRUE, flags |-> flags,
              addrs |-> addrs, sas |-> sas, msglen |-> 0]
    IN  [r EXCEPT !.msglen = MessageUnits(r)]

Inet(v) == Sa("inet", v)

(* The mask of a prefix of n bits, and the numbers of two bits. *)
Mask(n) == Inet(1 .. n)

One   == {2}
Two   == {1}
Three == {1, 2}

(* A destination, by itself and with a gateway, a mask or both. *)
MCPlain ==
    {MCRequest(type, {"GATEWAY"}, {"DST", "GATEWAY", "NETMASK"}, << Inet(d), Inet(One), Mask(m) >>) :
        type \in {"ADD", "CHANGE"}, d \in {Three}, m \in 0 .. Bits}
    \cup {MCRequest(type, {"GATEWAY"}, {"DST", "GATEWAY"}, << Inet(d), Inet(g) >>) :
        type \in {"ADD", "DELETE"}, d \in {{}, Three}, g \in {One, Two}}
    \cup {MCRequest(type, {}, {"DST", "NETMASK"}, << Inet(d), Mask(m) >>) :
        type \in {"DELETE", "GET"}, d \in {{}, Three}, m \in 0 .. Bits}
    \cup {MCRequest(type, {}, {"DST"}, << Inet(d) >>) : type \in {"ADD", "GET"}, d \in {{}, Three}}

MCFlags ==
    {MCRequest(type, flags, {"DST", "GATEWAY"}, << Inet(Three), gw >>) :
        type \in {"ADD", "GET"},
        flags \in {{"LLDATA"}, {"RNH_LOCKED"}, {"BLACKHOLE"}, {"REJECT", "BLACKHOLE"}, {"ANNOUNCE"}},
        gw \in {Inet(One), Sa("link", One), Sa("link", {})}}

MCInterface ==
    {MCRequest(type, {}, {"DST", "NETMASK", "IFP"}, << Inet(Three), Mask(2), Sa("link", One) >>) :
        type \in {"GET", "DELETE"}}
    \cup {MCRequest("GET", {}, {"DST", "IFA"}, << Inet(Three) >>),
          MCRequest("ADD", {}, {"DST", "GATEWAY", "IFA"}, << Inet(Three), Inet(One) >>)}

MCSizes ==
    {MCRequest("GET", {}, {"DST", "GATEWAY", "NETMASK"},
               [i \in 1 .. 3 |-> [<< Inet(One), Inet(One), Mask(1) >>[i] EXCEPT !.size = z[i]]]) :
        z \in {z \in [1 .. 3 -> {"full", "short", "zero", "over"}] :
                  z = << "full", "zero", "over" >> \/ Cardinality({i \in 1 .. 3 : z[i] # "full"}) <= 1}}

MCRefused ==
    {MCRequest("OTHER", {}, {"DST"}, << Inet({}) >>), MCRequest("GET", {}, {}, << >>),
     MCRequest("GET", {}, {"DST"}, << Sa("link", One) >>),
     [MCRequest("GET", {}, {"DST"}, << Inet({}) >>) EXCEPT !.version = FALSE],
     [MCRequest("GET", {}, {"DST"}, << Inet(One) >>) EXCEPT !.msglen = 5]}

MCInet6 ==
    {MCRequest(type, {}, {"DST", "GATEWAY", "NETMASK"}, << Sa("inet6", Three), Sa("inet6", One), mask >>) :
        type \in {"ADD", "GET"}, mask \in {Sa("inet6", 1 .. 1), Mask(1)}}

MCRequests == MCPlain \cup MCFlags \cup MCInterface \cup MCSizes \cup MCRefused \cup MCInet6

(* The interface's network and its own address, through the loopback. *)
MCInitRib ==
    LET nh(lo) == [gw |-> Sa("link", One), flags |-> {}, lo |-> lo]
    IN  {[fam |-> "inet", dst |-> Two, mask |-> 1 .. 1, nh |-> nh(FALSE)],
         [fam |-> "inet", dst |-> Two, mask |-> NoSa, nh |-> nh(TRUE)]}
=============================================================================
