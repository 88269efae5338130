------------------------------- MODULE Route -------------------------------
(***************************************************************************)
(* The routing ioctl of bsd/lib/lazybsd_route.c.  lazybsd_rtioctl copies a *)
(* routing message out of the caller's buffer, checks and cleans the       *)
(* addresses in it, changes or searches the routing table, and copies the  *)
(* message, with the answer, back over the caller's buffer.  A call is a   *)
(* sequence of steps, each of which may go to flush with an error.         *)
(*                                                                         *)
(* An address, a mask or an index is the set of its one bits, the highest  *)
(* being bit 1; sizes are in units of eight bytes, as SA_SIZE rounds to.   *)
(* The routing table (rib_action, rnh_lookup, rnh_matchaddr) is external.  *)
(***************************************************************************)
EXTENDS Integers, Sequences, FiniteSets, Functions

CONSTANTS Bits,         \* length of an address, 32 or 128 in the code
          NoSa,         \* a null pointer to a sockaddr
          RoundUnits,   \* buffers are multiples of this: 1024 bytes, 128 units
          Requests,     \* the messages a caller may pass
          MaxLens,      \* the sizes of its buffer
          LoFamilies,   \* families the loopback interface has an address of
          IfaNet,       \* the network of the interface's own address
          LoNet,        \* and of the loopback interface's
          MaxRoutes,    \* bound: routes in the table
          InitRib       \* the routes the interfaces installed

AllBits == 1 .. Bits

(* Sockaddrs: a family, a value (an address, a mask or an interface index) *)
(* and whether sa_len is what the family needs ("full"), less ("short"),   *)
(* zero, or past the end of the message ("over").                          *)
Sockaddrs == [fam : {"inet", "inet6", "link"}, val : SUBSET AllBits,
              size : {"full", "short", "zero", "over"}]

(* The flags nhop_get_rtflags reports. *)
NhopFlags == {"GATEWAY", "COMPAT", "BLACKHOLE", "REJECT"}

Routes == [fam : {"inet", "inet6"}, dst : SUBSET AllBits, mask : {NoSa} \cup SUBSET AllBits,
           nh : [gw : Sockaddrs, flags : SUBSET NhopFlags, lo : BOOLEAN]]

Masked(a, mask) == a \cap mask

RouteMask(r) == IF r.mask = NoSa THEN AllBits ELSE r.mask

(* A destination without bits outside its mask, which is not a full one:   *)
(* the form in which a prefix can be found, and is there once.             *)
Canonical(routes) ==
    /\ \A r \in routes : Masked(r.dst, RouteMask(r)) = r.dst /\ r.mask # AllBits
    /\ \A r, q \in routes : r.fam = q.fam /\ r.dst = q.dst /\ r.mask = q.mask => r = q

ASSUME RouteAssumption ==
    /\ Bits \in Nat \ {0} /\ RoundUnits \in Nat \ {0}
    /\ \A req \in Requests : /\ req.type \in {"ADD", "CHANGE", "DELETE", "GET", "OTHER"}
                              /\ req.sas \in Seq(Sockaddrs)
    /\ MaxLens \subseteq Nat
    /\ NoSa \notin Sockaddrs /\ NoSa \notin Routes /\ \A mask \in SUBSET AllBits : NoSa # mask
    /\ IfaNet \subseteq AllBits /\ LoNet \subseteq AllBits
    /\ InitRib \subseteq Routes /\ Canonical(InitRib)

VARIABLES rib,       \* routes: records [fam, dst, mask, nh]
          rt,        \* the call under way, or the one before
          bufs,      \* buffers allocated in M_TEMP
          readers,   \* read locks held on the routing table
          data       \* the caller's buffer, as the last call left it

routeVars == <<rib, rt, bufs, readers, data>>

(* The RTAX_ indexes, in their order. *)
Slots   == << "DST", "GATEWAY", "NETMASK", "GENMASK", "IFP", "IFA", "AUTHOR", "BRD" >>
SlotSet == {Slots[i] : i \in DOMAIN Slots}

(* A call at its start. *)
NewCall(req, maxlen) ==
    [at |-> "fill", req |-> req, maxlen |-> maxlen, error |-> "none",
     rtm |-> TRUE,      \* the buffer is there
     alloc_len |-> 0, msglen |-> 0, flags |-> {},
     x |-> [info |-> [s \in SlotSet |-> NoSa], flags |-> {}, error |-> "none", lo |-> FALSE],
     route |-> NoSa,    \* the route deleted or found
     before |-> InitRib]

NoCall == [NewCall(NoSa, 0) EXCEPT !.at = "idle"]

Untouched == [msglen |-> 0, done |-> FALSE, errno |-> "none", info |-> [s \in SlotSet |-> NoSa]]

RouteInit ==
    /\ rib = InitRib
    /\ rt = NoCall
    /\ bufs = 0 /\ readers = 0
    /\ data = Untouched

-----------------------------------------------------------------------------
(* The addresses of a message.                                             *)

Sa(fam, val) == [fam |-> fam, val |-> val, size |-> "full"]

sa_zero == Sa("inet", {})

SA_SIZE(sa) ==
    CASE sa = NoSa -> 0
      [] sa # NoSa /\ sa.size \in {"zero", "short"} -> 1
      [] OTHER -> [inet |-> 2, inet6 |-> 4, link |-> 7][sa.fam]

HeaderUnits == 19       \* sizeof(struct rt_msghdr)

Units(sas) == SumFunction([i \in DOMAIN sas |-> SA_SIZE(sas[i])])

InSlots(info) == [i \in DOMAIN Slots |-> info[Slots[i]]]

MessageUnits(req) == HeaderUnits + Units(req.sas)

roundup2(n) == ((n + RoundUnits - 1) \div RoundUnits) * RoundUnits

(* rt_xaddrs: the sockaddrs of the message belong, in order, to the bits   *)
(* of rtm_addrs.  One of length zero stands for sa_zero and ends the list; *)
(* one past the end of the message is an error.                            *)
Announced(req) == SelectSeq(Slots, LAMBDA s : s \in req.addrs)

IsStop(req, k) == req.sas[k].size \in {"zero", "over"}

(* The sockaddrs rt_xaddrs looks at: none before the last is a stop. *)
Looked(req) ==
    {k \in DOMAIN req.sas : /\ k <= Len(Announced(req))
                            /\ \A j \in 1 .. k - 1 : ~IsStop(req, j)}

rt_xaddrs_ok(req) == \A k \in Looked(req) : req.sas[k].size # "over"

rt_xaddrs(req) ==
    [s \in SlotSet |->
        IF s \in req.addrs /\ \E k \in Looked(req) : Announced(req)[k] = s
        THEN LET k == CHOOSE k \in Looked(req) : Announced(req)[k] = s
             IN  IF IsStop(req, k) THEN sa_zero ELSE req.sas[k]
        ELSE NoSa]

-----------------------------------------------------------------------------
(* Cleaning the addresses.                                                 *)

remove_netmask(x) ==
    [x EXCEPT !.info["NETMASK"] = NoSa, !.flags = @ \cup {"HOST"}]

(* A sockaddr too small for the family it is read as. *)
TooSmall(sa, fam) == sa.size = "short" \/ (fam = "inet6" /\ sa.fam # "inet6")

cleanup_xaddrs_lladdr_ok(gw) == gw.fam = "link" /\ gw.val # {} /\ gw.size = "full"

cleanup_xaddrs_gateway_ok(x) ==
    LET gw == x.info["GATEWAY"]
    IN  IF "LLDATA" \in x.flags THEN cleanup_xaddrs_lladdr_ok(gw) ELSE gw.size # "short"

(* Mutant: the destination is stored as it came. *)
cleanup_xaddrs_inet_AsGiven(x) ==
    LET mask == x.info["NETMASK"]
    IN  IF TooSmall(x.info["DST"], x.info["DST"].fam) THEN [x EXCEPT !.error = "EINVAL"]
        ELSE IF mask # NoSa /\ mask.val # AllBits THEN x
        ELSE remove_netmask(x)

(* The destination without the bits outside its mask; a full mask is no    *)
(* mask.  IPv4 and IPv6 are cleaned in the same way.                       *)
cleanup_xaddrs_inet(x) ==
    LET dst  == x.info["DST"]
        mask == x.info["NETMASK"]
        bits == IF mask = NoSa THEN AllBits ELSE mask.val
        y    == [x EXCEPT !.info["DST"] = Sa(dst.fam, Masked(dst.val, bits))]
    IN  IF TooSmall(dst, dst.fam) \/ (mask # NoSa /\ TooSmall(mask, dst.fam))
        THEN [x EXCEPT !.error = "EINVAL"]
        ELSE IF y.info["GATEWAY"] # NoSa /\ ~cleanup_xaddrs_gateway_ok(y)
        THEN [x EXCEPT !.error = "EINVAL"]
        ELSE IF bits # AllBits
        THEN [y EXCEPT !.info["NETMASK"] = Sa(dst.fam, bits)]
        ELSE remove_netmask(y)

cleanup_xaddrs(x) ==
    IF x.info["DST"] = NoSa THEN [x EXCEPT !.error = "EINVAL"]
    ELSE IF x.info["DST"].fam \notin {"inet", "inet6"}
    THEN [x EXCEPT !.error = "EAFNOSUPPORT"]
    ELSE cleanup_xaddrs_inet(IF "LLDATA" \in x.flags THEN remove_netmask(x) ELSE x)

-----------------------------------------------------------------------------
(* The routing table.                                                      *)

Includes(r, fam, a) == r.fam = fam /\ Masked(a, RouteMask(r)) = Masked(r.dst, RouteMask(r))

(* No route to the address has a longer mask. *)
Longest(r, fam, a) ==
    /\ Includes(r, fam, a)
    /\ \A q \in rib : Includes(q, fam, a) /\ RouteMask(r) \subseteq RouteMask(q)
                          => RouteMask(q) = RouteMask(r)

(* rnh_matchaddr: the routes with the longest prefix of the address. *)
Matching(fam, a) == {r \in rib : Longest(r, fam, a)}

(* rnh_lookup: the route for this destination and mask. *)
MaskOf(info) == IF info["NETMASK"] = NoSa THEN NoSa ELSE info["NETMASK"].val

Exactly(info) ==
    {r \in rib : /\ r.fam = info["DST"].fam
                 /\ r.dst = info["DST"].val
                 /\ r.mask = MaskOf(info)}

Nhop(x) == [gw |-> x.info["GATEWAY"], flags |-> x.flags \cap NhopFlags, lo |-> x.lo]

NewRoute(x) == [fam |-> x.info["DST"].fam, dst |-> x.info["DST"].val,
                mask |-> MaskOf(x.info), nh |-> Nhop(x)]

(* A gateway that is one of the host's own addresses: the route to it is   *)
(* through the loopback interface.  The route is then direct.              *)
OwnAddress(gw) ==
    /\ gw # NoSa /\ gw.fam # "link"
    /\ \E r \in Matching(gw.fam, gw.val) : r.nh.gw.fam = "link" /\ r.nh.lo

fill_addrinfo(req) ==
    LET x == [rt.x EXCEPT !.info = rt_xaddrs(req), !.flags = req.flags]
        y == cleanup_xaddrs(x)
    IN  IF ~rt_xaddrs_ok(req) \/ "RNH_LOCKED" \in req.flags
        THEN [x EXCEPT !.error = "EINVAL"]
        ELSE IF y.error = "none" /\ OwnAddress(y.info["GATEWAY"])
        THEN [y EXCEPT !.flags = (@ \ {"GATEWAY"}) \cup {"COMPAT"}]
        ELSE y

HoleFlags(req) == req.flags \cap {"BLACKHOLE", "REJECT"}

(* A blackhole route goes through the loopback interface. *)
fill_blackholeinfo(x) ==
    IF x.info["DST"].fam \notin LoFamilies
    THEN [x EXCEPT !.error = "ENOTSUP"]
    ELSE [x EXCEPT !.info["GATEWAY"] = Sa(x.info["DST"].fam, LoNet),
                   !.flags = @ \cup {"GATEWAY"}, !.lo = TRUE]

-----------------------------------------------------------------------------
(* The answer.                                                             *)

(* rtsock_msg_buffer: the units the addresses need. *)
rtsock_msg_buffer(info) == HeaderUnits + Units(InSlots(info))

(* The addresses of the answer: the route's, and the interface's when the  *)
(* caller asked for one (rtm_get_jailed gives the address of the nexthop). *)
ReportInfo(info, r, addrs) ==
    [s \in SlotSet |->
        CASE s = "DST"      -> Sa(r.fam, r.dst)
          [] s = "NETMASK"  -> IF r.mask = NoSa THEN NoSa ELSE Sa(r.fam, r.mask)
          [] s = "GATEWAY"  -> r.nh.gw
          [] s = "GENMASK"  -> NoSa
          [] s = "IFP" /\ addrs \cap {"IFP", "IFA"} # {} -> Sa("link", {Bits})
          [] s = "IFA" /\ addrs \cap {"IFP", "IFA"} # {} -> Sa(r.fam, IfaNet)
          [] OTHER -> info[s]]

ReportFlags(r) ==
    (r.nh.flags \ {"COMPAT"}) \cup (IF "COMPAT" \in r.nh.flags THEN {"GATEWAY"} ELSE {})
                              \cup (IF r.mask = NoSa THEN {"HOST"} ELSE {})

-----------------------------------------------------------------------------
(* The call.                                                               *)

senderr(e) == rt' = [rt EXCEPT !.at = "flush", !.error = e]

(* The message is copied into a buffer and its length and version are      *)
(* checked; the buffer of a message of another version is freed, so that   *)
(* flush leaves the caller's alone.                                        *)
lazybsd_rtioctl(req, maxlen) ==
    /\ rt.at = "idle"
    /\ \E got \in BOOLEAN :
        LET call == [NewCall(req, maxlen) EXCEPT
                        !.alloc_len = roundup2(MessageUnits(req)),
                        !.msglen = req.msglen, !.flags = req.flags, !.before = rib]
        IN  CASE ~got ->
                    /\ rt' = [call EXCEPT !.at = "flush", !.error = "ENOBUFS", !.rtm = FALSE]
                    /\ UNCHANGED bufs
              [] got /\ req.msglen # MessageUnits(req) ->
                    /\ rt' = [call EXCEPT !.at = "flush", !.error = "EINVAL"]
                    /\ bufs' = bufs + 1
              [] got /\ req.msglen = MessageUnits(req) /\ ~req.version ->
                    /\ rt' = [call EXCEPT !.at = "flush", !.error = "EPROTONOSUPPORT",
                                          !.rtm = FALSE]
                    /\ UNCHANGED bufs
              [] OTHER ->
                    /\ rt' = call
                    /\ bufs' = bufs + 1
    /\ UNCHANGED <<rib, readers, data>>

rtm_fill ==
    /\ rt.at = "fill"
    /\ LET y == fill_addrinfo(rt.req)
       IN  rt' = [rt EXCEPT !.x = y, !.error = y.error,
                            !.at = IF y.error = "none" THEN "start" ELSE "flush"]
    /\ UNCHANGED <<rib, bufs, readers, data>>

(* The ARP and neighbour tables (lla_rt_output) are not part of the model. *)
rtm_lldata ==
    /\ rt.at = "start" /\ "LLDATA" \in rt.req.flags
    /\ senderr("none") \/ senderr("EINVAL")
    /\ UNCHANGED <<rib, bufs, readers, data>>

rtm_blackhole ==
    /\ rt.at = "start" /\ "LLDATA" \notin rt.req.flags
    /\ LET y == fill_blackholeinfo(rt.x)
       IN  CASE HoleFlags(rt.req) = {} -> rt' = [rt EXCEPT !.at = rt.req.type]
             [] HoleFlags(rt.req) = {"BLACKHOLE", "REJECT"} -> senderr("EINVAL")
             [] OTHER -> IF y.error # "none" THEN senderr(y.error)
                         ELSE rt' = [rt EXCEPT !.x = y, !.at = rt.req.type]
    /\ UNCHANGED <<rib, bufs, readers, data>>

(* Mutant: the answer to RTM_ADD is built like the one to RTM_DELETE. *)
rtm_add_Report ==
    /\ rt.at = "ADD"
    /\ \/ senderr("EEXIST") /\ UNCHANGED rib
       \/ /\ rt.x.info["GATEWAY"] # NoSa /\ Exactly(rt.x.info) = {}
          /\ rib' = rib \cup {NewRoute(rt.x)}
          /\ rt' = [rt EXCEPT !.at = "report", !.route = NewRoute(rt.x)]
    /\ UNCHANGED <<bufs, readers, data>>

(* Adding a route that exists or whose gateway cannot be reached fails. *)
rtm_add ==
    /\ rt.at = "ADD"
    /\ \/ /\ rt.x.info["GATEWAY"] = NoSa
          /\ senderr("EINVAL")
          /\ UNCHANGED rib
       \/ /\ rt.x.info["GATEWAY"] # NoSa
          /\ \/ senderr(IF Exactly(rt.x.info) # {} THEN "EEXIST" ELSE "ENETUNREACH") /\ UNCHANGED rib
             \/ /\ Exactly(rt.x.info) = {}
                /\ Cardinality(rib) < MaxRoutes
                /\ rib' = rib \cup {NewRoute(rt.x)}
                /\ rt' = [rt EXCEPT !.at = "flush", !.flags = NewRoute(rt.x).nh.flags]
    /\ UNCHANGED <<bufs, readers, data>>

rtm_change ==
    /\ rt.at = "CHANGE"
    /\ \/ senderr(IF Exactly(rt.x.info) = {} THEN "ESRCH" ELSE "ENETUNREACH") /\ UNCHANGED rib
       \/ \E r \in Exactly(rt.x.info) :
            LET new == IF rt.x.info["GATEWAY"] = NoSa THEN r
                       ELSE [r EXCEPT !.nh = Nhop(rt.x)]
            IN  /\ rib' = (rib \ {r}) \cup {new}
                /\ rt' = [rt EXCEPT !.at = "flush", !.flags = new.nh.flags]
    /\ UNCHANGED <<bufs, readers, data>>

(* A gateway that is given must be the route's. *)
rtm_delete ==
    /\ rt.at = "DELETE"
    /\ LET found == {r \in Exactly(rt.x.info) :
                        rt.x.info["GATEWAY"] \in {NoSa, r.nh.gw}}
       IN  \/ found = {} /\ senderr("ESRCH") /\ UNCHANGED rib
           \/ \E r \in found :
                /\ rib' = rib \ {r}
                /\ rt' = [rt EXCEPT !.at = "report", !.route = r]
    /\ UNCHANGED <<bufs, readers, data>>

rtm_other ==
    /\ rt.at = "OTHER"
    /\ senderr("EOPNOTSUPP")
    /\ UNCHANGED <<rib, bufs, readers, data>>

rtm_get ==
    /\ rt.at = "GET"
    /\ rt' = [rt EXCEPT !.at = "lookup"]
    /\ readers' = readers + 1
    /\ UNCHANGED <<rib, bufs, data>>

(* Mutant: asks the cleaned addresses whether there is a netmask. *)
Found_Cleaned ==
    IF rt.x.info["NETMASK"] = NoSa
    THEN Matching(rt.x.info["DST"].fam, rt.x.info["DST"].val)
    ELSE Exactly(rt.x.info)

(* Without a netmask in the message the longest match, with one the exact  *)
(* one; ANNOUNCE asks for the route to the network of the route's own      *)
(* interface address instead.                                              *)
Found ==
    IF "NETMASK" \notin rt.req.addrs
    THEN Matching(rt.x.info["DST"].fam, rt.x.info["DST"].val)
    ELSE Exactly(rt.x.info)

Announcing(r) ==
    IF "ANNOUNCE" \in rt.req.flags
    THEN Matching(r.fam, IF HoleFlags([flags |-> r.nh.flags]) # {} THEN LoNet ELSE IfaNet)
    ELSE {r}

(* Mutant: the search that finds nothing keeps the lock. *)
handle_rtm_get_Locked ==
    /\ rt.at = "lookup"
    /\ \/ Found = {} /\ senderr("ESRCH") /\ UNCHANGED readers
       \/ \E r \in Found :
            /\ rt' = [rt EXCEPT !.at = "report", !.route = r]
            /\ readers' = readers - 1
    /\ UNCHANGED <<rib, bufs, data>>

handle_rtm_get ==
    /\ rt.at = "lookup"
    /\ LET found == UNION {Announcing(r) : r \in Found}
       IN  \/ found = {} /\ senderr("ESRCH")
           \/ \E r \in found : rt' = [rt EXCEPT !.at = "report", !.route = r]
    /\ readers' = readers - 1
    /\ UNCHANGED <<rib, bufs, data>>

(* Writing the answer: rtsock_msg_buffer stores its length only when the   *)
(* buffer has room for it, and what it returns is not looked at.           *)
Written(info, alloc_len) ==
    LET len == rtsock_msg_buffer(info)
    IN  [rt EXCEPT !.at = "flush", !.x.info = info, !.flags = ReportFlags(rt.route),
                   !.alloc_len = alloc_len,
                   !.msglen = IF len <= alloc_len THEN len ELSE @]

(* Mutant: the first buffer is always used. *)
update_rtm_from_rc_InPlace ==
    /\ rt.at = "report"
    /\ LET info == ReportInfo(rt.x.info, rt.route, rt.req.addrs)
       IN  IF rtsock_msg_buffer(info) > rt.maxlen THEN senderr("ENOBUFS")
           ELSE rt' = Written(info, rt.alloc_len)
    /\ UNCHANGED <<rib, bufs, readers, data>>

(* The buffer is replaced when the answer needs more units. *)
update_rtm_from_rc ==
    /\ rt.at = "report"
    /\ LET info == ReportInfo(rt.x.info, rt.route, rt.req.addrs)
           len  == rtsock_msg_buffer(info)
       IN  IF len > rt.maxlen THEN senderr("ENOBUFS")
           ELSE IF len > rt.alloc_len
           THEN senderr("ENOBUFS") \/ rt' = Written(info, len)
           ELSE rt' = Written(info, rt.alloc_len)
    /\ UNCHANGED <<rib, bufs, readers, data>>

(* The message goes back to the caller, as long as it says it is. *)
flush ==
    /\ rt.at = "flush"
    /\ rt' = [rt EXCEPT !.at = "returned"]
    /\ IF rt.rtm
       THEN /\ data' = [msglen |-> rt.msglen, done |-> rt.error = "none",
                        errno |-> rt.error, info |-> rt.x.info]
            /\ bufs' = bufs - 1
       ELSE UNCHANGED <<data, bufs>>
    /\ UNCHANGED <<rib, readers>>

(* The caller, handle_route_msg, takes the result and the answer. *)
handle_route_msg ==
    /\ rt.at = "returned"
    /\ rt' = NoCall
    /\ data' = Untouched
    /\ UNCHANGED <<rib, bufs, readers>>

RouteNext ==
    \/ \E req \in Requests, maxlen \in MaxLens :
          MessageUnits(req) <= maxlen /\ lazybsd_rtioctl(req, maxlen)
    \/ rtm_fill \/ rtm_lldata \/ rtm_blackhole
    \/ rtm_add \/ rtm_change \/ rtm_delete \/ rtm_other
    \/ rtm_get \/ handle_rtm_get \/ update_rtm_from_rc \/ flush \/ handle_route_msg

RouteSpec == RouteInit /\ [][RouteNext]_routeVars

-----------------------------------------------------------------------------
(* Properties.                                                             *)

Returned == rt.at = "returned"

(* Whatever way a call of lazybsd_rtioctl ends, and many of its errors     *)
(* leave from the middle through senderr, the buffer it allocated is freed *)
(* exactly once and the routing table is not left locked.                  *)
RouteReleased == Returned => bufs = 0 /\ readers = 0

(* Every route the ioctl installs has the form a later request will look   *)
(* for: no bits of the destination outside the mask, and no full mask, so  *)
(* that one prefix is never there twice and the request that added a route *)
(* can delete it (cleanup_xaddrs).                                         *)
RibCanonical == Canonical(rib)

(* What the message asks for: the longest prefix of an address, or a       *)
(* prefix.                                                                 *)
Answers(r, req) ==
    LET asked == rt_xaddrs(req)
        bits  == IF asked["NETMASK"] = NoSa THEN AllBits ELSE asked["NETMASK"].val
    IN  IF "NETMASK" \in req.addrs
        THEN /\ r.fam = asked["DST"].fam
             /\ RouteMask(r) = bits /\ r.dst = Masked(asked["DST"].val, bits)
        ELSE Longest(r, asked["DST"].fam, asked["DST"].val)

(* RTM_GET answers an address with the longest prefix that contains it,    *)
(* and a prefix with that very prefix, also when the prefix is a single    *)
(* address, whose mask cleanup_xaddrs has removed by then.                 *)
GetAnswer ==
    Returned /\ rt.req.type = "GET" /\ data.done /\ "LLDATA" \notin rt.req.flags
      /\ "ANNOUNCE" \notin rt.req.flags
    => \E r \in rib : /\ Answers(r, rt.req)
                      /\ data.info["DST"] = Sa(r.fam, r.dst)
                      /\ MaskOf(data.info) = r.mask

(* A call that reports an error has left the routing table as it was, but  *)
(* for one case: a route is deleted before the answer is built, and when   *)
(* there is no room for the answer the call fails with the route gone.     *)
FailureKeepsTable ==
    Returned /\ rt.error # "none" /\ rib # rt.before
    => rt.req.type = "DELETE" /\ rt.error = "ENOBUFS"

(* The message that goes back fits into the caller's buffer and into the   *)
(* one it was built in, and an answer to RTM_GET or RTM_DELETE is as long  *)
(* as its header says: it was written whole.  A message whose own length   *)
(* was wrong goes back with the length it came with.                       *)
ReplyWhole ==
    Returned /\ rt.rtm /\ rt.req.msglen = MessageUnits(rt.req)
    => /\ data.msglen <= rt.maxlen /\ data.msglen <= rt.alloc_len
       /\ rt.route # NoSa /\ data.done => data.msglen = rtsock_msg_buffer(data.info)

=============================================================================
