----------------------------- MODULE ApiProofs -----------------------------
(***************************************************************************)
(* The socket API and the routing ioctl, for every value of the constants: *)
(* a call gives back what it took, whichever way it ends; one that fails   *)
(* leaves the routing table as it was; the table stays canonical, and a    *)
(* search of it is answered right and whole.  The numbers, the names and   *)
(* the control messages that cross the API keep their meaning.             *)
(***************************************************************************)
EXTENDS Api, DataLemmas, SequenceTheorems

-----------------------------------------------------------------------------
(* The routing ioctl.                                                      *)

(* Where a call is before it has changed anything. *)
Requested == {"ADD", "CHANGE", "DELETE", "GET", "OTHER"}
Undone    == {"fill", "start", "lookup"} \cup Requested

(* A record of the fields of a call. *)
IsRecord(r) ==
    r = [at |-> r.at, req |-> r.req, maxlen |-> r.maxlen, error |-> r.error, rtm |-> r.rtm,
         alloc_len |-> r.alloc_len, msglen |-> r.msglen, flags |-> r.flags, x |-> r.x,
         route |-> r.route, before |-> r.before]

(* The shape of a call. *)
IsCall ==
    /\ IsRecord(rt)
    /\ rt.at \in {"idle", "report", "flush", "returned"} \cup Undone
    /\ rt.rtm \in BOOLEAN
    /\ ~ rt.rtm => rt.at \in {"flush", "returned"}
    /\ rt.at # "idle" => rt.req \in Requests

(* A call has its buffer until flush frees it, and the lock of the table   *)
(* while it searches.                                                      *)
CallHolds ==
    /\ bufs = IF rt.at \in {"idle", "returned"} \/ ~ rt.rtm THEN 0 ELSE 1
    /\ readers = IF rt.at = "lookup" THEN 1 ELSE 0

(* The table is as the call found it until the one step that changes it,   *)
(* and after that only building the answer to a deletion can fail.         *)
TableKept ==
    /\ rt.at \in Undone => rt.error = "none" /\ rib = rt.before
    /\ rt.at \in Requested => rt.req.type = rt.at
    /\ rt.at = "lookup" => rt.req.type = "GET"
    /\ rt.at = "report" => /\ rt.error = "none"
                           /\ rt.req.type \in {"GET", "DELETE"}
                           /\ rt.req.type = "GET" => rib = rt.before
    /\ rt.at \in {"flush", "returned"} =>
          \/ rt.error = "none"
          \/ rib = rt.before
          \/ rt.req.type = "DELETE" /\ rt.error = "ENOBUFS"

RouteInvariant == IsCall /\ CallHolds /\ TableKept

(* Between calls. *)
LEMMA IdleRecord ==
    ASSUME NEW r, r = NoCall
    PROVE  IsRecord(r) /\ r.at = "idle" /\ r.rtm = TRUE
<1>1. PICK new : new = NewCall(NoSa, 0)
  OBVIOUS
<1>2. IsRecord(new) /\ new.rtm = TRUE
  BY <1>1 DEF NewCall, IsRecord
<1>3. r = [new EXCEPT !.at = "idle"]
  BY <1>1 DEF NoCall
<1>4. QED
  BY <1>2, <1>3 DEF IsRecord

(* A call that is started. *)
LEMMA CallStarts ==
    ASSUME RouteInvariant, NEW req \in Requests, NEW maxlen, lazybsd_rtioctl(req, maxlen)
    PROVE  RouteInvariant'
<1>1. rt.at = "idle" /\ bufs = 0 /\ readers = 0
  BY DEF RouteInvariant, CallHolds, lazybsd_rtioctl
<1>2. rib' = rib /\ readers' = readers
  BY DEF lazybsd_rtioctl
<1>3. PICK new, call : /\ new = NewCall(req, maxlen)
                       /\ call = [new EXCEPT !.alloc_len = roundup2(MessageUnits(req)),
                                             !.msglen = req.msglen, !.flags = req.flags, !.before = rib]
  OBVIOUS
<1>4. IsRecord(new) /\ new.at = "fill" /\ new.req = req /\ new.rtm = TRUE /\ new.error = "none"
  BY <1>3 DEF NewCall, IsRecord
<1>5. /\ IsRecord(call)
      /\ call.at = "fill" /\ call.req = req /\ call.rtm = TRUE /\ call.error = "none"
      /\ call.before = rib
  BY <1>3, <1>4 DEF IsRecord
<1>6. ASSUME NEW e, rt' = [call EXCEPT !.at = "flush", !.error = e, !.rtm = FALSE], bufs' = bufs
      PROVE  RouteInvariant'
  <2>1. /\ IsRecord(rt)' /\ rt'.at = "flush" /\ rt'.rtm = FALSE /\ rt'.req = req /\ rt'.before = rib
    BY <1>5, <1>6 DEF IsRecord
  <2>2. rib' = rib /\ readers' = 0 /\ bufs' = 0
    BY <1>1, <1>2, <1>6
  <2>3. QED
    BY <2>1, <2>2 DEF RouteInvariant, IsCall, CallHolds, TableKept, Undone, Requested
<1>7. ASSUME rt' = [call EXCEPT !.at = "flush", !.error = "EINVAL"], bufs' = bufs + 1
      PROVE  RouteInvariant'
  <2>1. /\ IsRecord(rt)' /\ rt'.at = "flush" /\ rt'.rtm = TRUE /\ rt'.req = req /\ rt'.before = rib
    BY <1>5, <1>7 DEF IsRecord
  <2>2. rib' = rib /\ readers' = 0 /\ bufs' = 1
    BY <1>1, <1>2, <1>7
  <2>3. QED
    BY <2>1, <2>2 DEF RouteInvariant, IsCall, CallHolds, TableKept, Undone, Requested
<1>8. ASSUME rt' = call, bufs' = bufs + 1
      PROVE  RouteInvariant'
  <2>1. /\ IsRecord(rt)' /\ rt'.at = "fill" /\ rt'.rtm = TRUE /\ rt'.error = "none"
        /\ rt'.req = req /\ rt'.before = rib
    BY <1>5, <1>8 DEF IsRecord
  <2>2. rib' = rib /\ readers' = 0 /\ bufs' = 1
    BY <1>1, <1>2, <1>8
  <2>3. QED
    BY <2>1, <2>2 DEF RouteInvariant, IsCall, CallHolds, TableKept, Undone, Requested
<1>9. \/ rt' = [call EXCEPT !.at = "flush", !.error = "ENOBUFS", !.rtm = FALSE] /\ bufs' = bufs
      \/ rt' = [call EXCEPT !.at = "flush", !.error = "EINVAL"] /\ bufs' = bufs + 1
      \/ rt' = [call EXCEPT !.at = "flush", !.error = "EPROTONOSUPPORT", !.rtm = FALSE] /\ bufs' = bufs
      \/ rt' = call /\ bufs' = bufs + 1
  BY <1>3 DEF lazybsd_rtioctl
<1>10. QED
  BY <1>6, <1>7, <1>8, <1>9

(* A call that goes on to its end with what it has. *)
LEMMA CallEnds ==
    ASSUME RouteInvariant, rt.at \in Undone \cup {"report"}, NEW e, NEW f, NEW a, NEW m, NEW x,
           rt' = [rt EXCEPT !.at = "flush", !.error = e, !.flags = f, !.alloc_len = a, !.msglen = m, !.x = x],
           bufs' = bufs, readers' = 0,
           \/ e = "none"
           \/ rib' = rt.before
           \/ rt.req.type = "DELETE" /\ e = "ENOBUFS"
    PROVE  RouteInvariant'
<1>1. /\ IsRecord(rt)' /\ rt'.at = "flush" /\ rt'.error = e /\ rt'.rtm = rt.rtm /\ rt'.req = rt.req
      /\ rt'.before = rt.before
  BY DEF RouteInvariant, IsCall, IsRecord
<1>2. rt.rtm = TRUE /\ rt.req \in Requests /\ bufs' = 1
  BY DEF RouteInvariant, IsCall, CallHolds, Undone, Requested
<1>3. QED
  BY <1>1, <1>2 DEF RouteInvariant, IsCall, CallHolds, TableKept, Undone, Requested

(* A call that goes on to a step before the table is changed. *)
LEMMA CallGoesOn ==
    ASSUME RouteInvariant, rt.at \in Undone, NEW x, NEW to \in Undone,
           rt' = [rt EXCEPT !.at = to, !.x = x],
           bufs' = bufs, rib' = rib, readers' = IF to = "lookup" THEN 1 ELSE 0,
           to \in Requested => rt.req.type = to,
           to = "lookup" => rt.req.type = "GET"
    PROVE  RouteInvariant'
<1>1. /\ IsRecord(rt)' /\ rt'.at = to /\ rt'.error = rt.error /\ rt'.rtm = rt.rtm /\ rt'.req = rt.req
      /\ rt'.before = rt.before
  BY DEF RouteInvariant, IsCall, IsRecord
<1>2. rt.rtm = TRUE /\ rt.req \in Requests /\ bufs' = 1 /\ rt.error = "none" /\ rib = rt.before
  BY DEF RouteInvariant, IsCall, CallHolds, TableKept, Undone, Requested
<1>3. QED
  BY <1>1, <1>2 DEF RouteInvariant, IsCall, CallHolds, TableKept, Undone, Requested

(* A call with a route to report. *)
LEMMA CallReports ==
    ASSUME RouteInvariant, rt.at \in {"DELETE", "lookup"}, NEW r,
           rt' = [rt EXCEPT !.at = "report", !.route = r],
           bufs' = bufs, readers' = 0, rt.at = "lookup" => rib' = rib
    PROVE  RouteInvariant'
<1>1. /\ IsRecord(rt)' /\ rt'.at = "report" /\ rt'.error = rt.error /\ rt'.rtm = rt.rtm /\ rt'.req = rt.req
      /\ rt'.before = rt.before
  BY DEF RouteInvariant, IsCall, IsRecord
<1>2. /\ rt.rtm = TRUE /\ rt.req \in Requests /\ bufs' = 1 /\ rt.error = "none" /\ rib = rt.before
      /\ rt.at = "DELETE" => rt.req.type = "DELETE"
      /\ rt.at = "lookup" => rt.req.type = "GET"
  BY DEF RouteInvariant, IsCall, CallHolds, TableKept, Undone, Requested
<1>3. QED
  BY <1>1, <1>2 DEF RouteInvariant, IsCall, CallHolds, TableKept, Undone, Requested

(* A call that ends early leaves nothing behind. *)
LEMMA SenderrEnds ==
    ASSUME RouteInvariant, rt.at \in Undone \cup {"report"}, NEW e, senderr(e),
           bufs' = bufs, readers' = 0, rib' = rib,
           rt.at = "report" => e = "ENOBUFS"
    PROVE  RouteInvariant'
<1>1. IsRecord(rt)
  BY DEF RouteInvariant, IsCall
<1>2. rt' = [rt EXCEPT !.at = "flush", !.error = e, !.flags = rt.flags, !.alloc_len = rt.alloc_len,
                       !.msglen = rt.msglen, !.x = rt.x]
  BY <1>1 DEF senderr, IsRecord
<1>3. rib' = rt.before \/ (rt.req.type = "DELETE" /\ e = "ENOBUFS")
  BY DEF RouteInvariant, TableKept
<1>4. QED
  BY <1>2, <1>3, CallEnds

(* Every step of a call keeps what it holds, and the table, accounted for. *)
LEMMA RouteStep ==
    ASSUME RouteInvariant, RouteNext
    PROVE  RouteInvariant'
<1>1. /\ IsRecord(rt)
      /\ rt.at \in Undone => rt.error = "none" /\ rib = rt.before
      /\ rt.at # "idle" => rt.req.type \in Requested
      /\ readers = IF rt.at = "lookup" THEN 1 ELSE 0
  BY RouteAssumption DEF RouteInvariant, IsCall, TableKept, CallHolds, Requested
<1>2. CASE rtm_fill
  <2>1. PICK y : /\ rt.at = "fill"
                 /\ rt' = [rt EXCEPT !.x = y, !.error = y.error,
                                     !.at = IF y.error = "none" THEN "start" ELSE "flush"]
                 /\ UNCHANGED <<rib, bufs, readers, data>>
    BY <1>2 DEF rtm_fill
  <2>2. /\ rt.at \in Undone /\ rt.error = "none" /\ rib = rt.before
        /\ readers' = 0 /\ bufs' = bufs /\ rib' = rib
    BY <1>1, <2>1 DEF Undone
  <2>3. CASE y.error = "none"
    <3>1. rt' = [rt EXCEPT !.at = "start", !.x = y]
      BY <1>1, <2>1, <2>2, <2>3 DEF IsRecord
    <3>2. PICK to \in Undone : to = "start" /\ to \notin Requested /\ to # "lookup"
      BY DEF Undone, Requested
    <3>3. rt' = [rt EXCEPT !.at = to, !.x = y] /\ readers' = IF to = "lookup" THEN 1 ELSE 0
      BY <2>2, <3>1, <3>2
    <3>4. QED
      BY <2>2, <3>2, <3>3, CallGoesOn
  <2>4. CASE y.error # "none"
    <3>1. rt' = [rt EXCEPT !.at = "flush", !.error = y.error, !.flags = rt.flags,
                           !.alloc_len = rt.alloc_len, !.msglen = rt.msglen, !.x = y]
      BY <1>1, <2>1, <2>4 DEF IsRecord
    <3>2. QED
      BY <2>2, <3>1, CallEnds
  <2>5. QED
    BY <2>3, <2>4
<1>3. CASE rtm_lldata
  <2>1. PICK e : rt.at = "start" /\ senderr(e) /\ UNCHANGED <<rib, bufs, readers, data>>
    BY <1>3 DEF rtm_lldata
  <2>2. QED
    BY <1>1, <2>1, SenderrEnds DEF Undone
<1>4. CASE rtm_blackhole
  <2>1. /\ rt.at = "start" /\ UNCHANGED <<rib, bufs, readers, data>>
        /\ \/ \E e : senderr(e)
           \/ rt' = [rt EXCEPT !.at = rt.req.type]
           \/ \E y : rt' = [rt EXCEPT !.x = y, !.at = rt.req.type]
    BY <1>4 DEF rtm_blackhole
  <2>2. rt.at \in Undone /\ readers' = 0 /\ rib' = rib /\ bufs' = bufs /\ rt.req.type \in Requested
    BY <1>1, <2>1 DEF Undone
  <2>3. ASSUME NEW e, senderr(e) PROVE RouteInvariant'
    BY <2>1, <2>2, <2>3, SenderrEnds
  <2>4. ASSUME NEW y, rt' = [rt EXCEPT !.at = rt.req.type, !.x = y] PROVE RouteInvariant'
    BY <2>1, <2>2, <2>4, CallGoesOn DEF Undone, Requested
  <2>5. rt' = [rt EXCEPT !.at = rt.req.type] => rt' = [rt EXCEPT !.at = rt.req.type, !.x = rt.x]
    BY <1>1 DEF IsRecord
  <2>6. ASSUME NEW y PROVE [rt EXCEPT !.x = y, !.at = rt.req.type] = [rt EXCEPT !.at = rt.req.type, !.x = y]
    BY <1>1 DEF IsRecord
  <2>7. QED
    BY <2>1, <2>3, <2>4, <2>5, <2>6
<1>5. CASE rtm_add \/ rtm_change
  <2>1. /\ rt.at \in {"ADD", "CHANGE"} /\ UNCHANGED <<bufs, readers, data>>
        /\ \/ rib' = rib /\ \E e : senderr(e)
           \/ \E f : rt' = [rt EXCEPT !.at = "flush", !.flags = f]
    BY <1>5 DEF rtm_add, rtm_change
  <2>2. rt.at \in Undone /\ readers' = 0 /\ bufs' = bufs /\ rt.error = "none"
    BY <1>1, <2>1 DEF Undone, Requested
  <2>3. ASSUME NEW e, senderr(e), rib' = rib PROVE RouteInvariant'
    BY <2>1, <2>2, <2>3, SenderrEnds
  <2>4. ASSUME NEW f, rt' = [rt EXCEPT !.at = "flush", !.flags = f] PROVE RouteInvariant'
    <3>1. rt' = [rt EXCEPT !.at = "flush", !.error = "none", !.flags = f, !.alloc_len = rt.alloc_len,
                           !.msglen = rt.msglen, !.x = rt.x]
      BY <1>1, <2>2, <2>4 DEF IsRecord
    <3>2. QED
      BY <2>2, <3>1, CallEnds
  <2>5. QED
    BY <2>1, <2>3, <2>4
<1>6. CASE rtm_delete \/ handle_rtm_get
  <2>1. /\ rt.at \in {"DELETE", "lookup"} /\ UNCHANGED <<bufs, data>>
        /\ \/ rib' = rib /\ \E e : senderr(e)
           \/ \E r : rt' = [rt EXCEPT !.at = "report", !.route = r]
        /\ rt.at = "lookup" => rib' = rib
        /\ readers' = IF rt.at = "lookup" THEN readers - 1 ELSE readers
    BY <1>6 DEF rtm_delete, handle_rtm_get
  <2>2. rt.at \in Undone /\ readers' = 0 /\ bufs' = bufs
    <3>1. rt.at \in Undone /\ bufs' = bufs
      BY <2>1 DEF Undone, Requested
    <3>2. readers = (IF rt.at = "lookup" THEN 1 ELSE 0) /\ readers' = IF rt.at = "lookup" THEN readers - 1 ELSE readers
      BY <1>1, <2>1
    <3>3. QED
      BY <3>1, <3>2
  <2>3. ASSUME NEW e, senderr(e), rib' = rib PROVE RouteInvariant'
    BY <2>1, <2>2, <2>3, SenderrEnds
  <2>4. ASSUME NEW r, rt' = [rt EXCEPT !.at = "report", !.route = r] PROVE RouteInvariant'
    BY <2>1, <2>2, <2>4, CallReports
  <2>5. QED
    BY <2>1, <2>3, <2>4
<1>7. CASE rtm_other
  <2>1. rt.at = "OTHER" /\ senderr("EOPNOTSUPP") /\ UNCHANGED <<rib, bufs, readers, data>>
    BY <1>7 DEF rtm_other
  <2>2. QED
    BY <1>1, <2>1, SenderrEnds DEF Undone, Requested
<1>8. CASE rtm_get
  <2>1. /\ rt.at = "GET" /\ rt' = [rt EXCEPT !.at = "lookup"] /\ readers' = readers + 1
        /\ UNCHANGED <<rib, bufs, data>>
    BY <1>8 DEF rtm_get
  <2>2. rt.at \in Undone /\ readers' = 1 /\ rt.req.type = "GET"
    BY <1>1, <2>1 DEF RouteInvariant, TableKept, Undone, Requested
  <2>3. rt' = [rt EXCEPT !.at = "lookup", !.x = rt.x]
    BY <1>1, <2>1 DEF IsRecord
  <2>4. QED
    BY <2>1, <2>2, <2>3, CallGoesOn DEF Undone, Requested
<1>9. CASE update_rtm_from_rc
  <2>1. /\ rt.at = "report" /\ UNCHANGED <<rib, bufs, readers, data>>
        /\ \/ senderr("ENOBUFS")
           \/ \E info, a : rt' = Written(info, a)
    BY <1>9 DEF update_rtm_from_rc
  <2>2. readers' = 0 /\ rt.error = "none"
    BY <1>1, <2>1 DEF RouteInvariant, TableKept
  <2>3. CASE senderr("ENOBUFS")
    BY <2>1, <2>2, <2>3, SenderrEnds
  <2>4. ASSUME NEW info, NEW a, rt' = Written(info, a) PROVE RouteInvariant'
    <3>1. PICK m, f, y : /\ m = IF rtsock_msg_buffer(info) <= a THEN rtsock_msg_buffer(info) ELSE rt.msglen
                         /\ f = ReportFlags(rt.route)
                         /\ y = [rt.x EXCEPT !.info = info]
      OBVIOUS
    <3>2. rt' = [rt EXCEPT !.at = "flush", !.x = y, !.flags = f, !.alloc_len = a, !.msglen = m]
      BY <2>4, <3>1 DEF Written
    <3>3. rt' = [rt EXCEPT !.at = "flush", !.error = "none", !.flags = f, !.alloc_len = a,
                           !.msglen = m, !.x = y]
      BY <1>1, <2>2, <3>2 DEF IsRecord
    <3>4. QED
      BY <2>1, <2>2, <3>3, CallEnds
  <2>5. QED
    BY <2>1, <2>3, <2>4
<1>10. CASE flush
  <2>1. /\ rt.at = "flush" /\ rt' = [rt EXCEPT !.at = "returned"]
        /\ bufs' = IF rt.rtm THEN bufs - 1 ELSE bufs
        /\ UNCHANGED <<rib, readers>>
    BY <1>10 DEF flush
  <2>2. /\ IsRecord(rt)' /\ rt'.at = "returned" /\ rt'.error = rt.error /\ rt'.rtm = rt.rtm
        /\ rt'.req = rt.req /\ rt'.before = rt.before
    BY <1>1, <2>1 DEF IsRecord
  <2>3. bufs' = 0 /\ readers' = 0
    BY <1>1, <2>1 DEF RouteInvariant, CallHolds
  <2>4. rt.rtm \in BOOLEAN /\ rt.req \in Requests
    BY <2>1 DEF RouteInvariant, IsCall
  <2>5. \/ rt.error = "none" \/ rib = rt.before \/ (rt.req.type = "DELETE" /\ rt.error = "ENOBUFS")
    BY <2>1 DEF RouteInvariant, TableKept
  <2>6. QED
    BY <2>1, <2>2, <2>3, <2>4, <2>5 DEF RouteInvariant, IsCall, CallHolds, TableKept, Undone, Requested
<1>11. CASE handle_route_msg
  <2>1. rt' = NoCall /\ rt.at = "returned" /\ bufs' = 0 /\ readers' = 0
    BY <1>11 DEF handle_route_msg, RouteInvariant, CallHolds
  <2>2. IsRecord(rt)' /\ rt'.at = "idle" /\ rt'.rtm = TRUE
    BY <2>1, IdleRecord
  <2>3. QED
    BY <2>1, <2>2 DEF RouteInvariant, IsCall, CallHolds, TableKept, Undone, Requested
<1>12. QED
  BY <1>2, <1>3, <1>4, <1>5, <1>6, <1>7, <1>8, <1>9, <1>10, <1>11, CallStarts DEF RouteNext

(* The invariant of the routing ioctl. *)
LEMMA RouteInvariantHolds ==
    RouteSpec => []RouteInvariant
<1>1. RouteInit => RouteInvariant
  <2>1. SUFFICES ASSUME RouteInit PROVE RouteInvariant
    OBVIOUS
  <2>2. rt = NoCall /\ bufs = 0 /\ readers = 0
    BY <2>1 DEF RouteInit
  <2>3. IsRecord(rt) /\ rt.at = "idle" /\ rt.rtm = TRUE
    BY <2>2, IdleRecord
  <2>4. QED
    BY <2>2, <2>3 DEF RouteInvariant, IsCall, CallHolds, TableKept, Undone, Requested
<1>2. RouteInvariant /\ [RouteNext]_routeVars => RouteInvariant'
  <2>1. SUFFICES ASSUME RouteInvariant, [RouteNext]_routeVars PROVE RouteInvariant'
    OBVIOUS
  <2>2. CASE UNCHANGED routeVars
    BY <2>1, <2>2 DEF routeVars, RouteInvariant, IsCall, IsRecord, CallHolds, TableKept
  <2>3. QED
    BY <2>1, <2>2, RouteStep
<1>3. QED
  BY <1>1, <1>2, PTL DEF RouteSpec

(* Whatever way a call of lazybsd_rtioctl ends, its buffer is freed and    *)
(* the routing table is not left locked.                                   *)
THEOREM RouteCallsRelease ==
    RouteSpec => []RouteReleased
<1>1. RouteInvariant => RouteReleased
  BY DEF RouteInvariant, CallHolds, RouteReleased, Returned
<1>2. QED
  BY <1>1, RouteInvariantHolds, PTL

(* A routing call that fails has left the table as it was, unless the      *)
(* answer to a deletion did not fit.                                       *)
THEOREM RouteFailureKeeps ==
    RouteSpec => []FailureKeepsTable
<1>1. RouteInvariant => FailureKeepsTable
  BY DEF RouteInvariant, TableKept, FailureKeepsTable, Returned
<1>2. QED
  BY <1>1, RouteInvariantHolds, PTL

-----------------------------------------------------------------------------
(* The routing table and the answers.                                      *)

(* The mask a message asks with: all bits when it gives none. *)
AskedBits(req) ==
    IF rt_xaddrs(req)["NETMASK"] = NoSa THEN AllBits ELSE rt_xaddrs(req)["NETMASK"].val

(* Addresses as cleanup_xaddrs leaves them. *)
Cleaned(info, req) ==
    /\ rt_xaddrs(req)["DST"] # NoSa
    /\ info["DST"] = Sa(rt_xaddrs(req)["DST"].fam, Masked(rt_xaddrs(req)["DST"].val, AskedBits(req)))
    /\ info["DST"].fam \in {"inet", "inet6"}
    /\ info["NETMASK"] = IF AskedBits(req) = AllBits THEN NoSa ELSE Sa(info["DST"].fam, AskedBits(req))

(* The address information of a call. *)
IsInfo(x) ==
    /\ x = [info |-> x.info, flags |-> x.flags, error |-> x.error, lo |-> x.lo]
    /\ x.info \in [SlotSet -> Sockaddrs \cup {NoSa}]
    /\ x.lo \in BOOLEAN

(* The table and the addresses of the call. *)
Addresses ==
    /\ rib \subseteq Routes /\ Canonical(rib)
    /\ IsInfo(rt.x)
    /\ rt.route \in Routes \cup {NoSa}
    /\ rt.at \in Undone => rt.route = NoSa
    /\ rt.at = "report" => rt.route # NoSa

(* Where the addresses of a call are cleaned ones. *)
Cleansed ==
    /\ rt.at = "start" /\ "LLDATA" \notin rt.req.flags => Cleaned(rt.x.info, rt.req)
    /\ rt.at \in Requested \cup {"lookup"} => "LLDATA" \notin rt.req.flags /\ Cleaned(rt.x.info, rt.req)

(* The call has a result that is no error. *)
Succeeds == rt.at = "report" \/ (rt.at \in {"flush", "returned"} /\ rt.error = "none")

(* The answer to RTM_GET is one, and stays one: the table does not change  *)
(* between the search and the return.                                      *)
AnswerFound ==
    Succeeds /\ rt.req.type = "GET" /\ "LLDATA" \notin rt.req.flags /\ "ANNOUNCE" \notin rt.req.flags
    => rt.route \in rib /\ Answers(rt.route, rt.req)

(* The route is reported whole. *)
AnswerWritten ==
    Succeeds /\ rt.at # "report" /\ rt.route # NoSa
    => /\ rt.x.info["DST"] = Sa(rt.route.fam, rt.route.dst)
       /\ MaskOf(rt.x.info) = rt.route.mask
       /\ rt.msglen = rtsock_msg_buffer(rt.x.info)

(* The length of the message and the sizes of the buffers. *)
LengthsFit ==
    rt.at # "idle" =>
       /\ rt.maxlen \in Nat /\ rt.alloc_len \in Nat
       /\ rt.at \in Undone \cup {"report"} => rt.req.msglen = MessageUnits(rt.req)
       /\ rt.req.msglen = MessageUnits(rt.req) =>
             rt.msglen \in Nat /\ rt.msglen <= rt.maxlen /\ rt.msglen <= rt.alloc_len

(* What the caller's buffer holds. *)
DataReturned ==
    data = IF rt.at = "returned" /\ rt.rtm
           THEN [msglen |-> rt.msglen, done |-> rt.error = "none", errno |-> rt.error, info |-> rt.x.info]
           ELSE Untouched

(* Together, the invariant of the answers. *)
AnswerInvariant == Addresses /\ Cleansed /\ AnswerFound /\ AnswerWritten /\ LengthsFit /\ DataReturned

(* The slots of the addresses, as a set. *)
LEMMA SlotsAre ==
    /\ SlotSet = {"DST", "GATEWAY", "NETMASK", "GENMASK", "IFP", "IFA", "AUTHOR", "BRD"}
    /\ DOMAIN Slots = 1 .. 8 /\ \A i \in 1 .. 8 : Slots[i] \in SlotSet
<1>1. DOMAIN Slots = 1 .. 8
  BY DEF Slots
<1>2. /\ Slots[1] = "DST" /\ Slots[2] = "GATEWAY" /\ Slots[3] = "NETMASK" /\ Slots[4] = "GENMASK"
      /\ Slots[5] = "IFP" /\ Slots[6] = "IFA" /\ Slots[7] = "AUTHOR" /\ Slots[8] = "BRD"
  BY DEF Slots
<1>3. \A i \in 1 .. 8 : i \in {1, 2, 3, 4, 5, 6, 7, 8}
  OBVIOUS
<1>4. {1, 2, 3, 4, 5, 6, 7, 8} \subseteq 1 .. 8
  OBVIOUS
<1>5. \A s \in SlotSet : s \in {"DST", "GATEWAY", "NETMASK", "GENMASK", "IFP", "IFA", "AUTHOR", "BRD"}
  BY <1>1, <1>2, <1>3 DEF SlotSet
<1>6. {"DST", "GATEWAY", "NETMASK", "GENMASK", "IFP", "IFA", "AUTHOR", "BRD"} \subseteq SlotSet
  BY <1>1, <1>2, <1>4 DEF SlotSet
<1>7. QED
  BY <1>1, <1>5, <1>6 DEF SlotSet

(* A sockaddr takes some units. *)
LEMMA SizeIsNat ==
    ASSUME NEW sa \in Sockaddrs \cup {NoSa}
    PROVE  SA_SIZE(sa) \in Nat
<1>1. CASE sa = NoSa
  BY <1>1 DEF SA_SIZE
<1>2. CASE sa # NoSa /\ sa.size \in {"zero", "short"}
  BY <1>2 DEF SA_SIZE
<1>3. CASE sa # NoSa /\ sa.size \notin {"zero", "short"}
  <2>1. sa.fam \in {"inet", "inet6", "link"}
    BY <1>3 DEF Sockaddrs
  <2>2. SA_SIZE(sa) = [inet |-> 2, inet6 |-> 4, link |-> 7][sa.fam]
    BY <1>3 DEF SA_SIZE
  <2>3. QED
    BY <2>1, <2>2
<1>4. QED
  BY <1>1, <1>2, <1>3

(* And so does a list of them. *)
LEMMA UnitsAreNat ==
    ASSUME NEW sas, NEW n \in Nat, DOMAIN sas = 1 .. n,
           \A i \in 1 .. n : sas[i] \in Sockaddrs \cup {NoSa}
    PROVE  Units(sas) \in Nat
<1>1. PICK f : f = [i \in DOMAIN sas |-> SA_SIZE(sas[i])]
  OBVIOUS
<1>2. DOMAIN f = 1 .. n /\ \A i \in 1 .. n : f[i] \in Nat
  BY <1>1, SizeIsNat
<1>3. IsFiniteSet(1 .. n)
  BY FS_Interval
<1>4. SumFunctionOnSet(f, 1 .. n) \in Nat
  BY <1>2, <1>3, SumOfNat
<1>5. QED
  BY <1>1, <1>2, <1>4 DEF Units, SumFunction, SumFunctionOnSet, FoldFunction

(* A message takes some units, with its header. *)
LEMMA MessageUnitsNat ==
    ASSUME NEW req \in Requests
    PROVE  MessageUnits(req) \in Nat
<1>1. req.sas \in Seq(Sockaddrs)
  BY RouteAssumption
<1>2. Len(req.sas) \in Nat /\ DOMAIN req.sas = 1 .. Len(req.sas) /\ \A i \in 1 .. Len(req.sas) : req.sas[i] \in Sockaddrs \cup {NoSa}
  BY <1>1
<1>3. Units(req.sas) \in Nat
  BY <1>2, UnitsAreNat
<1>4. QED
  BY <1>3 DEF MessageUnits, HeaderUnits

(* The answer takes some units. *)
LEMMA AnswerUnitsNat ==
    ASSUME NEW info \in [SlotSet -> Sockaddrs \cup {NoSa}]
    PROVE  rtsock_msg_buffer(info) \in Nat
<1>1. PICK sas : sas = InSlots(info)
  OBVIOUS
<1>2. DOMAIN sas = 1 .. 8 /\ \A i \in 1 .. 8 : sas[i] \in Sockaddrs \cup {NoSa}
  BY <1>1, SlotsAre DEF InSlots
<1>3. Units(sas) \in Nat
  BY <1>2, UnitsAreNat
<1>4. QED
  BY <1>1, <1>3 DEF rtsock_msg_buffer, HeaderUnits

(* A buffer has room for what it is rounded up from. *)
LEMMA RoundsUp ==
    ASSUME NEW n \in Nat
    PROVE  roundup2(n) \in Nat /\ n <= roundup2(n)
<1>1. RoundUnits \in Nat /\ RoundUnits > 0
  BY RouteAssumption
<1>2. PICK a \in Nat : a = n + RoundUnits - 1
  BY <1>1
<1>3. PICK q \in Int, r \in 0 .. RoundUnits - 1 : q = a \div RoundUnits /\ a = RoundUnits * q + r
  BY <1>1, <1>2, DivMod
<1>4. PICK p \in Int : p = RoundUnits * q
  BY <1>1
<1>5. roundup2(n) = p
  BY <1>1, <1>2, <1>3, <1>4 DEF roundup2
<1>6. QED
  BY <1>1, <1>2, <1>3, <1>4, <1>5

(* What rt_xaddrs takes from a message: addresses, and a mask only when    *)
(* the message says there is one.                                          *)
LEMMA XaddrsTaken ==
    ASSUME NEW req \in Requests
    PROVE  /\ rt_xaddrs(req) \in [SlotSet -> Sockaddrs \cup {NoSa}]
           /\ "NETMASK" \notin req.addrs => rt_xaddrs(req)["NETMASK"] = NoSa
<1>1. \A k \in DOMAIN req.sas : req.sas[k] \in Sockaddrs
  BY RouteAssumption
<1>2. sa_zero \in Sockaddrs
  BY DEF sa_zero, Sa, Sockaddrs
<1>3. ASSUME NEW s \in SlotSet PROVE rt_xaddrs(req)[s] \in Sockaddrs \cup {NoSa}
  <2>1. CASE s \in req.addrs /\ \E k \in Looked(req) : Announced(req)[k] = s
    <3>1. PICK k : k = CHOOSE j \in Looked(req) : Announced(req)[j] = s
      OBVIOUS
    <3>2. k \in Looked(req)
      BY <2>1, <3>1
    <3>3. k \in DOMAIN req.sas
      BY <3>2 DEF Looked
    <3>4. rt_xaddrs(req)[s] = IF IsStop(req, k) THEN sa_zero ELSE req.sas[k]
      BY <2>1, <3>1 DEF rt_xaddrs
    <3>5. QED
      BY <1>1, <1>2, <3>3, <3>4
  <2>2. CASE ~ (s \in req.addrs /\ \E k \in Looked(req) : Announced(req)[k] = s)
    BY <2>2 DEF rt_xaddrs
  <2>3. QED
    BY <2>1, <2>2
<1>4. rt_xaddrs(req) = [s \in SlotSet |-> rt_xaddrs(req)[s]]
  BY DEF rt_xaddrs
<1>5. "NETMASK" \in SlotSet
  BY SlotsAre
<1>6. "NETMASK" \notin req.addrs => rt_xaddrs(req)["NETMASK"] = NoSa
  BY <1>5 DEF rt_xaddrs
<1>7. QED
  BY <1>3, <1>4, <1>6

(* Replacing an address keeps the address information one. *)
LEMMA InfoReplaced ==
    ASSUME NEW x, IsInfo(x), NEW s \in SlotSet, NEW sa \in Sockaddrs \cup {NoSa}, NEW y,
           y = [x EXCEPT !.info[s] = sa]
    PROVE  /\ IsInfo(y) /\ y.info[s] = sa /\ y.error = x.error /\ y.flags = x.flags
           /\ \A q \in SlotSet \ {s} : y.info[q] = x.info[q]
<1>1. y = [info |-> [x.info EXCEPT ![s] = sa], flags |-> x.flags, error |-> x.error, lo |-> x.lo]
  BY DEF IsInfo
<1>2. QED
  BY <1>1 DEF IsInfo

(* remove_netmask removes the mask. *)
LEMMA NetmaskRemoved ==
    ASSUME NEW x, IsInfo(x)
    PROVE  /\ IsInfo(remove_netmask(x)) /\ remove_netmask(x).info["NETMASK"] = NoSa
           /\ remove_netmask(x).error = x.error
           /\ \A q \in SlotSet \ {"NETMASK"} : remove_netmask(x).info[q] = x.info[q]
<1>1. "NETMASK" \in SlotSet
  BY SlotsAre
<1>2. PICK info : info = [x.info EXCEPT !["NETMASK"] = NoSa]
  OBVIOUS
<1>3. /\ info \in [SlotSet -> Sockaddrs \cup {NoSa}] /\ info["NETMASK"] = NoSa
      /\ \A q \in SlotSet \ {"NETMASK"} : info[q] = x.info[q]
  BY <1>1, <1>2 DEF IsInfo
<1>4. PICK flags : flags = x.flags \cup {"HOST"}
  OBVIOUS
<1>5. x = [info |-> x.info, flags |-> x.flags, error |-> x.error, lo |-> x.lo] /\ x.lo \in BOOLEAN
  BY DEF IsInfo
<1>6. remove_netmask(x) = [x EXCEPT !.info = info, !.flags = flags]
  BY <1>2, <1>4 DEF remove_netmask
<1>7. remove_netmask(x) = [info |-> info, flags |-> flags, error |-> x.error, lo |-> x.lo]
  BY <1>5, <1>6
<1>8. QED
  BY <1>3, <1>5, <1>7 DEF IsInfo

(* An error leaves the addresses alone. *)
LEMMA InfoRefused ==
    ASSUME NEW x, IsInfo(x), NEW e, NEW y, y = [x EXCEPT !.error = e]
    PROVE  IsInfo(y) /\ y.error = e
BY DEF IsInfo

(* The cleaning of an IPv4 or IPv6 destination and its mask. *)
LEMMA InetCleaned ==
    ASSUME NEW x, IsInfo(x), NEW dst, dst = x.info["DST"], dst # NoSa, dst.fam \in {"inet", "inet6"},
           NEW bits, bits = IF x.info["NETMASK"] = NoSa THEN AllBits ELSE x.info["NETMASK"].val
    PROVE  /\ IsInfo(cleanup_xaddrs_inet(x))
           /\ cleanup_xaddrs_inet(x).error = "none" =>
                 /\ cleanup_xaddrs_inet(x).info["DST"] = Sa(dst.fam, Masked(dst.val, bits))
                 /\ cleanup_xaddrs_inet(x).info["NETMASK"] =
                       IF bits = AllBits THEN NoSa ELSE Sa(dst.fam, bits)
<1>1. /\ {"DST", "NETMASK"} \subseteq SlotSet
      /\ dst \in Sockaddrs /\ dst.val \subseteq AllBits /\ bits \subseteq AllBits
  <2>1. "DST" \in SlotSet /\ "NETMASK" \in SlotSet
    BY SlotsAre
  <2>2. x.info["DST"] \in Sockaddrs \cup {NoSa} /\ x.info["NETMASK"] \in Sockaddrs \cup {NoSa}
    BY <2>1 DEF IsInfo
  <2>3. \A sa \in Sockaddrs : sa.val \subseteq AllBits
    BY DEF Sockaddrs
  <2>4. QED
    BY <2>1, <2>2, <2>3
<1>2. PICK to \in Sockaddrs : to = Sa(dst.fam, Masked(dst.val, bits))
  BY <1>1 DEF Sa, Masked, Sockaddrs
<1>3. PICK m \in Sockaddrs : m = Sa(dst.fam, bits)
  BY <1>1 DEF Sa, Sockaddrs
<1>4. PICK y : y = [x EXCEPT !.info["DST"] = to]
  OBVIOUS
<1>5. /\ IsInfo(y) /\ y.info["DST"] = to /\ y.error = x.error
      /\ y.info["NETMASK"] = x.info["NETMASK"]
  BY <1>1, <1>4, InfoReplaced
<1>6. PICK z : z = [y EXCEPT !.info["NETMASK"] = m]
  OBVIOUS
<1>7. /\ IsInfo(z) /\ z.info["NETMASK"] = m /\ z.info["DST"] = to
  BY <1>1, <1>5, <1>6, InfoReplaced
<1>8. PICK e : e = [x EXCEPT !.error = "EINVAL"]
  OBVIOUS
<1>9. IsInfo(e) /\ e.error = "EINVAL"
  BY <1>8, InfoRefused
<1>10. cleanup_xaddrs_inet(x) \in {e, IF bits # AllBits THEN z ELSE remove_netmask(y)}
  BY <1>2, <1>3, <1>4, <1>6, <1>8 DEF cleanup_xaddrs_inet
<1>11. /\ IsInfo(remove_netmask(y)) /\ remove_netmask(y).info["NETMASK"] = NoSa
       /\ remove_netmask(y).info["DST"] = to
  BY <1>1, <1>5, NetmaskRemoved
<1>12. QED
  BY <1>2, <1>3, <1>7, <1>9, <1>10, <1>11

(* The cleaning of the addresses of a message that is not about the        *)
(* neighbour tables.                                                       *)
LEMMA AddressesCleaned ==
    ASSUME NEW req \in Requests, NEW x, IsInfo(x), x.info = rt_xaddrs(req)
    PROVE  /\ IsInfo(cleanup_xaddrs(x))
           /\ cleanup_xaddrs(x).error = "none" /\ "LLDATA" \notin x.flags =>
                 Cleaned(cleanup_xaddrs(x).info, req)
<1>1. CASE x.info["DST"] = NoSa \/ x.info["DST"].fam \notin {"inet", "inet6"}
  <2>1. PICK e \in {"EINVAL", "EAFNOSUPPORT"} : cleanup_xaddrs(x) = [x EXCEPT !.error = e]
    BY <1>1 DEF cleanup_xaddrs
  <2>2. IsInfo(cleanup_xaddrs(x)) /\ cleanup_xaddrs(x).error = e
    BY <2>1, InfoRefused
  <2>3. QED
    BY <2>2
<1>2. CASE x.info["DST"] # NoSa /\ x.info["DST"].fam \in {"inet", "inet6"}
  <2>1. PICK y : y = IF "LLDATA" \in x.flags THEN remove_netmask(x) ELSE x
    OBVIOUS
  <2>2. cleanup_xaddrs(x) = cleanup_xaddrs_inet(y)
    BY <1>2, <2>1 DEF cleanup_xaddrs
  <2>3. "DST" \in SlotSet \ {"NETMASK"}
    BY SlotsAre
  <2>4. IsInfo(y) /\ y.info["DST"] = x.info["DST"]
    BY <2>1, <2>3, NetmaskRemoved
  <2>5. PICK dst, bits : /\ dst = y.info["DST"]
                         /\ bits = IF y.info["NETMASK"] = NoSa THEN AllBits ELSE y.info["NETMASK"].val
    OBVIOUS
  <2>6. /\ IsInfo(cleanup_xaddrs_inet(y))
        /\ cleanup_xaddrs_inet(y).error = "none" =>
              /\ cleanup_xaddrs_inet(y).info["DST"] = Sa(dst.fam, Masked(dst.val, bits))
              /\ cleanup_xaddrs_inet(y).info["NETMASK"] = IF bits = AllBits THEN NoSa ELSE Sa(dst.fam, bits)
    BY <1>2, <2>4, <2>5, InetCleaned
  <2>7. ASSUME cleanup_xaddrs(x).error = "none", "LLDATA" \notin x.flags PROVE Cleaned(cleanup_xaddrs(x).info, req)
    <3>1. PICK z : z = cleanup_xaddrs(x).info
      OBVIOUS
    <3>2. bits = AskedBits(req) /\ dst = rt_xaddrs(req)["DST"] /\ dst # NoSa /\ dst.fam \in {"inet", "inet6"}
      BY <1>2, <2>1, <2>5, <2>7 DEF AskedBits
    <3>3. z["DST"] = Sa(dst.fam, Masked(dst.val, bits)) /\ z["NETMASK"] = IF bits = AllBits THEN NoSa ELSE Sa(dst.fam, bits)
      BY <2>2, <2>6, <2>7, <3>1
    <3>4. z["DST"].fam = dst.fam
      BY <3>3 DEF Sa
    <3>5. Cleaned(z, req)
      BY <3>2, <3>3, <3>4 DEF Cleaned
    <3>6. QED
      BY <3>1, <3>5
  <2>8. QED
    BY <2>2, <2>6, <2>7
<1>3. QED
  BY <1>1, <1>2

(* What fill_addrinfo gives. *)
LEMMA AddrinfoFilled ==
    ASSUME NEW req \in Requests, IsInfo(rt.x)
    PROVE  /\ IsInfo(fill_addrinfo(req))
           /\ fill_addrinfo(req).error = "none" /\ "LLDATA" \notin req.flags =>
                 Cleaned(fill_addrinfo(req).info, req)
<1>1. PICK x : x = [rt.x EXCEPT !.info = rt_xaddrs(req), !.flags = req.flags]
  OBVIOUS
<1>2. rt_xaddrs(req) \in [SlotSet -> Sockaddrs \cup {NoSa}]
  BY XaddrsTaken
<1>3. IsInfo(x) /\ x.info = rt_xaddrs(req) /\ x.flags = req.flags
  BY <1>1, <1>2 DEF IsInfo
<1>4. PICK y : y = cleanup_xaddrs(x)
  OBVIOUS
<1>5. IsInfo(y) /\ (y.error = "none" /\ "LLDATA" \notin req.flags => Cleaned(y.info, req))
  BY <1>3, <1>4, AddressesCleaned
<1>6. PICK e, w : e = [x EXCEPT !.error = "EINVAL"] /\ w = [y EXCEPT !.flags = (@ \ {"GATEWAY"}) \cup {"COMPAT"}]
  OBVIOUS
<1>7. fill_addrinfo(req) \in {e, w, y}
  BY <1>1, <1>4, <1>6 DEF fill_addrinfo
<1>8. IsInfo(e) /\ e.error = "EINVAL"
  BY <1>3, <1>6, InfoRefused
<1>9. IsInfo(w) /\ w.error = y.error /\ w.info = y.info
  BY <1>5, <1>6 DEF IsInfo
<1>10. QED
  BY <1>5, <1>7, <1>8, <1>9

(* What fill_blackholeinfo gives. *)
LEMMA BlackholeFilled ==
    ASSUME NEW x, IsInfo(x), x.info["DST"] # NoSa
    PROVE  /\ IsInfo(fill_blackholeinfo(x))
           /\ fill_blackholeinfo(x).info["DST"] = x.info["DST"]
           /\ fill_blackholeinfo(x).info["NETMASK"] = x.info["NETMASK"]
<1>1. {"DST", "GATEWAY", "NETMASK"} \subseteq SlotSet
  BY SlotsAre
<1>2. CASE x.info["DST"].fam \notin LoFamilies
  <2>1. PICK y : y = [x EXCEPT !.error = "ENOTSUP"]
    OBVIOUS
  <2>2. y = fill_blackholeinfo(x)
    BY <1>2, <2>1 DEF fill_blackholeinfo
  <2>3. IsInfo(y) /\ y.info = x.info
    BY <2>1 DEF IsInfo
  <2>4. QED
    BY <2>2, <2>3
<1>3. CASE x.info["DST"].fam \in LoFamilies
  <2>1. x.info["DST"] \in Sockaddrs
    BY <1>1 DEF IsInfo
  <2>2. PICK gw \in Sockaddrs : gw = Sa(x.info["DST"].fam, LoNet)
    BY <2>1, RouteAssumption DEF Sa, Sockaddrs
  <2>3. PICK y : y = [x EXCEPT !.info["GATEWAY"] = gw]
    OBVIOUS
  <2>4. IsInfo(y) /\ y.info["DST"] = x.info["DST"] /\ y.info["NETMASK"] = x.info["NETMASK"] /\ y.flags = x.flags
    BY <1>1, <2>3, InfoReplaced
  <2>5. PICK z : z = [x EXCEPT !.info["GATEWAY"] = gw, !.flags = @ \cup {"GATEWAY"}, !.lo = TRUE]
    OBVIOUS
  <2>6. z = fill_blackholeinfo(x)
    BY <1>3, <2>2, <2>5 DEF fill_blackholeinfo
  <2>7. z = [info |-> y.info, flags |-> x.flags \cup {"GATEWAY"}, error |-> y.error, lo |-> TRUE]
    BY <2>3, <2>5 DEF IsInfo
  <2>8. IsInfo(z) /\ z.info = y.info
    BY <2>4, <2>7 DEF IsInfo
  <2>9. QED
    BY <2>4, <2>6, <2>8
<1>4. QED
  BY <1>2, <1>3

(* A sockaddr made from a family and a value. *)
LEMMA SaMade ==
    ASSUME NEW fam \in {"inet", "inet6", "link"}, NEW val \in SUBSET AllBits
    PROVE  Sa(fam, val) \in Sockaddrs /\ Sa(fam, val).val = val
BY DEF Sa, Sockaddrs

(* The addresses of the answer are the route's. *)
LEMMA RouteReported ==
    ASSUME NEW info \in [SlotSet -> Sockaddrs \cup {NoSa}], NEW r \in Routes, NEW addrs, NEW new,
           new = ReportInfo(info, r, addrs)
    PROVE  /\ new \in [SlotSet -> Sockaddrs \cup {NoSa}]
           /\ new["DST"] = Sa(r.fam, r.dst) /\ MaskOf(new) = r.mask
<1>1. /\ r.fam \in {"inet", "inet6"} /\ r.dst \subseteq AllBits /\ r.nh.gw \in Sockaddrs
      /\ r.mask = NoSa \/ r.mask \subseteq AllBits
  BY DEF Routes
<1>2. Bits \in AllBits /\ IfaNet \subseteq AllBits
  BY RouteAssumption DEF AllBits
<1>3. /\ Sa(r.fam, r.dst) \in Sockaddrs
      /\ r.mask # NoSa => Sa(r.fam, r.mask) \in Sockaddrs /\ Sa(r.fam, r.mask).val = r.mask
      /\ Sa("link", {Bits}) \in Sockaddrs /\ Sa(r.fam, IfaNet) \in Sockaddrs
  BY <1>1, <1>2, SaMade
<1>4. {"DST", "NETMASK"} \subseteq SlotSet
  BY SlotsAre
<1>5. /\ new["DST"] = Sa(r.fam, r.dst)
      /\ new["NETMASK"] = IF r.mask = NoSa THEN NoSa ELSE Sa(r.fam, r.mask)
  BY <1>4 DEF ReportInfo
<1>6. MaskOf(new) = r.mask
  BY <1>3, <1>5, RouteAssumption DEF MaskOf
<1>7. ASSUME NEW s \in SlotSet PROVE new[s] \in Sockaddrs \cup {NoSa}
  <2>1. new[s] = CASE s = "DST"      -> Sa(r.fam, r.dst)
                   [] s = "NETMASK"  -> IF r.mask = NoSa THEN NoSa ELSE Sa(r.fam, r.mask)
                   [] s = "GATEWAY"  -> r.nh.gw
                   [] s = "GENMASK"  -> NoSa
                   [] s = "IFP" /\ addrs \cap {"IFP", "IFA"} # {} -> Sa("link", {Bits})
                   [] s = "IFA" /\ addrs \cap {"IFP", "IFA"} # {} -> Sa(r.fam, IfaNet)
                   [] OTHER -> info[s]
    BY DEF ReportInfo
  <2>2. CASE s \in {"DST", "NETMASK"}
    BY <1>3, <1>5, <2>2
  <2>3. CASE s = "GATEWAY"
    BY <1>1, <2>1, <2>3
  <2>4. CASE s = "GENMASK"
    BY <2>1, <2>4
  <2>5. CASE s = "IFP" /\ addrs \cap {"IFP", "IFA"} # {}
    BY <1>3, <2>1, <2>5
  <2>6. CASE s = "IFA" /\ addrs \cap {"IFP", "IFA"} # {}
    BY <1>3, <2>1, <2>6
  <2>7. CASE /\ s \notin {"DST", "NETMASK", "GATEWAY", "GENMASK"}
             /\ ~ (s = "IFP" /\ addrs \cap {"IFP", "IFA"} # {})
             /\ ~ (s = "IFA" /\ addrs \cap {"IFP", "IFA"} # {})
    BY <2>1, <2>7
  <2>8. QED
    BY <2>2, <2>3, <2>4, <2>5, <2>6, <2>7
<1>8. new = [s \in SlotSet |-> new[s]]
  BY DEF ReportInfo
<1>9. QED
  BY <1>5, <1>6, <1>7, <1>8

(* The mask of cleaned addresses. *)
LEMMA CleanedMask ==
    ASSUME NEW req \in Requests, NEW info, Cleaned(info, req)
    PROVE  /\ AskedBits(req) \subseteq AllBits
           /\ rt_xaddrs(req)["DST"] \in Sockaddrs /\ rt_xaddrs(req)["DST"].val \subseteq AllBits
           /\ info["DST"].fam = rt_xaddrs(req)["DST"].fam
           /\ info["DST"].val = Masked(rt_xaddrs(req)["DST"].val, AskedBits(req))
           /\ MaskOf(info) = IF AskedBits(req) = AllBits THEN NoSa ELSE AskedBits(req)
           /\ AskedBits(req) # NoSa
<1>1. {"DST", "NETMASK"} \subseteq SlotSet
  BY SlotsAre
<1>2. rt_xaddrs(req)["DST"] \in Sockaddrs /\ rt_xaddrs(req)["NETMASK"] \in Sockaddrs \cup {NoSa}
  BY <1>1, XaddrsTaken DEF Cleaned
<1>3. \A sa \in Sockaddrs : sa.val \subseteq AllBits /\ sa.fam \in {"inet", "inet6", "link"}
  BY DEF Sockaddrs
<1>4. AskedBits(req) \subseteq AllBits
  BY <1>2, <1>3 DEF AskedBits
<1>5. AskedBits(req) # NoSa
  BY <1>4, RouteAssumption
<1>6. PICK sa \in Sockaddrs : sa = Sa(rt_xaddrs(req)["DST"].fam, AskedBits(req)) /\ sa.val = AskedBits(req)
  BY <1>2, <1>3, <1>4, SaMade
<1>7. info["DST"].fam = rt_xaddrs(req)["DST"].fam /\ info["DST"].val = Masked(rt_xaddrs(req)["DST"].val, AskedBits(req))
  BY DEF Cleaned, Sa
<1>8. sa # NoSa
  BY <1>6, RouteAssumption
<1>9. info["NETMASK"] = IF AskedBits(req) = AllBits THEN NoSa ELSE sa
  BY <1>6, <1>7 DEF Cleaned
<1>10. QED
  BY <1>2, <1>3, <1>4, <1>5, <1>6, <1>7, <1>8, <1>9 DEF MaskOf

(* What the search of the table finds is what the message asks for. *)
LEMMA SearchAnswers ==
    ASSUME rt.req \in Requests, Cleaned(rt.x.info, rt.req), NEW r \in Found
    PROVE  r \in rib /\ Answers(r, rt.req)
<1>1. PICK req \in Requests, info \in {rt.x.info} : req = rt.req /\ info = rt.x.info
  OBVIOUS
<1>2. PICK dst, bits : dst = rt_xaddrs(req)["DST"] /\ bits = AskedBits(req)
  OBVIOUS
<1>3. /\ bits \subseteq AllBits /\ dst.val \subseteq AllBits /\ bits # NoSa
      /\ info["DST"].fam = dst.fam /\ info["DST"].val = Masked(dst.val, bits)
      /\ MaskOf(info) = IF bits = AllBits THEN NoSa ELSE bits
  BY <1>1, <1>2, CleanedMask
<1>4. CASE "NETMASK" \notin req.addrs
  <2>1. r \in Matching(info["DST"].fam, info["DST"].val)
    BY <1>1, <1>4 DEF Found
  <2>2. bits = AllBits
    BY <1>2, <1>4, XaddrsTaken DEF AskedBits
  <2>3. info["DST"].val = dst.val
    BY <1>3, <2>2 DEF Masked
  <2>4. r \in rib /\ Longest(r, dst.fam, dst.val)
    BY <1>3, <2>1, <2>3 DEF Matching
  <2>5. QED
    BY <1>1, <1>2, <1>4, <2>4 DEF Answers
<1>5. CASE "NETMASK" \in req.addrs
  <2>1. r \in rib /\ r.fam = dst.fam /\ r.dst = Masked(dst.val, bits) /\ r.mask = MaskOf(info)
    BY <1>1, <1>3, <1>5 DEF Found, Exactly
  <2>2. RouteMask(r) = bits
    BY <1>3, <2>1 DEF RouteMask
  <2>3. QED
    BY <1>1, <1>2, <1>5, <2>1, <2>2 DEF Answers, AskedBits
<1>6. QED
  BY <1>4, <1>5

(* A route with cleaned addresses, that is not there yet, can be added. *)
LEMMA CanonicalAdded ==
    ASSUME rib \subseteq Routes, Canonical(rib), NEW x, IsInfo(x), NEW req \in Requests,
           Cleaned(x.info, req), Exactly(x.info) = {}, x.info["GATEWAY"] # NoSa
    PROVE  rib \cup {NewRoute(x)} \subseteq Routes /\ Canonical(rib \cup {NewRoute(x)})
<1>1. PICK dst, bits, new : /\ dst = rt_xaddrs(req)["DST"] /\ bits = AskedBits(req)
                            /\ new = NewRoute(x)
  OBVIOUS
<1>2. /\ bits \subseteq AllBits /\ dst.val \subseteq AllBits /\ bits # NoSa
      /\ x.info["DST"].fam = dst.fam /\ x.info["DST"].val = Masked(dst.val, bits)
      /\ MaskOf(x.info) = IF bits = AllBits THEN NoSa ELSE bits
      /\ dst.fam \in {"inet", "inet6"}
  BY <1>1, CleanedMask DEF Cleaned
<1>3. "GATEWAY" \in SlotSet
  BY SlotsAre
<1>4. x.info["GATEWAY"] \in Sockaddrs /\ x.lo \in BOOLEAN
  BY <1>3 DEF IsInfo
<1>5. /\ new = [fam |-> dst.fam, dst |-> Masked(dst.val, bits), mask |-> MaskOf(x.info), nh |-> Nhop(x)]
      /\ Nhop(x) \in [gw : Sockaddrs, flags : SUBSET NhopFlags, lo : BOOLEAN]
  BY <1>1, <1>2, <1>4 DEF NewRoute, Nhop
<1>6. new \in Routes
  BY <1>2, <1>5 DEF Routes, Masked
<1>7. new.fam = dst.fam /\ new.dst = Masked(dst.val, bits) /\ new.mask = MaskOf(x.info)
  BY <1>5
<1>8. RouteMask(new) = bits
  BY <1>2, <1>7 DEF RouteMask
<1>9. Masked(new.dst, RouteMask(new)) = new.dst /\ new.mask # AllBits
  <2>1. NoSa # AllBits
    BY RouteAssumption
  <2>2. QED
    BY <1>2, <1>7, <1>8, <2>1 DEF Masked
<1>10. \A r \in rib : ~ (r.fam = new.fam /\ r.dst = new.dst /\ r.mask = new.mask)
  BY <1>2, <1>7 DEF Exactly
<1>11. QED
  BY <1>1, <1>6, <1>9, <1>10 DEF Canonical

(* A route can get another next hop, and go. *)
LEMMA CanonicalChanged ==
    ASSUME NEW routes \in SUBSET Routes, Canonical(routes), NEW r \in routes, NEW new \in Routes,
           new.fam = r.fam, new.dst = r.dst, new.mask = r.mask
    PROVE  Canonical((routes \ {r}) \cup {new}) /\ Canonical(routes \ {r})
<1>1. RouteMask(new) = RouteMask(r)
  BY DEF RouteMask
<1>2. QED
  BY <1>1 DEF Canonical

(* Answers depends on the table only. *)
LEMMA AnswersSame ==
    ASSUME rib' = rib, NEW r, NEW req, Answers(r, req)
    PROVE  Answers(r, req)'
<1>1. ASSUME NEW fam, NEW a PROVE Longest(r, fam, a)' <=> Longest(r, fam, a)
  BY DEF Longest
<1>2. QED
  BY <1>1 DEF Answers

(* Between calls there is no address and no route. *)
LEMMA IdleAnswer ==
    ASSUME NEW r, r = NoCall
    PROVE  r.at = "idle" /\ IsInfo(r.x) /\ r.route = NoSa
<1>1. PICK info : info = [s \in SlotSet |-> NoSa]
  OBVIOUS
<1>2. PICK x : x = [info |-> info, flags |-> {}, error |-> "none", lo |-> FALSE]
  OBVIOUS
<1>3. IsInfo(x)
  BY <1>1, <1>2 DEF IsInfo
<1>4. r.x = x /\ r.route = NoSa /\ r.at = "idle"
  BY <1>1, <1>2 DEF NoCall, NewCall
<1>5. QED
  BY <1>3, <1>4

(* A call that is started. *)
LEMMA AnswerStarts ==
    ASSUME RouteInvariant, AnswerInvariant, NEW req \in Requests, NEW maxlen \in MaxLens,
           MessageUnits(req) <= maxlen, lazybsd_rtioctl(req, maxlen)
    PROVE  AnswerInvariant'
<1>1. rt.at = "idle" /\ rib' = rib /\ data' = data /\ data = Untouched /\ rib \subseteq Routes /\ Canonical(rib)
  BY DEF AnswerInvariant, Addresses, DataReturned, lazybsd_rtioctl
<1>2. PICK new, call : /\ new = NewCall(req, maxlen)
                       /\ call = [new EXCEPT !.alloc_len = roundup2(MessageUnits(req)),
                                             !.msglen = req.msglen, !.flags = req.flags, !.before = rib]
  OBVIOUS
<1>3. PICK info, x : /\ info = [s \in SlotSet |-> NoSa]
                     /\ x = [info |-> info, flags |-> {}, error |-> "none", lo |-> FALSE]
  OBVIOUS
<1>4. IsInfo(x)
  BY <1>3 DEF IsInfo
<1>5. /\ IsRecord(new) /\ new.at = "fill" /\ new.req = req /\ new.rtm = TRUE /\ new.error = "none"
      /\ new.x = x /\ new.route = NoSa /\ new.maxlen = maxlen
  BY <1>2, <1>3 DEF NewCall, IsRecord
<1>6. /\ IsRecord(call) /\ call.at = "fill" /\ call.req = req /\ call.rtm = TRUE /\ call.error = "none"
      /\ call.x = x /\ call.route = NoSa /\ call.maxlen = maxlen
      /\ call.alloc_len = roundup2(MessageUnits(req)) /\ call.msglen = req.msglen
  BY <1>2, <1>5 DEF IsRecord
<1>7. /\ MessageUnits(req) \in Nat /\ maxlen \in Nat
      /\ call.alloc_len \in Nat /\ MessageUnits(req) <= call.alloc_len
  BY <1>6, MessageUnitsNat, RoundsUp, RouteAssumption
<1>8. ASSUME NEW e \in {"ENOBUFS", "EINVAL", "EPROTONOSUPPORT"}, NEW rtm,
             rt' = [call EXCEPT !.at = "flush", !.error = e, !.rtm = rtm]
      PROVE  AnswerInvariant'
  <2>1. /\ rt'.at = "flush" /\ rt'.error = e /\ rt'.req = req /\ rt'.x = x /\ rt'.route = NoSa
        /\ rt'.maxlen = maxlen /\ rt'.alloc_len = call.alloc_len /\ rt'.msglen = req.msglen
    BY <1>6, <1>8 DEF IsRecord
  <2>2. Addresses' /\ Cleansed' /\ AnswerFound' /\ AnswerWritten' /\ DataReturned'
    BY <1>1, <1>4, <1>8, <2>1
       DEF Addresses, Cleansed, AnswerFound, AnswerWritten, DataReturned, Succeeds, Undone, Requested
  <2>3. LengthsFit'
    BY <1>7, <2>1 DEF LengthsFit, Undone, Requested
  <2>4. QED
    BY <2>2, <2>3 DEF AnswerInvariant
<1>9. ASSUME rt' = call, req.msglen = MessageUnits(req) PROVE AnswerInvariant'
  <2>1. Addresses' /\ Cleansed' /\ AnswerFound' /\ AnswerWritten' /\ DataReturned'
    BY <1>1, <1>4, <1>6, <1>9
       DEF Addresses, Cleansed, AnswerFound, AnswerWritten, DataReturned, Succeeds, Undone, Requested
  <2>2. LengthsFit'
    BY <1>6, <1>7, <1>9 DEF LengthsFit
  <2>3. QED
    BY <2>1, <2>2 DEF AnswerInvariant
<1>10. \/ rt' = [call EXCEPT !.at = "flush", !.error = "ENOBUFS", !.rtm = FALSE]
       \/ rt' = [call EXCEPT !.at = "flush", !.error = "EINVAL"]
       \/ rt' = [call EXCEPT !.at = "flush", !.error = "EPROTONOSUPPORT", !.rtm = FALSE]
       \/ rt' = call /\ req.msglen = MessageUnits(req)
  BY <1>2 DEF lazybsd_rtioctl
<1>11. [call EXCEPT !.at = "flush", !.error = "EINVAL"] = [call EXCEPT !.at = "flush", !.error = "EINVAL", !.rtm = TRUE]
  BY <1>6 DEF IsRecord
<1>12. QED
  BY <1>8, <1>9, <1>10, <1>11

(* A call that goes to its end without an answer to build. *)
LEMMA AnswerEnds ==
    ASSUME RouteInvariant, AnswerInvariant, rt.at \in Undone \cup {"report"}, NEW e, NEW f, NEW x, IsInfo(x),
           rt' = [rt EXCEPT !.at = "flush", !.error = e, !.flags = f, !.x = x], data' = data,
           rib' \subseteq Routes, Canonical(rib'),
           e = "none" => /\ rt.at \in Undone
                         /\ rt.req.type # "GET" \/ "LLDATA" \in rt.req.flags
    PROVE  AnswerInvariant'
<1>1. /\ rt'.at = "flush" /\ rt'.error = e /\ rt'.req = rt.req /\ rt'.x = x /\ rt'.route = rt.route
      /\ rt'.maxlen = rt.maxlen /\ rt'.alloc_len = rt.alloc_len /\ rt'.msglen = rt.msglen
  BY DEF RouteInvariant, IsCall, IsRecord
<1>2. rt.at \notin {"idle", "returned"}
  BY DEF Undone, Requested
<1>3. Addresses' /\ Cleansed' /\ AnswerWritten' /\ DataReturned'
  BY <1>1, <1>2 DEF AnswerInvariant, Addresses, Cleansed, AnswerWritten, DataReturned, Succeeds, Undone, Requested
<1>4. AnswerFound'
  BY <1>1 DEF AnswerFound, Succeeds
<1>5. LengthsFit'
  BY <1>1, <1>2 DEF AnswerInvariant, LengthsFit, Undone, Requested
<1>6. QED
  BY <1>3, <1>4, <1>5 DEF AnswerInvariant

(* A call that goes on with cleaned addresses. *)
LEMMA AnswerGoesOn ==
    ASSUME RouteInvariant, AnswerInvariant, rt.at \in Undone, NEW x, IsInfo(x),
           NEW to \in {"start", "lookup"} \cup Requested,
           rt' = [rt EXCEPT !.at = to, !.x = x], data' = data, rib' = rib,
           "LLDATA" \in rt.req.flags => to = "start",
           "LLDATA" \notin rt.req.flags => Cleaned(x.info, rt.req)
    PROVE  AnswerInvariant'
<1>1. /\ rt'.at = to /\ rt'.req = rt.req /\ rt'.x = x /\ rt'.route = rt.route
      /\ rt'.maxlen = rt.maxlen /\ rt'.alloc_len = rt.alloc_len /\ rt'.msglen = rt.msglen
  BY DEF RouteInvariant, IsCall, IsRecord
<1>2. rt.at \notin {"idle", "returned"} /\ to \in Undone /\ to \notin {"idle", "report", "flush", "returned"}
  BY DEF Undone, Requested
<1>3. Addresses' /\ AnswerFound' /\ AnswerWritten' /\ DataReturned'
  BY <1>1, <1>2 DEF AnswerInvariant, Addresses, AnswerFound, AnswerWritten, DataReturned, Succeeds
<1>4. Cleansed'
  <2>1. PICK req : req = rt.req
    OBVIOUS
  <2>2. rt'.req = req /\ rt'.x.info = x.info
    BY <1>1, <2>1
  <2>3. "LLDATA" \notin req.flags => Cleaned(x.info, req)
    BY <2>1
  <2>4. QED
    BY <1>1, <2>1, <2>2, <2>3 DEF Cleansed, Requested
<1>5. LengthsFit'
  BY <1>1, <1>2 DEF AnswerInvariant, LengthsFit, Undone, Requested
<1>6. QED
  BY <1>3, <1>4, <1>5 DEF AnswerInvariant

(* A call that has found the route to report. *)
LEMMA AnswerReports ==
    ASSUME RouteInvariant, AnswerInvariant, rt.at \in {"DELETE", "lookup"}, NEW r \in Routes,
           rt' = [rt EXCEPT !.at = "report", !.route = r], data' = data,
           rib' \subseteq Routes, Canonical(rib'),
           rt.at = "lookup" /\ "ANNOUNCE" \notin rt.req.flags => rib' = rib /\ r \in rib /\ Answers(r, rt.req)
    PROVE  AnswerInvariant'
<1>1. /\ rt'.at = "report" /\ rt'.req = rt.req /\ rt'.x = rt.x /\ rt'.route = r
      /\ rt'.maxlen = rt.maxlen /\ rt'.alloc_len = rt.alloc_len /\ rt'.msglen = rt.msglen
  BY DEF RouteInvariant, IsCall, IsRecord
<1>2. rt.at \in Undone /\ r # NoSa
  BY RouteAssumption DEF Undone, Requested
<1>3. Addresses' /\ Cleansed' /\ AnswerWritten' /\ DataReturned'
  BY <1>1, <1>2 DEF AnswerInvariant, Addresses, Cleansed, AnswerWritten, DataReturned, Succeeds, Undone, Requested
<1>4. AnswerFound'
  <2>1. SUFFICES ASSUME rt'.req.type = "GET", "ANNOUNCE" \notin rt'.req.flags
                 PROVE  rt'.route \in rib' /\ Answers(rt.route, rt.req)'
    BY DEF AnswerFound
  <2>2. PICK req : req = rt.req
    OBVIOUS
  <2>3. rt.at = "lookup"
    BY <1>1, <2>1 DEF RouteInvariant, TableKept, Requested
  <2>4. rib' = rib /\ r \in rib /\ Answers(r, req)
    BY <1>1, <2>1, <2>2, <2>3
  <2>5. Answers(r, req)'
    BY <2>4, AnswersSame
  <2>6. rt'.route = r /\ rt'.req = req
    BY <1>1, <2>2
  <2>7. QED
    BY <2>4, <2>5, <2>6
<1>5. LengthsFit'
  BY <1>1, <1>2 DEF AnswerInvariant, LengthsFit, Undone, Requested
<1>6. QED
  BY <1>3, <1>4, <1>5 DEF AnswerInvariant

(* A call that builds its answer. *)
LEMMA AnswerBuilt ==
    ASSUME RouteInvariant, AnswerInvariant, update_rtm_from_rc, ~ senderr("ENOBUFS")
    PROVE  AnswerInvariant'
<1>1. rt.at = "report" /\ UNCHANGED <<rib, bufs, readers, data>>
  BY DEF update_rtm_from_rc
<1>2. PICK r \in Routes, info \in {ReportInfo(rt.x.info, rt.route, rt.req.addrs)} :
         r = rt.route /\ info = ReportInfo(rt.x.info, r, rt.req.addrs)
  BY <1>1 DEF AnswerInvariant, Addresses
<1>3. /\ info \in [SlotSet -> Sockaddrs \cup {NoSa}]
      /\ info["DST"] = Sa(r.fam, r.dst) /\ MaskOf(info) = r.mask
  <2>1. rt.x.info \in [SlotSet -> Sockaddrs \cup {NoSa}]
    BY DEF AnswerInvariant, Addresses, IsInfo
  <2>2. QED
    BY <1>2, <2>1, RouteReported
<1>4. PICK len \in Nat : len = rtsock_msg_buffer(info)
  BY <1>3, AnswerUnitsNat
<1>5. rt.maxlen \in Nat /\ rt.alloc_len \in Nat /\ rt.req.msglen = MessageUnits(rt.req)
  BY <1>1 DEF AnswerInvariant, LengthsFit
<1>6. PICK a \in Nat : len <= rt.maxlen /\ len <= a /\ rt' = Written(info, a)
  <2>1. CASE len > rt.alloc_len
    BY <1>2, <1>4, <1>5, <2>1 DEF update_rtm_from_rc
  <2>2. CASE ~ (len > rt.alloc_len)
    BY <1>2, <1>4, <1>5, <2>2 DEF update_rtm_from_rc
  <2>3. QED
    BY <2>1, <2>2
<1>7. PICK y, f : y = [rt.x EXCEPT !.info = info] /\ f = ReportFlags(rt.route)
  OBVIOUS
<1>8. rt' = [rt EXCEPT !.at = "flush", !.x = y, !.flags = f, !.alloc_len = a, !.msglen = len]
  BY <1>4, <1>6, <1>7 DEF Written
<1>9. /\ rt'.at = "flush" /\ rt'.req = rt.req /\ rt'.x = y /\ rt'.route = r /\ rt'.error = rt.error
      /\ rt'.maxlen = rt.maxlen /\ rt'.alloc_len = a /\ rt'.msglen = len
  BY <1>2, <1>8 DEF RouteInvariant, IsCall, IsRecord
<1>10. IsInfo(y) /\ y.info = info
  BY <1>3, <1>7 DEF AnswerInvariant, Addresses, IsInfo
<1>11. Addresses' /\ Cleansed' /\ DataReturned'
  BY <1>1, <1>9, <1>10 DEF AnswerInvariant, Addresses, Cleansed, DataReturned, Undone, Requested
<1>12. AnswerWritten'
  BY <1>3, <1>4, <1>9, <1>10 DEF AnswerWritten
<1>13. AnswerFound'
  <2>1. SUFFICES ASSUME rt'.req.type = "GET", "LLDATA" \notin rt'.req.flags, "ANNOUNCE" \notin rt'.req.flags
                 PROVE  rt'.route \in rib' /\ Answers(rt.route, rt.req)'
    BY DEF AnswerFound
  <2>2. PICK req : req = rt.req
    OBVIOUS
  <2>3. r \in rib /\ Answers(r, req) /\ rib' = rib
    BY <1>1, <1>2, <1>9, <2>1, <2>2 DEF AnswerInvariant, AnswerFound, Succeeds
  <2>4. Answers(r, req)'
    BY <2>3, AnswersSame
  <2>5. rt'.route = r /\ rt'.req = req
    BY <1>9, <2>2
  <2>6. QED
    BY <2>3, <2>4, <2>5
<1>14. LengthsFit'
  BY <1>4, <1>5, <1>6, <1>9 DEF LengthsFit, Undone, Requested
<1>15. QED
  BY <1>11, <1>12, <1>13, <1>14 DEF AnswerInvariant

(* Every step of a call keeps the table canonical and the answer one. *)
LEMMA AnswerStep ==
    ASSUME RouteInvariant, AnswerInvariant, RouteNext
    PROVE  AnswerInvariant'
<1>1. /\ IsRecord(rt) /\ IsInfo(rt.x)
      /\ rib \subseteq Routes /\ Canonical(rib)
      /\ rt.at # "idle" => rt.req \in Requests /\ rt.req.type \in Requested
      /\ rt.at \in Undone => rt.error = "none" /\ rt.route = NoSa
      /\ rt.at \in Requested => rt.req.type = rt.at
      /\ rt.at \in Requested \cup {"lookup"} => "LLDATA" \notin rt.req.flags /\ Cleaned(rt.x.info, rt.req)
  BY RouteAssumption
     DEF RouteInvariant, IsCall, TableKept, AnswerInvariant, Addresses, Cleansed, Requested
<1>2. ASSUME NEW e, e # "none", senderr(e), rt.at \in Undone \cup {"report"}, rib' = rib, data' = data
      PROVE  AnswerInvariant'
  <2>1. rt' = [rt EXCEPT !.at = "flush", !.error = e, !.flags = rt.flags, !.x = rt.x]
    BY <1>1, <1>2 DEF senderr, IsRecord
  <2>2. PICK f, x : f = rt.flags /\ x = rt.x
    OBVIOUS
  <2>3. IsInfo(x) /\ rt' = [rt EXCEPT !.at = "flush", !.error = e, !.flags = f, !.x = x]
    BY <1>1, <2>1, <2>2
  <2>4. rib' \subseteq Routes /\ Canonical(rib')
    BY <1>1, <1>2
  <2>5. QED
    BY <1>2, <2>3, <2>4, AnswerEnds
<1>3. CASE rtm_fill
  <2>1. PICK y : /\ y = fill_addrinfo(rt.req) /\ rt.at = "fill"
                 /\ rt' = [rt EXCEPT !.x = y, !.error = y.error,
                                     !.at = IF y.error = "none" THEN "start" ELSE "flush"]
                 /\ UNCHANGED <<rib, bufs, readers, data>>
    BY <1>3 DEF rtm_fill
  <2>2. rt.at \in Undone /\ rt.error = "none" /\ rt.req \in Requests
    BY <1>1, <2>1 DEF Undone
  <2>3. IsInfo(y) /\ (y.error = "none" /\ "LLDATA" \notin rt.req.flags => Cleaned(y.info, rt.req))
    <3>1. PICK req \in Requests : req = rt.req
      BY <2>2
    <3>2. IsInfo(y) /\ (y.error = "none" /\ "LLDATA" \notin req.flags => Cleaned(y.info, req))
      BY <1>1, <2>1, <3>1, AddrinfoFilled
    <3>3. QED
      BY <3>1, <3>2
  <2>4. CASE y.error = "none"
    <3>1. PICK to \in {"start", "lookup"} \cup Requested : to = "start"
      OBVIOUS
    <3>2. rt' = [rt EXCEPT !.at = to, !.x = y]
      BY <1>1, <2>1, <2>2, <2>4, <3>1 DEF IsRecord
    <3>3. QED
      BY <2>1, <2>2, <2>3, <2>4, <3>1, <3>2, AnswerGoesOn
  <2>5. CASE y.error # "none"
    <3>1. PICK f, e : f = rt.flags /\ e = y.error /\ e # "none"
      BY <2>5
    <3>2. rt' = [rt EXCEPT !.at = "flush", !.error = e, !.flags = f, !.x = y]
      BY <1>1, <2>1, <2>5, <3>1 DEF IsRecord
    <3>3. rib' \subseteq Routes /\ Canonical(rib')
      BY <1>1, <2>1
    <3>4. IsInfo(y) /\ data' = data /\ rt.at \in Undone
      BY <2>1, <2>2, <2>3
    <3>5. QED
      BY <3>1, <3>2, <3>3, <3>4, AnswerEnds
  <2>6. QED
    BY <2>4, <2>5
<1>4. CASE rtm_lldata
  <2>1. PICK e : rt.at = "start" /\ "LLDATA" \in rt.req.flags /\ senderr(e) /\ UNCHANGED <<rib, bufs, readers, data>>
    BY <1>4 DEF rtm_lldata
  <2>2. rt' = [rt EXCEPT !.at = "flush", !.error = e, !.flags = rt.flags, !.x = rt.x]
    BY <1>1, <2>1 DEF senderr, IsRecord
  <2>3. PICK f, x : f = rt.flags /\ x = rt.x
    OBVIOUS
  <2>4. IsInfo(x) /\ rt' = [rt EXCEPT !.at = "flush", !.error = e, !.flags = f, !.x = x] /\ rt.at \in Undone
    BY <1>1, <2>1, <2>2, <2>3 DEF Undone
  <2>5. rib' \subseteq Routes /\ Canonical(rib')
    BY <1>1, <2>1
  <2>6. QED
    BY <2>1, <2>4, <2>5, AnswerEnds
<1>5. CASE rtm_blackhole
  <2>1. PICK y : /\ y = fill_blackholeinfo(rt.x) /\ rt.at = "start" /\ "LLDATA" \notin rt.req.flags
                 /\ UNCHANGED <<rib, bufs, readers, data>>
                 /\ \/ rt' = [rt EXCEPT !.at = rt.req.type]
                    \/ senderr("EINVAL")
                    \/ y.error # "none" /\ senderr(y.error)
                    \/ rt' = [rt EXCEPT !.x = y, !.at = rt.req.type]
    BY <1>5 DEF rtm_blackhole
  <2>2. rt.at \in Undone /\ rt.req.type \in Requested /\ rt.req \in Requests /\ Cleaned(rt.x.info, rt.req)
    BY <1>1, <2>1 DEF Undone, AnswerInvariant, Cleansed
  <2>3. ASSUME NEW x, IsInfo(x), x.info["DST"] = rt.x.info["DST"], x.info["NETMASK"] = rt.x.info["NETMASK"],
               rt' = [rt EXCEPT !.at = rt.req.type, !.x = x]
        PROVE  AnswerInvariant'
    <3>1. Cleaned(x.info, rt.req)
      BY <2>2, <2>3 DEF Cleaned
    <3>2. PICK to \in {"start", "lookup"} \cup Requested : to = rt.req.type
      BY <2>2
    <3>3. rt' = [rt EXCEPT !.at = to, !.x = x]
      BY <2>3, <3>2
    <3>4. QED
      BY <2>1, <2>2, <2>3, <3>1, <3>3, AnswerGoesOn
  <2>4. IsInfo(y) /\ y.info["DST"] = rt.x.info["DST"] /\ y.info["NETMASK"] = rt.x.info["NETMASK"]
    <3>1. rt.x.info["DST"] # NoSa
      <4>1. PICK req \in Requests, info \in {rt.x.info} : req = rt.req /\ info = rt.x.info
        BY <2>2
      <4>2. /\ Cleaned(info, req) /\ rt_xaddrs(req)["DST"] \in Sockaddrs
            /\ Masked(rt_xaddrs(req)["DST"].val, AskedBits(req)) \subseteq AllBits
        BY <2>2, <4>1, CleanedMask DEF Masked
      <4>3. info["DST"] \in Sockaddrs
        BY <4>2, SaMade DEF Cleaned, Sockaddrs
      <4>4. QED
        BY <4>1, <4>3, RouteAssumption
    <3>2. PICK x : x = rt.x
      OBVIOUS
    <3>3. QED
      BY <1>1, <2>1, <3>1, <3>2, BlackholeFilled
  <2>5. CASE rt' = [rt EXCEPT !.at = rt.req.type]
    <3>1. PICK x : x = rt.x
      OBVIOUS
    <3>2. rt' = [rt EXCEPT !.at = rt.req.type, !.x = x]
      BY <1>1, <2>5, <3>1 DEF IsRecord
    <3>3. QED
      BY <1>1, <2>3, <3>1, <3>2
  <2>6. CASE rt' = [rt EXCEPT !.x = y, !.at = rt.req.type]
    <3>1. rt' = [rt EXCEPT !.at = rt.req.type, !.x = y]
      BY <1>1, <2>6 DEF IsRecord
    <3>2. QED
      BY <2>3, <2>4, <3>1
  <2>7. CASE senderr("EINVAL") \/ (y.error # "none" /\ senderr(y.error))
    BY <1>2, <2>1, <2>2, <2>7
  <2>8. QED
    BY <2>1, <2>5, <2>6, <2>7
<1>6. ASSUME rt.at \in {"ADD", "CHANGE"}, rib' \subseteq Routes, Canonical(rib'), data' = data,
             NEW f, rt' = [rt EXCEPT !.at = "flush", !.flags = f]
      PROVE  AnswerInvariant'
  <2>1. rt.at \in Undone /\ rt.req.type # "GET" /\ rt.error = "none"
    BY <1>1, <1>6 DEF Undone, Requested
  <2>2. PICK x, e : x = rt.x /\ e = "none"
    OBVIOUS
  <2>3. IsInfo(x) /\ rt' = [rt EXCEPT !.at = "flush", !.error = e, !.flags = f, !.x = x]
    BY <1>1, <1>6, <2>1, <2>2 DEF IsRecord
  <2>4. rib' \subseteq Routes /\ Canonical(rib') /\ data' = data
    BY <1>6
  <2>5. QED
    BY <2>1, <2>3, <2>4, AnswerEnds
<1>7. CASE rtm_add
  <2>1. /\ rt.at = "ADD" /\ UNCHANGED <<bufs, readers, data>>
        /\ \/ rib' = rib /\ \E e \in {"EINVAL", "EEXIST", "ENETUNREACH"} : senderr(e)
           \/ /\ rt.x.info["GATEWAY"] # NoSa /\ Exactly(rt.x.info) = {}
              /\ rib' = rib \cup {NewRoute(rt.x)}
              /\ \E f : rt' = [rt EXCEPT !.at = "flush", !.flags = f]
    BY <1>7 DEF rtm_add
  <2>2. rt.at \in Undone
    BY <2>1 DEF Undone, Requested
  <2>3. ASSUME NEW e \in {"EINVAL", "EEXIST", "ENETUNREACH"}, senderr(e), rib' = rib PROVE AnswerInvariant'
    BY <1>2, <2>1, <2>2, <2>3
  <2>4. ASSUME rt.x.info["GATEWAY"] # NoSa, Exactly(rt.x.info) = {}, rib' = rib \cup {NewRoute(rt.x)},
               NEW f, rt' = [rt EXCEPT !.at = "flush", !.flags = f]
        PROVE  AnswerInvariant'
    <3>1. PICK req \in Requests, x \in {rt.x} : req = rt.req /\ x = rt.x
      BY <1>1, <2>1
    <3>2. Cleaned(x.info, req) /\ Exactly(x.info) = {} /\ x.info["GATEWAY"] # NoSa /\ IsInfo(x)
      BY <1>1, <2>1, <2>4, <3>1 DEF Requested
    <3>3. rib \cup {NewRoute(x)} \subseteq Routes /\ Canonical(rib \cup {NewRoute(x)})
      BY <1>1, <3>2, CanonicalAdded
    <3>4. rib' \subseteq Routes /\ Canonical(rib')
      BY <2>4, <3>1, <3>3
    <3>5. QED
      BY <1>6, <2>1, <2>4, <3>4
  <2>5. QED
    BY <2>1, <2>3, <2>4
<1>8. CASE rtm_change
  <2>1. /\ rt.at = "CHANGE" /\ UNCHANGED <<bufs, readers, data>>
        /\ \/ rib' = rib /\ \E e \in {"ESRCH", "ENETUNREACH"} : senderr(e)
           \/ \E r \in Exactly(rt.x.info) : \E f, new :
                /\ new = IF rt.x.info["GATEWAY"] = NoSa THEN r ELSE [r EXCEPT !.nh = Nhop(rt.x)]
                /\ rib' = (rib \ {r}) \cup {new}
                /\ rt' = [rt EXCEPT !.at = "flush", !.flags = f]
    BY <1>8 DEF rtm_change
  <2>2. rt.at \in Undone
    BY <2>1 DEF Undone, Requested
  <2>3. ASSUME NEW e \in {"ESRCH", "ENETUNREACH"}, senderr(e), rib' = rib PROVE AnswerInvariant'
    BY <1>2, <2>1, <2>2, <2>3
  <2>4. ASSUME NEW r \in Exactly(rt.x.info), NEW f, NEW new,
               new = IF rt.x.info["GATEWAY"] = NoSa THEN r ELSE [r EXCEPT !.nh = Nhop(rt.x)],
               rib' = (rib \ {r}) \cup {new}, rt' = [rt EXCEPT !.at = "flush", !.flags = f]
        PROVE  AnswerInvariant'
    <3>1. r \in rib /\ r \in Routes
      BY <1>1 DEF Exactly
    <3>2. new \in Routes /\ new.fam = r.fam /\ new.dst = r.dst /\ new.mask = r.mask
      <4>1. CASE rt.x.info["GATEWAY"] = NoSa
        BY <2>4, <3>1, <4>1
      <4>2. CASE rt.x.info["GATEWAY"] # NoSa
        <5>1. "GATEWAY" \in SlotSet
          BY SlotsAre
        <5>2. rt.x.info["GATEWAY"] \in Sockaddrs /\ rt.x.lo \in BOOLEAN
          BY <1>1, <4>2, <5>1 DEF IsInfo
        <5>3. PICK nh \in [gw : Sockaddrs, flags : SUBSET NhopFlags, lo : BOOLEAN] : nh = Nhop(rt.x)
          BY <5>2 DEF Nhop
        <5>4. new = [r EXCEPT !.nh = nh]
          BY <2>4, <4>2, <5>3
        <5>5. QED
          BY <3>1, <5>4 DEF Routes
      <4>3. QED
        BY <4>1, <4>2
    <3>3. rib' \subseteq Routes /\ Canonical(rib')
      <4>1. Canonical((rib \ {r}) \cup {new})
        BY <1>1, <3>1, <3>2, CanonicalChanged
      <4>2. QED
        BY <1>1, <2>4, <3>2, <4>1
    <3>4. QED
      BY <1>6, <2>1, <2>4, <3>3
  <2>5. QED
    BY <2>1, <2>3, <2>4
<1>9. CASE rtm_delete
  <2>1. /\ rt.at = "DELETE" /\ UNCHANGED <<bufs, readers, data>>
        /\ \/ rib' = rib /\ senderr("ESRCH")
           \/ \E r \in Exactly(rt.x.info) : rib' = rib \ {r} /\ rt' = [rt EXCEPT !.at = "report", !.route = r]
    BY <1>9 DEF rtm_delete
  <2>2. rt.at \in Undone
    BY <2>1 DEF Undone, Requested
  <2>3. CASE rib' = rib /\ senderr("ESRCH")
    BY <1>2, <2>1, <2>2, <2>3
  <2>4. ASSUME NEW r \in Exactly(rt.x.info), rib' = rib \ {r}, rt' = [rt EXCEPT !.at = "report", !.route = r]
        PROVE  AnswerInvariant'
    <3>1. r \in rib /\ r \in Routes
      BY <1>1 DEF Exactly
    <3>2. rib' \subseteq Routes /\ Canonical(rib')
      <4>1. Canonical(rib \ {r})
        BY <1>1, <3>1, CanonicalChanged
      <4>2. QED
        BY <1>1, <2>4, <4>1
    <3>3. QED
      BY <2>1, <2>4, <3>1, <3>2, AnswerReports
  <2>5. QED
    BY <2>1, <2>3, <2>4
<1>10. CASE rtm_other
  <2>1. rt.at = "OTHER" /\ senderr("EOPNOTSUPP") /\ UNCHANGED <<rib, bufs, readers, data>>
    BY <1>10 DEF rtm_other
  <2>2. QED
    BY <1>2, <2>1 DEF Undone, Requested
<1>11. CASE rtm_get
  <2>1. rt.at = "GET" /\ rt' = [rt EXCEPT !.at = "lookup"] /\ UNCHANGED <<rib, bufs, data>>
    BY <1>11 DEF rtm_get
  <2>2. PICK to \in {"start", "lookup"} \cup Requested, x \in {rt.x} : to = "lookup"
    OBVIOUS
  <2>3. rt' = [rt EXCEPT !.at = to, !.x = x]
    BY <1>1, <2>1, <2>2 DEF IsRecord
  <2>4. rt.at \in Undone /\ "LLDATA" \notin rt.req.flags /\ Cleaned(x.info, rt.req) /\ IsInfo(x)
    BY <1>1, <2>1, <2>2 DEF Undone, Requested
  <2>5. QED
    BY <2>1, <2>3, <2>4, AnswerGoesOn
<1>12. CASE handle_rtm_get
  <2>1. /\ rt.at = "lookup" /\ UNCHANGED <<rib, bufs, data>>
        /\ \/ senderr("ESRCH")
           \/ \E r \in UNION {Announcing(q) : q \in Found} : rt' = [rt EXCEPT !.at = "report", !.route = r]
    BY <1>12 DEF handle_rtm_get
  <2>2. rt.at \in Undone /\ rt.req \in Requests /\ Cleaned(rt.x.info, rt.req)
    BY <1>1, <2>1 DEF Undone
  <2>3. CASE senderr("ESRCH")
    BY <1>2, <2>1, <2>2, <2>3
  <2>4. ASSUME NEW q \in Found, NEW r \in Announcing(q), rt' = [rt EXCEPT !.at = "report", !.route = r]
        PROVE  AnswerInvariant'
    <3>1. q \in rib /\ Answers(q, rt.req)
      BY <2>2, SearchAnswers
    <3>2. r \in rib /\ ("ANNOUNCE" \notin rt.req.flags => r = q)
      BY <3>1 DEF Announcing, Matching
    <3>3. r \in Routes /\ rib' \subseteq Routes /\ Canonical(rib')
      BY <1>1, <2>1, <3>2
    <3>4. QED
      BY <2>1, <2>4, <3>1, <3>2, <3>3, AnswerReports
  <2>5. QED
    BY <2>1, <2>3, <2>4, ZenonT(60)
<1>13. CASE update_rtm_from_rc
  <2>1. CASE senderr("ENOBUFS")
    <3>1. rt.at = "report" /\ UNCHANGED <<rib, bufs, readers, data>>
      BY <1>13 DEF update_rtm_from_rc
    <3>2. QED
      BY <1>2, <2>1, <3>1
  <2>2. CASE ~ senderr("ENOBUFS")
    BY <1>13, <2>2, AnswerBuilt
  <2>3. QED
    BY <2>1, <2>2
<1>14. CASE flush
  <2>1. /\ rt.at = "flush" /\ rt' = [rt EXCEPT !.at = "returned"] /\ rib' = rib
        /\ data' = IF rt.rtm THEN [msglen |-> rt.msglen, done |-> rt.error = "none",
                                   errno |-> rt.error, info |-> rt.x.info]
                   ELSE data
    BY <1>14 DEF flush
  <2>2. /\ rt'.at = "returned" /\ rt'.error = rt.error /\ rt'.rtm = rt.rtm /\ rt'.req = rt.req
        /\ rt'.x = rt.x /\ rt'.route = rt.route /\ rt'.msglen = rt.msglen /\ rt'.maxlen = rt.maxlen
        /\ rt'.alloc_len = rt.alloc_len
    BY <1>1, <2>1 DEF IsRecord
  <2>3. DataReturned'
    BY <2>1, <2>2 DEF AnswerInvariant, DataReturned
  <2>4. Addresses' /\ Cleansed' /\ AnswerWritten'
    BY <2>1, <2>2 DEF AnswerInvariant, Addresses, Cleansed, AnswerWritten, Succeeds, Undone, Requested
  <2>5. AnswerFound'
    <3>1. SUFFICES ASSUME rt'.error = "none", rt'.req.type = "GET", "LLDATA" \notin rt'.req.flags,
                          "ANNOUNCE" \notin rt'.req.flags
                   PROVE  rt'.route \in rib' /\ Answers(rt.route, rt.req)'
      BY <2>2 DEF AnswerFound, Succeeds
    <3>2. PICK r, req : r = rt.route /\ req = rt.req
      OBVIOUS
    <3>3. r \in rib /\ Answers(r, req)
      BY <2>1, <2>2, <3>1, <3>2 DEF AnswerInvariant, AnswerFound, Succeeds
    <3>4. Answers(r, req)'
      BY <2>1, <3>3, AnswersSame
    <3>5. rt'.route = r /\ rt'.req = req
      BY <2>2, <3>2
    <3>6. QED
      BY <2>1, <3>3, <3>4, <3>5
  <2>6. LengthsFit'
    BY <2>1, <2>2 DEF AnswerInvariant, LengthsFit, Undone, Requested
  <2>7. QED
    BY <2>3, <2>4, <2>5, <2>6 DEF AnswerInvariant
<1>15. CASE handle_route_msg
  <2>1. rt' = NoCall /\ data' = Untouched /\ rib' = rib
    BY <1>15 DEF handle_route_msg
  <2>2. rt'.at = "idle" /\ IsInfo(rt'.x) /\ rt'.route = NoSa
    BY <2>1, IdleAnswer
  <2>3. QED
    BY <1>1, <2>1, <2>2 DEF AnswerInvariant, Addresses, Cleansed, AnswerFound, AnswerWritten,
                            LengthsFit, DataReturned, Succeeds, Undone, Requested
<1>16. QED
  BY <1>3, <1>4, <1>5, <1>7, <1>8, <1>9, <1>10, <1>11, <1>12, <1>13, <1>14, <1>15, AnswerStarts DEF RouteNext

(* The invariant of the answers. *)
LEMMA AnswerInvariantHolds ==
    RouteSpec => []AnswerInvariant
<1>1. RouteInit => AnswerInvariant
  <2>1. SUFFICES ASSUME RouteInit PROVE AnswerInvariant
    OBVIOUS
  <2>2. rt = NoCall /\ data = Untouched /\ rib = InitRib
    BY <2>1 DEF RouteInit
  <2>3. rt.at = "idle" /\ IsInfo(rt.x) /\ rt.route = NoSa
    BY <2>2, IdleAnswer
  <2>4. InitRib \subseteq Routes /\ Canonical(InitRib)
    BY RouteAssumption
  <2>5. QED
    BY <2>2, <2>3, <2>4 DEF AnswerInvariant, Addresses, Cleansed, AnswerFound, AnswerWritten,
                            LengthsFit, DataReturned, Succeeds, Undone, Requested
<1>2. RouteInvariant /\ AnswerInvariant /\ [RouteNext]_routeVars => AnswerInvariant'
  <2>1. SUFFICES ASSUME RouteInvariant, AnswerInvariant, [RouteNext]_routeVars PROVE AnswerInvariant'
    OBVIOUS
  <2>2. CASE UNCHANGED routeVars
    <3>1. rib' = rib /\ rt' = rt /\ data' = data
      BY <2>2 DEF routeVars
    <3>2. Addresses' /\ Cleansed' /\ AnswerWritten' /\ LengthsFit' /\ DataReturned'
      BY <2>1, <3>1 DEF AnswerInvariant, Addresses, Cleansed, AnswerWritten, LengthsFit, DataReturned, Succeeds
    <3>3. AnswerFound'
      <4>1. PICK r, req : r = rt.route /\ req = rt.req
        OBVIOUS
      <4>2. Answers(r, req) => Answers(r, req)'
        BY <3>1, AnswersSame
      <4>3. rt'.route = r /\ rt'.req = req
        BY <3>1, <4>1
      <4>4. AnswerFound
        BY <2>1 DEF AnswerInvariant
      <4>5. QED
        BY <3>1, <4>1, <4>2, <4>3, <4>4 DEF AnswerFound, Succeeds
    <3>4. QED
      BY <3>2, <3>3 DEF AnswerInvariant
  <2>3. QED
    BY <2>1, <2>2, AnswerStep
<1>3. QED
  BY <1>1, <1>2, RouteInvariantHolds, PTL DEF RouteSpec

(* The routing table stays canonical: whatever requests are made, in       *)
(* whatever order, every route in it has no bits outside its mask, and a   *)
(* prefix is there at most once.                                           *)
THEOREM TableStaysCanonical ==
    RouteSpec => []RibCanonical
<1>1. AnswerInvariant => RibCanonical
  BY DEF AnswerInvariant, Addresses, RibCanonical
<1>2. QED
  BY <1>1, AnswerInvariantHolds, PTL

(* RTM_GET answers with the longest prefix of an address and with the very *)
(* prefix it was asked for.                                                *)
THEOREM GetAnswersRight ==
    RouteSpec => []GetAnswer
<1>1. AnswerInvariant => GetAnswer
  <2>1. SUFFICES ASSUME AnswerInvariant, Returned, rt.req.type = "GET", data.done,
                        "LLDATA" \notin rt.req.flags, "ANNOUNCE" \notin rt.req.flags
                 PROVE  \E r \in rib : /\ Answers(r, rt.req)
                                       /\ data.info["DST"] = Sa(r.fam, r.dst)
                                       /\ MaskOf(data.info) = r.mask
    BY DEF GetAnswer
  <2>2. rt.rtm /\ rt.error = "none" /\ data.info = rt.x.info
    <3>1. data = IF rt.rtm THEN [msglen |-> rt.msglen, done |-> rt.error = "none",
                                 errno |-> rt.error, info |-> rt.x.info]
                 ELSE Untouched
      BY <2>1 DEF AnswerInvariant, DataReturned, Returned
    <3>2. Untouched.done = FALSE
      BY DEF Untouched
    <3>3. QED
      BY <2>1, <3>1, <3>2
  <2>3. Succeeds /\ rt.at # "report"
    BY <2>1, <2>2 DEF Succeeds, Returned
  <2>4. rt.route \in rib /\ Answers(rt.route, rt.req) /\ rt.route # NoSa
    BY <2>1, <2>3, RouteAssumption DEF AnswerInvariant, AnswerFound, Addresses
  <2>5. rt.x.info["DST"] = Sa(rt.route.fam, rt.route.dst) /\ MaskOf(rt.x.info) = rt.route.mask
    BY <2>1, <2>3, <2>4 DEF AnswerInvariant, AnswerWritten
  <2>6. QED
    BY <2>2, <2>4, <2>5
<1>2. QED
  BY <1>1, AnswerInvariantHolds, PTL

(* The message that goes back fits into both buffers, and an answer is     *)
(* written whole.                                                          *)
THEOREM RepliesAreWhole ==
    RouteSpec => []ReplyWhole
<1>1. AnswerInvariant => ReplyWhole
  <2>1. SUFFICES ASSUME AnswerInvariant, Returned, rt.rtm, rt.req.msglen = MessageUnits(rt.req)
                 PROVE  /\ data.msglen <= rt.maxlen /\ data.msglen <= rt.alloc_len
                        /\ rt.route # NoSa /\ data.done => data.msglen = rtsock_msg_buffer(data.info)
    BY DEF ReplyWhole
  <2>2. data = [msglen |-> rt.msglen, done |-> rt.error = "none", errno |-> rt.error, info |-> rt.x.info]
    BY <2>1 DEF AnswerInvariant, DataReturned, Returned
  <2>3. data.msglen = rt.msglen /\ data.done = (rt.error = "none") /\ data.info = rt.x.info
    BY <2>2
  <2>4. rt.at = "returned" /\ rt.msglen <= rt.maxlen /\ rt.msglen <= rt.alloc_len
    BY <2>1 DEF AnswerInvariant, LengthsFit, Returned
  <2>5. rt.route # NoSa /\ rt.error = "none" => rt.msglen = rtsock_msg_buffer(rt.x.info)
    BY <2>1, <2>4 DEF AnswerInvariant, AnswerWritten, Succeeds
  <2>6. QED
    BY <2>3, <2>4, <2>5
<1>2. QED
  BY <1>1, AnswerInvariantHolds, PTL

-----------------------------------------------------------------------------
(* Descriptors and files.                                                  *)

(* A table in which every file has as many references as descriptors. *)
FileTable(t) ==
    /\ t \in [fd : [Fds -> Files \cup {NoFile}], f_count : [Files -> Nat]]
    /\ \A f \in Files : t.f_count[f] = Cardinality({d \in Fds : t.fd[d] = f})

(* FileRefs with the table a table. *)
FileInvariant == FileTable(table) /\ opened = OpenFds

(* There is a lowest free descriptor when there is a free one. *)
LEMMA LowestIsFree ==
    ASSUME NEW S \in SUBSET Fds, S # {}
    PROVE  Min(S) \in S
<1>1. S \subseteq Nat
  BY SockAssumption
<1>2. PICK x \in S : \A y \in S : ~ (<< y, x >> \in OpToRel(<, Nat))
  BY <1>1, WFMin, NatLessThanWellFounded
<1>3. \A y \in S : x <= y
  <2>1. ASSUME NEW y \in S PROVE x <= y
    <3>1. x \in Nat /\ y \in Nat /\ << y, x >> \in Nat \X Nat
      BY <1>1
    <3>2. ~ (y < x)
      BY <1>2, <3>1 DEF OpToRel
    <3>3. QED
      BY <3>1, <3>2
  <2>2. QED
    BY <2>1
<1>4. QED
  BY <1>3 DEF Min

(* The tables there are. *)
Tables == [fd : [Fds -> Files \cup {NoFile}], f_count : [Files -> Nat]]

(* The descriptors of a file are finitely many. *)
LEMMA FinitelyMany ==
    ASSUME NEW S \in SUBSET Fds
    PROVE  IsFiniteSet(S) /\ Cardinality(S) \in Nat
BY SockAssumption, FS_Subset, FS_CardinalityType

(* A descriptor more for a file. *)
LEMMA OneMore ==
    ASSUME NEW t \in Tables, \A f \in Files : t.f_count[f] = Cardinality({d \in Fds : t.fd[d] = f}),
           NEW u \in Tables, NEW d \in Fds, t.fd[d] = NoFile, NEW f \in Files,
           u.fd = [t.fd EXCEPT ![d] = f], u.f_count = [t.f_count EXCEPT ![f] = t.f_count[f] + 1]
    PROVE  FileTable(u)
<1>1. ASSUME NEW g \in Files
      PROVE  u.f_count[g] = Cardinality({e \in Fds : u.fd[e] = g})
  <2>1. PICK S \in SUBSET Fds : S = {e \in Fds : t.fd[e] = g}
    OBVIOUS
  <2>2. t.f_count[g] = Cardinality(S)
    BY <2>1
  <2>3. CASE g = f
    <3>1. {e \in Fds : u.fd[e] = g} = S \cup {d} /\ d \notin S
      BY <2>1, <2>3, SockAssumption DEF Tables
    <3>2. Cardinality(S \cup {d}) = Cardinality(S) + 1
      BY <3>1, FinitelyMany, FS_AddElement
    <3>3. u.f_count[g] = t.f_count[g] + 1
      BY <2>3 DEF Tables
    <3>4. QED
      BY <2>2, <3>1, <3>2, <3>3
  <2>4. CASE g # f
    <3>1. {e \in Fds : u.fd[e] = g} = S
      BY <2>1, <2>4, SockAssumption DEF Tables
    <3>2. u.f_count[g] = t.f_count[g]
      BY <2>4 DEF Tables
    <3>3. QED
      BY <2>2, <3>1, <3>2
  <2>5. QED
    BY <2>3, <2>4
<1>2. QED
  BY <1>1 DEF FileTable, Tables

(* A descriptor less. *)
LEMMA OneLess ==
    ASSUME NEW t \in Tables, \A f \in Files : t.f_count[f] = Cardinality({d \in Fds : t.fd[d] = f}),
           NEW u \in Tables, NEW d \in Fds, NEW f \in Files, t.fd[d] = f,
           u.fd = [t.fd EXCEPT ![d] = NoFile], u.f_count = [t.f_count EXCEPT ![f] = t.f_count[f] - 1]
    PROVE  FileTable(u)
<1>1. ASSUME NEW g \in Files
      PROVE  u.f_count[g] = Cardinality({e \in Fds : u.fd[e] = g})
  <2>1. PICK S \in SUBSET Fds : S = {e \in Fds : t.fd[e] = g}
    OBVIOUS
  <2>2. t.f_count[g] = Cardinality(S)
    BY <2>1
  <2>3. CASE g = f
    <3>1. {e \in Fds : u.fd[e] = g} = S \ {d} /\ d \in S
      BY <2>1, <2>3, SockAssumption DEF Tables
    <3>2. Cardinality(S \ {d}) = Cardinality(S) - 1
      BY <3>1, FinitelyMany, FS_RemoveElement
    <3>3. u.f_count[g] = t.f_count[g] - 1
      BY <2>3 DEF Tables
    <3>4. QED
      BY <2>2, <3>1, <3>2, <3>3
  <2>4. CASE g # f
    <3>1. {e \in Fds : u.fd[e] = g} = S
      BY <2>1, <2>4, SockAssumption DEF Tables
    <3>2. u.f_count[g] = t.f_count[g]
      BY <2>4 DEF Tables
    <3>3. QED
      BY <2>2, <3>1, <3>2
  <2>5. QED
    BY <2>3, <2>4
<1>2. QED
  BY <1>1 DEF FileTable, Tables

(* A file that has a descriptor has a reference. *)
LEMMA Referenced ==
    ASSUME NEW t, FileTable(t), NEW d \in Fds, NEW f \in Files, t.fd[d] = f
    PROVE  t.f_count[f] > 0
<1>1. PICK S \in SUBSET Fds : S = {e \in Fds : t.fd[e] = f}
  OBVIOUS
<1>2. t.f_count[f] = Cardinality(S) /\ d \in S
  BY <1>1 DEF FileTable
<1>3. Cardinality(S) \in Nat /\ IsFiniteSet(S) /\ Cardinality(S) # 0
  BY <1>2, FinitelyMany, FS_EmptySet
<1>4. QED
  BY <1>2, <1>3

(* A descriptor for a file, with a reference. *)
LEMMA InstallCounts ==
    ASSUME NEW t, FileTable(t), NEW d \in Fds, t.fd[d] = NoFile, NEW f \in Files
    PROVE  FileTable(Install(t, d, f)) /\ Install(t, d, f).fd = [t.fd EXCEPT ![d] = f]
<1>1. t \in Tables /\ \A g \in Files : t.f_count[g] = Cardinality({e \in Fds : t.fd[e] = g})
  BY DEF FileTable, Tables
<1>2. PICK u, v : u = Install(t, d, f) /\ v = [t EXCEPT !.fd[d] = f] /\ u = [v EXCEPT !.f_count[f] = @ + 1]
  BY ZenonT(60) DEF Install
<1>3. v \in Tables /\ v.fd = [t.fd EXCEPT ![d] = f] /\ v.f_count = t.f_count
  BY <1>1, <1>2 DEF Tables
<1>4. u \in Tables /\ u.fd = v.fd /\ u.f_count = [v.f_count EXCEPT ![f] = v.f_count[f] + 1]
  <2>1. v \in Tables /\ u = [v EXCEPT !.f_count[f] = @ + 1]
    BY <1>2, <1>3
  <2>2. u.fd = v.fd /\ u.f_count = [v.f_count EXCEPT ![f] = v.f_count[f] + 1]
    BY <2>1 DEF Tables
  <2>3. u \in Tables
    BY <2>1 DEF Tables
  <2>4. QED
    BY <2>2, <2>3
<1>5. FileTable(u)
  BY <1>1, <1>3, <1>4, OneMore
<1>6. QED
  BY <1>2, <1>3, <1>4, <1>5

(* A descriptor closed, and its reference given up. *)
LEMMA UninstallCounts ==
    ASSUME NEW t, FileTable(t), NEW d \in Fds, t.fd[d] # NoFile
    PROVE  FileTable(Uninstall(t, d)) /\ Uninstall(t, d).fd = [t.fd EXCEPT ![d] = NoFile]
<1>1. t \in Tables /\ \A g \in Files : t.f_count[g] = Cardinality({e \in Fds : t.fd[e] = g})
  BY DEF FileTable, Tables
<1>2. PICK f \in Files : f = t.fd[d]
  BY <1>1 DEF Tables
<1>3. t.f_count[f] > 0
  BY <1>2, Referenced
<1>4. PICK u, v : u = Uninstall(t, d) /\ v = [t EXCEPT !.fd[d] = NoFile] /\ u = [v EXCEPT !.f_count[f] = @ - 1]
  BY <1>2 DEF Uninstall, fdrop
<1>5. v \in Tables /\ v.fd = [t.fd EXCEPT ![d] = NoFile] /\ v.f_count = t.f_count
  BY <1>1, <1>4 DEF Tables
<1>6. u \in Tables /\ u.fd = v.fd /\ u.f_count = [v.f_count EXCEPT ![f] = v.f_count[f] - 1]
  <2>1. v \in Tables /\ u = [v EXCEPT !.f_count[f] = @ - 1] /\ v.f_count[f] > 0
    BY <1>3, <1>4, <1>5
  <2>2. u.fd = v.fd /\ u.f_count = [v.f_count EXCEPT ![f] = v.f_count[f] - 1]
    BY <2>1 DEF Tables
  <2>3. u \in Tables
    BY <2>1 DEF Tables
  <2>4. QED
    BY <2>2, <2>3
<1>7. FileTable(u)
  BY <1>1, <1>2, <1>5, <1>6, OneLess
<1>8. QED
  BY <1>4, <1>5, <1>6, <1>7

(* A reference taken and given up again changes nothing. *)
LEMMA GivenUp ==
    ASSUME NEW u \in Tables, NEW f \in Files
    PROVE  fdrop([u EXCEPT !.f_count[f] = @ + 1], f) = u
<1>1. PICK v, w : v = [u EXCEPT !.f_count[f] = @ + 1] /\ w = fdrop(v, f)
  OBVIOUS
<1>2. /\ v \in Tables /\ v.fd = u.fd /\ v.f_count = [u.f_count EXCEPT ![f] = u.f_count[f] + 1]
      /\ u.f_count[f] \in Nat
  BY <1>1 DEF Tables
<1>3. v.f_count[f] = u.f_count[f] + 1
  BY <1>2 DEF Tables
<1>4. w = [v EXCEPT !.f_count[f] = @ - 1]
  BY <1>1 DEF fdrop
<1>5. w \in Tables /\ w.fd = v.fd /\ w.f_count = [v.f_count EXCEPT ![f] = v.f_count[f] - 1]
  <2>1. v \in Tables /\ w = [v EXCEPT !.f_count[f] = @ - 1] /\ v.f_count[f] > 0
    BY <1>2, <1>3, <1>4
  <2>2. w.fd = v.fd /\ w.f_count = [v.f_count EXCEPT ![f] = v.f_count[f] - 1]
    BY <2>1 DEF Tables
  <2>3. w \in Tables
    BY <2>1 DEF Tables
  <2>4. QED
    BY <2>2, <2>3
<1>6. w.f_count = u.f_count
  <2>1. u.f_count \in [Files -> Nat] /\ w.f_count \in [Files -> Nat]
    BY <1>5 DEF Tables
  <2>2. \A g \in Files : w.f_count[g] = u.f_count[g]
    BY <1>2, <1>3, <1>5, <2>1
  <2>3. QED
    BY <2>1, <2>2
<1>7. w = u
  BY <1>2, <1>5, <1>6 DEF Tables
<1>8. QED
  BY <1>1, <1>7

(* A descriptor the application is given refers to a file. *)
LEMMA Opened ==
    ASSUME FileInvariant, NEW d \in Fds, NEW f \in Files, FileTable(table'),
           table'.fd = [table.fd EXCEPT ![d] = f], opened' = opened \cup {d}
    PROVE  FileInvariant'
<1>1. table.fd \in [Fds -> Files \cup {NoFile}] /\ opened = {e \in Fds : table.fd[e] # NoFile}
  BY DEF FileInvariant, FileTable, OpenFds, FreeFds
<1>2. {e \in Fds : table'.fd[e] # NoFile} = opened \cup {d}
  BY <1>1, SockAssumption
<1>3. OpenFds' = {e \in Fds : table'.fd[e] # NoFile}
  BY DEF OpenFds, FreeFds
<1>4. QED
  BY <1>2, <1>3 DEF FileInvariant, FileTable

(* A new descriptor for a file. *)
LEMMA Installs ==
    ASSUME FileInvariant, NEW d \in FreeFds, NEW f \in Files,
           table' = Install(table, d, f), opened' = opened \cup {d}
    PROVE  FileInvariant'
<1>1. FileTable(table) /\ d \in Fds /\ table.fd[d] = NoFile
  BY DEF FileInvariant, FreeFds
<1>2. FileTable(table') /\ table'.fd = [table.fd EXCEPT ![d] = f]
  BY <1>1, InstallCounts
<1>3. QED
  BY <1>1, <1>2, Opened

(* What the open descriptors are. *)
LEMMA OpenHasFile ==
    ASSUME FileInvariant, NEW d \in OpenFds
    PROVE  d \in Fds /\ table.fd[d] \in Files
BY DEF FileInvariant, FileTable, OpenFds, FreeFds

(* The calls that open descriptors. *)
LEMMA OpeningStep ==
    ASSUME FileInvariant, NEW fam, NEW d \in Fds,
           lazybsd_socket(fam) \/ lazybsd_accept(d) \/ lazybsd_dup(d)
    PROVE  FileInvariant'
<1>1. FreeFds # {} => Min(FreeFds) \in FreeFds
  BY LowestIsFree DEF FreeFds
<1>2. UNCHANGED <<table, opened>> => FileInvariant'
  BY DEF FileInvariant, FileTable, OpenFds, FreeFds
<1>3. CASE lazybsd_socket(fam)
  <2>1. \/ UNCHANGED <<table, opened>>
        \/ /\ FreeFds # {} /\ opened' = opened \cup {Min(FreeFds)}
           /\ \E f \in FreeFile : table' = Install(table, Min(FreeFds), f)
    BY <1>3 DEF lazybsd_socket
  <2>2. QED
    BY <1>1, <1>2, <2>1, Installs DEF FreeFile
<1>4. CASE lazybsd_accept(d)
  <2>1. \/ UNCHANGED <<table, opened>>
        \/ /\ FreeFds # {} /\ opened' = opened \cup {Min(FreeFds)}
           /\ \E f \in FreeFile :
                 table' = fdrop([Install(table, Min(FreeFds), f) EXCEPT !.f_count[f] = @ + 1], f)
    BY <1>4 DEF lazybsd_accept
  <2>2. ASSUME NEW f \in FreeFile, FreeFds # {}
        PROVE  fdrop([Install(table, Min(FreeFds), f) EXCEPT !.f_count[f] = @ + 1], f)
                   = Install(table, Min(FreeFds), f)
    <3>1. FileTable(table) /\ Min(FreeFds) \in Fds /\ table.fd[Min(FreeFds)] = NoFile /\ f \in Files
      BY <1>1, <2>2 DEF FileInvariant, FreeFds, FreeFile
    <3>2. FileTable(Install(table, Min(FreeFds), f))
      BY <3>1, InstallCounts
    <3>3. Install(table, Min(FreeFds), f) \in Tables
      BY <3>2 DEF FileTable, Tables
    <3>4. QED
      BY <3>1, <3>3, GivenUp
  <2>3. QED
    BY <1>1, <1>2, <2>1, <2>2, Installs DEF FreeFile
<1>5. CASE lazybsd_dup(d)
  <2>1. /\ d \in OpenFds
        /\ \/ UNCHANGED <<table, opened>>
           \/ /\ FreeFds # {} /\ opened' = opened \cup {Min(FreeFds)}
              /\ table' = Install(table, Min(FreeFds), table.fd[d])
    BY <1>5 DEF lazybsd_dup
  <2>2. PICK f \in Files : f = table.fd[d]
    BY <2>1, OpenHasFile
  <2>3. QED
    BY <1>1, <1>2, <2>1, <2>2, Installs
<1>6. QED
  BY <1>3, <1>4, <1>5

(* A descriptor that is replaced loses its own file first. *)
LEMMA Dup2Step ==
    ASSUME FileInvariant, NEW from \in Fds, NEW to \in Fds, lazybsd_dup2(from, to)
    PROVE  FileInvariant'
<1>1. /\ from \in OpenFds /\ opened' = opened \cup {to} /\ FileTable(table) /\ opened = OpenFds
      /\ table.fd \in [Fds -> Files \cup {NoFile}]
  BY DEF lazybsd_dup2, FileInvariant, FileTable
<1>2. PICK f \in Files : f = table.fd[from]
  BY <1>1, OpenHasFile
<1>3. CASE from = to
  <2>1. table' = table /\ opened' = opened
    BY <1>1, <1>3 DEF lazybsd_dup2
  <2>2. QED
    BY <2>1 DEF FileInvariant, FileTable, OpenFds, FreeFds
<1>4. CASE from # to /\ to \in OpenFds
  <2>1. table' = Install(Uninstall(table, to), to, f)
    BY <1>2, <1>4 DEF lazybsd_dup2
  <2>2. table.fd[to] # NoFile
    BY <1>4 DEF OpenFds, FreeFds
  <2>3. PICK t : t = Uninstall(table, to)
    OBVIOUS
  <2>4. FileTable(t) /\ t.fd = [table.fd EXCEPT ![to] = NoFile]
    BY <1>1, <2>2, <2>3, UninstallCounts
  <2>5. t.fd[to] = NoFile /\ [t.fd EXCEPT ![to] = f] = [table.fd EXCEPT ![to] = f]
    BY <1>1, <2>4
  <2>6. FileTable(table') /\ table'.fd = [table.fd EXCEPT ![to] = f]
    <3>1. table' = Install(t, to, f)
      BY <2>1, <2>3
    <3>2. FileTable(t) /\ t.fd[to] = NoFile
      BY <2>4, <2>5
    <3>3. FileTable(Install(t, to, f)) /\ Install(t, to, f).fd = [t.fd EXCEPT ![to] = f]
      BY <3>2, InstallCounts
    <3>4. QED
      BY <2>5, <3>1, <3>3
  <2>7. QED
    BY <1>1, <2>6, Opened
<1>5. CASE from # to /\ to \notin OpenFds
  <2>1. table' = Install(table, to, f) /\ to \in FreeFds
    BY <1>2, <1>5 DEF lazybsd_dup2, OpenFds
  <2>2. QED
    BY <1>1, <2>1, Installs
<1>6. QED
  BY <1>3, <1>4, <1>5

(* close, and a tool's request, which opens a descriptor and closes it. *)
LEMMA ClosingStep ==
    ASSUME FileInvariant, (\E d \in Fds : lazybsd_close(d)) \/ handle_ioctl_msg
    PROVE  FileInvariant'
<1>1. /\ FileTable(table) /\ opened = {e \in Fds : table.fd[e] # NoFile}
      /\ table.fd \in [Fds -> Files \cup {NoFile}]
  BY DEF FileInvariant, FileTable, OpenFds, FreeFds
<1>2. OpenFds' = {e \in Fds : table'.fd[e] # NoFile}
  BY DEF OpenFds, FreeFds
<1>3. ASSUME NEW d \in Fds, lazybsd_close(d)
      PROVE  FileInvariant'
  <2>1. table.fd[d] # NoFile /\ table' = Uninstall(table, d) /\ opened' = opened \ {d}
    BY <1>3 DEF lazybsd_close, OpenFds, FreeFds
  <2>2. FileTable(table') /\ table'.fd = [table.fd EXCEPT ![d] = NoFile]
    BY <1>1, <2>1, UninstallCounts
  <2>3. {e \in Fds : table'.fd[e] # NoFile} = opened \ {d}
    BY <1>1, <2>2
  <2>4. QED
    BY <1>2, <2>1, <2>2, <2>3 DEF FileInvariant, FileTable
<1>4. CASE handle_ioctl_msg
  <2>1. CASE UNCHANGED <<table, opened>>
    BY <2>1 DEF FileInvariant, FileTable, OpenFds, FreeFds
  <2>2. ASSUME FreeFds # {}, opened' = opened, NEW f \in FreeFile,
               table' = Uninstall(Install(table, Min(FreeFds), f), Min(FreeFds))
        PROVE  FileInvariant'
    <3>1. PICK d \in FreeFds : d = Min(FreeFds)
      BY <2>2, LowestIsFree DEF FreeFds
    <3>2. PICK t : t = Install(table, d, f)
      OBVIOUS
    <3>3. d \in Fds /\ table.fd[d] = NoFile /\ f \in Files
      BY DEF FreeFds, FreeFile
    <3>4. FileTable(t) /\ t.fd = [table.fd EXCEPT ![d] = f]
      BY <1>1, <3>2, <3>3, InstallCounts
    <3>5. t.fd[d] # NoFile /\ [t.fd EXCEPT ![d] = NoFile] = table.fd
      BY <1>1, <3>3, <3>4, SockAssumption
    <3>6. FileTable(table') /\ table'.fd = table.fd
      BY <2>2, <3>1, <3>2, <3>3, <3>4, <3>5, UninstallCounts
    <3>7. QED
      BY <1>1, <1>2, <2>2, <3>6 DEF FileInvariant, FileTable
  <2>3. \/ UNCHANGED <<table, opened>>
        \/ /\ FreeFds # {} /\ opened' = opened
           /\ \E f \in FreeFile : table' = Uninstall(Install(table, Min(FreeFds), f), Min(FreeFds))
    BY <1>4 DEF handle_ioctl_msg
  <2>4. QED
    BY <2>1, <2>2, <2>3
<1>5. QED
  BY <1>3, <1>4

(* Every call keeps the references: those that do not open or close a      *)
(* descriptor leave the table alone.                                       *)
LEMMA FileStep ==
    ASSUME FileInvariant, SockNext
    PROVE  FileInvariant'
<1>1. UNCHANGED <<table, opened>> => FileInvariant'
  BY DEF FileInvariant, FileTable, OpenFds, FreeFds
<1>2. \/ UNCHANGED <<table, opened>>
      \/ \E fam : lazybsd_socket(fam)
      \/ \E d \in Fds : lazybsd_accept(d) \/ lazybsd_dup(d) \/ lazybsd_close(d)
      \/ \E d, e \in Fds : lazybsd_dup2(d, e)
      \/ handle_ioctl_msg
  <2>1. KeventCalls => UNCHANGED <<table, opened>>
    BY DEF KeventCalls, lazybsd_kevent, kevent_copyin, kevent_copyout, kevent_return, fileVars
  <2>2. OptionCalls => UNCHANGED <<table, opened>>
    BY DEF OptionCalls, lazybsd_setsockopt, lazybsd_ioctl, lazybsd_getsockopt, fileVars
  <2>3. TransferCalls => UNCHANGED <<table, opened>>
    BY DEF TransferCalls, lazybsd_read, lazybsd_write, lazybsd_readv, lazybsd_writev, plain_call, fileVars
  <2>4. MessageCalls => UNCHANGED <<table, opened>> \/ lazybsd_socket(AF_INET)
    BY DEF MessageCalls, lazybsd_sendmsg, lazybsd_recvmsg, fileVars
  <2>5. ASSUME FileCalls
        PROVE  \/ UNCHANGED <<table, opened>>
               \/ \E fam : lazybsd_socket(fam)
               \/ \E d \in Fds : lazybsd_accept(d) \/ lazybsd_dup(d) \/ lazybsd_close(d)
               \/ \E d, e \in Fds : lazybsd_dup2(d, e)
               \/ handle_ioctl_msg
    <3>1. ASSUME NEW d \in Fds, NEW cmd, lazybsd_listen(d) \/ lazybsd_fcntl(d, cmd)
          PROVE  UNCHANGED <<table, opened>> \/ lazybsd_dup(d)
      BY <3>1 DEF lazybsd_listen, lazybsd_fcntl, plain_call, fileVars
    <3>2. ASSUME NEW d \in Fds, NEW fam, NEW name, lazybsd_bind(d, fam, name) \/ lazybsd_connect(d, fam, name)
          PROVE  UNCHANGED <<table, opened>>
      BY <3>2 DEF lazybsd_bind, lazybsd_connect
    <3>3. ASSUME NEW d \in Fds, \/ lazybsd_getsockname(d) \/ lazybsd_getpeername(d)
                               \/ lazybsd_recvfrom(d) \/ lazybsd_sendto(d)
          PROVE  UNCHANGED <<table, opened>>
      BY <3>3 DEF lazybsd_getsockname, lazybsd_getpeername, lazybsd_recvfrom, lazybsd_sendto, fileVars
    <3>4. ASSUME NEW req, NEW flag, NEW name, lazybsd_route_ctl(req, flag, name)
          PROVE  UNCHANGED <<table, opened>>
      BY <3>4 DEF lazybsd_route_ctl
    <3>5. QED
      BY <2>5, <3>1, <3>2, <3>3, <3>4, Zenon DEF FileCalls, lazybsd_kqueue
  <2>6. QED
    BY <2>1, <2>2, <2>3, <2>4, <2>5 DEF SockNext
<1>3. ASSUME NEW fam, lazybsd_socket(fam) PROVE FileInvariant'
  <2>1. \/ UNCHANGED <<table, opened>>
        \/ \E d \in Fds : TRUE
    BY <1>3 DEF lazybsd_socket, FreeFds
  <2>2. QED
    BY <1>1, <1>3, <2>1, OpeningStep
<1>4. QED
  BY <1>1, <1>2, <1>3, OpeningStep, Dup2Step, ClosingStep

LEMMA FileInvariantHolds == SockSpec => []FileInvariant
<1>1. SockInit => FileInvariant
  <2>1. SUFFICES ASSUME SockInit PROVE FileInvariant
    OBVIOUS
  <2>2. /\ table = [fd |-> [d \in Fds |-> NoFile], f_count |-> [f \in Files |-> 0]]
        /\ opened = {}
    BY <2>1 DEF SockInit
  <2>3. table.fd = [d \in Fds |-> NoFile] /\ table.f_count = [f \in Files |-> 0]
    BY <2>2
  <2>4. table \in [fd : [Fds -> Files \cup {NoFile}], f_count : [Files -> Nat]]
    BY <2>2
  <2>5. ASSUME NEW f \in Files
        PROVE  table.f_count[f] = Cardinality({d \in Fds : table.fd[d] = f})
    <3>1. {d \in Fds : table.fd[d] = f} = {}
      BY <2>3, SockAssumption
    <3>2. QED
      BY <2>3, <3>1, FS_EmptySet
  <2>6. OpenFds = {}
    BY <2>3 DEF OpenFds, FreeFds
  <2>7. QED
    BY <2>2, <2>4, <2>5, <2>6 DEF FileInvariant, FileTable
<1>2. FileInvariant /\ [SockNext]_sockVars => FileInvariant'
  <2>1. SUFFICES ASSUME FileInvariant, [SockNext]_sockVars PROVE FileInvariant'
    OBVIOUS
  <2>2. CASE UNCHANGED sockVars
    BY <2>1, <2>2 DEF sockVars, fileVars, FileInvariant, FileTable, OpenFds, FreeFds
  <2>3. QED
    BY <2>1, <2>2, FileStep
<1>3. QED
  BY <1>1, <1>2, PTL DEF SockSpec

(* A file has a reference for every descriptor, whatever calls open,       *)
(* duplicate and close descriptors and whichever of them fail.             *)
THEOREM FilesCounted ==
    SockSpec => []FileRefs
<1>1. FileInvariant => FileRefs
  BY DEF FileInvariant, FileTable, FileRefs
<1>2. QED
  BY <1>1, FileInvariantHolds, PTL

-----------------------------------------------------------------------------
(* kevent.                                                                 *)

(* The numbers from one on. *)
Counting(n) == [i \in 1 .. n |-> i]

(* KeventInOrder, with the place each list stands at: one past what the    *)
(* kernel has read from it or written to it.                               *)
KeventInvariant ==
    kev.phase = "in" =>
        /\ kev = [phase |-> "in", changelist |-> kev.changelist, nchanges |-> kev.nchanges,
                  nevents |-> kev.nevents, registered |-> kev.registered,
                  eventlist |-> kev.eventlist, events |-> kev.events, reported |-> kev.reported]
        /\ kev.nchanges \in Nat /\ kev.reported \in Nat
        /\ kev.registered \in Seq(Nat)
        /\ kev.registered = Counting(Len(kev.registered))
        /\ kev.changelist = Len(kev.registered) + 1
        /\ kev.events = Counting(kev.reported)
        /\ kev.eventlist = kev.reported + 1

(* Numbers that go on where the others ended. *)
LEMMA CountsOn ==
    ASSUME NEW s \in Seq(Nat), s = Counting(Len(s)), NEW n \in Nat
    PROVE  /\ s \o [i \in 1 .. n |-> (Len(s) + 1) + i - 1] \in Seq(Nat)
           /\ Len(s \o [i \in 1 .. n |-> (Len(s) + 1) + i - 1]) = Len(s) + n
           /\ s \o [i \in 1 .. n |-> (Len(s) + 1) + i - 1] = Counting(Len(s) + n)
<1>1. PICK t : t = [i \in 1 .. n |-> (Len(s) + 1) + i - 1]
  OBVIOUS
<1>2. PICK m \in Nat : m = Len(s) /\ t = [i \in 1 .. n |-> (m + 1) + i - 1]
  <2>1. Len(s) \in Nat
    OBVIOUS
  <2>2. QED
    BY <1>1, <2>1
<1>3. t \in Seq(Nat) /\ Len(t) = n /\ Len(s) \in Nat /\ \A i \in 1 .. n : t[i] = Len(s) + i
  <2>1. ASSUME NEW i \in 1 .. n PROVE t[i] \in Nat /\ t[i] = Len(s) + i
    BY <1>2
  <2>2. DOMAIN t = 1 .. n /\ t = [i \in 1 .. n |-> t[i]]
    BY <1>2
  <2>3. t \in [1 .. n -> Nat]
    BY <2>1, <2>2
  <2>4. t \in Seq(Nat) /\ Len(t) = n
    BY <2>3
  <2>5. QED
    BY <1>2, <2>1, <2>4
<1>4. s \o t \in Seq(Nat) /\ Len(s \o t) = Len(s) + n
  BY <1>3, ConcatProperties
<1>5. ASSUME NEW i \in 1 .. (Len(s) + n) PROVE (s \o t)[i] = i
  <2>1. CASE i <= Len(s)
    BY <1>3, <2>1 DEF Counting
  <2>2. CASE i > Len(s)
    <3>1. (s \o t)[i] = t[i - Len(s)] /\ i - Len(s) \in 1 .. n
      BY <1>3, <2>2
    <3>2. QED
      BY <1>3, <3>1
  <2>3. QED
    BY <1>3, <2>1, <2>2
<1>6. s \o t = Counting(Len(s) + n)
  <2>1. PICK w \in Seq(Nat) : w = s \o t /\ Len(w) = Len(s) + n
    BY <1>4
  <2>2. PICK k \in Nat : k = Len(s) + n /\ Len(w) = k
    BY <1>2, <2>1
  <2>3. w \in [1 .. k -> Nat] /\ \A i \in 1 .. k : w[i] = i
    <3>1. \A i \in 1 .. k : w[i] = i
      BY <1>5, <2>1, <2>2
    <3>2. QED
      BY <2>2, <3>1, LenProperties
  <2>4. w = Counting(k)
    BY <2>3 DEF Counting
  <2>5. QED
    BY <2>1, <2>2, <2>4
<1>7. QED
  BY <1>1, <1>4, <1>6

(* The kernel takes the next changes. *)
LEMMA ChangesStep ==
    ASSUME KeventInvariant, kevent_copyin
    PROVE  KeventInvariant'
<1>1. PICK n : n = Fewer(kev.nchanges, KqNevents)
  OBVIOUS
<1>2. /\ kev.phase = "in"
      /\ kev' = [kev EXCEPT !.nchanges = @ - n, !.changelist = @ + n,
                            !.registered = @ \o [i \in 1 .. n |-> kev.changelist + i - 1]]
  BY <1>1 DEF kevent_copyin
<1>3. n \in Nat /\ kev.nchanges - n \in Nat
  BY <1>1, <1>2, SockAssumption DEF KeventInvariant, Fewer
<1>4. PICK s, m, c, r : /\ s = kev.registered \o [i \in 1 .. n |-> kev.changelist + i - 1]
                        /\ m = kev.nchanges - n /\ c = kev.changelist + n /\ r = kev.registered
  OBVIOUS
<1>5. /\ r \in Seq(Nat) /\ r = Counting(Len(r)) /\ kev.changelist = Len(r) + 1
  BY <1>2, <1>4 DEF KeventInvariant
<1>6. s = r \o [i \in 1 .. n |-> (Len(r) + 1) + i - 1]
  BY <1>4, <1>5
<1>7. s \in Seq(Nat) /\ Len(s) = Len(r) + n /\ s = Counting(Len(r) + n)
  BY <1>3, <1>5, <1>6, CountsOn
<1>8. kev' = [kev EXCEPT !.nchanges = m, !.changelist = c, !.registered = s]
  BY <1>2, <1>4
<1>9. /\ kev'.phase = "in" /\ kev'.nchanges = m /\ kev'.changelist = c /\ kev'.registered = s
      /\ kev'.reported = kev.reported /\ kev'.events = kev.events /\ kev'.eventlist = kev.eventlist
      /\ kev' = [phase |-> "in", changelist |-> kev'.changelist, nchanges |-> kev'.nchanges,
                 nevents |-> kev'.nevents, registered |-> kev'.registered,
                 eventlist |-> kev'.eventlist, events |-> kev'.events, reported |-> kev'.reported]
  <2>1. kev.phase = "in"
    BY <1>2
  <2>2. QED
    BY <1>8, <2>1 DEF KeventInvariant
<1>10. m \in Nat /\ c = Len(s) + 1 /\ s = Counting(Len(s))
  <2>1. m \in Nat /\ c = (Len(r) + 1) + n /\ Len(r) \in Nat
    BY <1>3, <1>4, <1>5
  <2>2. QED
    BY <1>3, <1>7, <2>1
<1>11. /\ kev.reported \in Nat /\ kev.events = Counting(kev.reported)
       /\ kev.eventlist = kev.reported + 1
  BY <1>2 DEF KeventInvariant
<1>12. QED
  BY <1>7, <1>9, <1>10, <1>11 DEF KeventInvariant

(* The application's list gets the next events. *)
LEMMA EventsStep ==
    ASSUME KeventInvariant, NEW count \in Nat, kevent_copyout(count)
    PROVE  KeventInvariant'
<1>1. PICK n, e, r : n = kev.reported /\ e = kev.events /\ r = kev.registered
  OBVIOUS
<1>2. /\ kev.phase = "in" /\ n \in Nat /\ e = Counting(n) /\ kev.eventlist = n + 1
      /\ r \in Seq(Nat) /\ r = Counting(Len(r)) /\ kev.changelist = Len(r) + 1 /\ kev.nchanges \in Nat
  BY <1>1 DEF KeventInvariant, kevent_copyout
<1>3. PICK f : f = [i \in 1 .. (n + count) |-> IF i < n + 1 THEN e[i] ELSE n + i - (n + 1) + 1]
  OBVIOUS
<1>4. f = Counting(n + count)
  BY <1>2, <1>3 DEF Counting
<1>5. PICK g : g = [i \in 1 .. kev.eventlist + count - 1 |->
                       IF i < kev.eventlist THEN kev.events[i] ELSE kev.reported + i - kev.eventlist + 1]
  OBVIOUS
<1>6. g = f
  <2>1. kev.eventlist + count - 1 = n + count
    BY <1>2
  <2>2. QED
    BY <1>1, <1>2, <1>3, <1>5, <2>1
<1>7. kev' = [kev EXCEPT !.reported = @ + count, !.eventlist = @ + count, !.events = g]
  BY <1>5 DEF kevent_copyout
<1>8. /\ kev'.phase = "in" /\ kev'.nchanges = kev.nchanges /\ kev'.changelist = kev.changelist
      /\ kev'.registered = r /\ kev'.reported = n + count /\ kev'.events = g
      /\ kev'.eventlist = (n + 1) + count
      /\ kev' = [phase |-> "in", changelist |-> kev'.changelist, nchanges |-> kev'.nchanges,
                 nevents |-> kev'.nevents, registered |-> kev'.registered,
                 eventlist |-> kev'.eventlist, events |-> kev'.events, reported |-> kev'.reported]
  BY <1>1, <1>2, <1>7 DEF KeventInvariant
<1>9. n + count \in Nat /\ (n + 1) + count = (n + count) + 1
  BY <1>2
<1>10. QED
  BY <1>2, <1>4, <1>6, <1>8, <1>9 DEF KeventInvariant

(* The kernel sees the changes of a call in order, each once, and its      *)
(* events are listed in order, none over another, however it splits the    *)
(* lists.                                                                  *)
THEOREM KeventsInOrder ==
    SockSpec => []KeventInOrder
<1>1. SockInit => KeventInvariant
  BY DEF SockInit, KeventInvariant, Idle
<1>2. KeventInvariant /\ [SockNext]_sockVars => KeventInvariant'
  <2>1. SUFFICES ASSUME KeventInvariant, [SockNext]_sockVars PROVE KeventInvariant'
    OBVIOUS
  <2>2. UNCHANGED kev => KeventInvariant'
    BY <2>1 DEF KeventInvariant
  <2>3. CASE KeventCalls
    <3>1. ASSUME NEW n \in Nat, NEW nevents, lazybsd_kevent(n, nevents) PROVE KeventInvariant'
      <4>1. kev' = [phase |-> "in", changelist |-> 1, nchanges |-> n, nevents |-> nevents,
                    registered |-> << >>, eventlist |-> 1, events |-> << >>, reported |-> 0]
        BY <3>1 DEF lazybsd_kevent
      <4>2. PICK z : z = << >>
        OBVIOUS
      <4>3. /\ kev'.nchanges = n /\ kev'.changelist = 1 /\ kev'.registered = z
            /\ kev'.reported = 0 /\ kev'.events = z /\ kev'.eventlist = 1
            /\ kev' = [phase |-> "in", changelist |-> kev'.changelist, nchanges |-> kev'.nchanges,
                       nevents |-> kev'.nevents, registered |-> kev'.registered,
                       eventlist |-> kev'.eventlist, events |-> kev'.events, reported |-> kev'.reported]
        BY <4>1, <4>2
      <4>4. z \in Seq(Nat) /\ Len(z) = 0 /\ z = Counting(0)
        BY <4>2 DEF Counting
      <4>5. QED
        BY <4>3, <4>4 DEF KeventInvariant
    <3>2. CASE kevent_return
      BY <3>2 DEF kevent_return, Idle, KeventInvariant
    <3>3. MaxKevents \in Nat
      BY SockAssumption
    <3>4. QED
      BY <2>1, <2>3, <3>1, <3>2, <3>3, ChangesStep, EventsStep DEF KeventCalls
  <2>4. CASE FileCalls
    BY ZenonT(60), <2>2, <2>4 DEF FileCalls, lazybsd_socket, lazybsd_accept, lazybsd_kqueue, lazybsd_dup, lazybsd_dup2,
              lazybsd_close, lazybsd_listen, lazybsd_fcntl, plain_call, lazybsd_bind, lazybsd_connect,
              lazybsd_getsockname, lazybsd_getpeername, lazybsd_recvfrom, lazybsd_sendto,
              lazybsd_route_ctl, handle_ioctl_msg
  <2>5. CASE OptionCalls
    BY <2>2, <2>5 DEF OptionCalls, lazybsd_setsockopt, lazybsd_ioctl, lazybsd_getsockopt
  <2>6. CASE TransferCalls
    BY <2>2, <2>6 DEF TransferCalls, lazybsd_read, lazybsd_write, lazybsd_readv, lazybsd_writev, plain_call
  <2>7. CASE MessageCalls
    BY <2>2, <2>7 DEF MessageCalls, lazybsd_socket, lazybsd_sendmsg, lazybsd_recvmsg
  <2>8. CASE UNCHANGED sockVars
    BY <2>2, <2>8 DEF sockVars
  <2>9. QED
    BY <2>1, <2>3, <2>4, <2>5, <2>6, <2>7, <2>8 DEF SockNext
<1>3. KeventInvariant => KeventInOrder
  BY DEF KeventInvariant, KeventInOrder, Counting
<1>4. QED
  BY <1>1, <1>2, <1>3, PTL DEF SockSpec

-----------------------------------------------------------------------------
(* Numbers.                                                                *)

(* Cases with numbers, of which no two share a number or an answer. *)
TwoWay(cases) ==
    /\ \A c \in cases : c = << c[1], c[2] >> /\ c[1] \in Int
    /\ \A m, n \in Int : \A v, w : << m, v >> \in cases /\ << n, w >> \in cases => (m = n <=> v = w)

(* The answer of a switch of that kind is that of the case. *)
LEMMA SwitchCase ==
    ASSUME NEW C, TwoWay(C), NEW n \in DOMAIN Switch(C)
    PROVE  n \in Int /\ << n, Switch(C)[n] >> \in C
<1>1. DOMAIN Switch(C) = {c[1] : c \in C}
  BY DEF Switch
<1>2. PICK d : d = CHOOSE e \in C : e[1] = n
  OBVIOUS
<1>3. d \in C /\ d[1] = n
  BY <1>1, <1>2
<1>4. Switch(C)[n] = d[2]
  BY <1>1, <1>2 DEF Switch
<1>5. d = << d[1], d[2] >> /\ d[1] \in Int
  BY <1>3 DEF TwoWay
<1>6. QED
  BY <1>3, <1>4, <1>5

LEMMA SwitchAnswers ==
    ASSUME NEW C, TwoWay(C), NEW n \in Int, NEW v, << n, v >> \in C
    PROVE  Switch(C)[n] = v
<1>1. n \in {c[1] : c \in C}
  <2>1. << n, v >>[1] = n
    OBVIOUS
  <2>2. QED
    BY <2>1
<1>2. n \in DOMAIN Switch(C)
  BY <1>1 DEF Switch
<1>3. << n, Switch(C)[n] >> \in C
  BY <1>2, SwitchCase
<1>4. QED
  BY <1>3 DEF TwoWay

(* It has an answer of its own for every case. *)
LEMMA SwitchDistinct ==
    ASSUME NEW C, TwoWay(C), NEW m \in DOMAIN Switch(C), NEW n \in DOMAIN Switch(C), Switch(C)[m] = Switch(C)[n]
    PROVE  m = n
<1>1. PICK v : v = Switch(C)[m] /\ v = Switch(C)[n]
  OBVIOUS
<1>2. m \in Int /\ n \in Int /\ << m, v >> \in C /\ << n, v >> \in C
  BY <1>1, SwitchCase
<1>3. QED
  BY <1>2 DEF TwoWay

Distinct(f) == \A m, n \in DOMAIN f : f[m] = f[n] => m = n

(* The tables are of that kind. *)
LEMMA TablesDistinct ==
    Distinct(IoctlTable) /\ Distinct(SoTable) /\ Distinct(IpTable) /\ Distinct(Ip6Table) /\ Distinct(TcpTable)
<1>1. ASSUME NEW C, TwoWay(C) PROVE Distinct(Switch(C))
  BY <1>1, SwitchDistinct DEF Distinct
<1>2. TwoWay(IoctlCases)
  BY SMTT(30) DEF TwoWay, IoctlCases
<1>3. TwoWay(SoCases)
  BY DEF TwoWay, SoCases
<1>4. TwoWay(IpCases)
  BY DEF TwoWay, IpCases
<1>5. TwoWay(Ip6Cases)
  BY DEF TwoWay, Ip6Cases
<1>6. TwoWay(TcpCases)
  BY DEF TwoWay, TcpCases
<1>7. QED
  BY <1>1, <1>2, <1>3, <1>4, <1>5, <1>6 DEF IoctlTable, SoTable, IpTable, Ip6Table, TcpTable

(* No two of the options and requests the tables name become the same. *)
LEMMA TranslateDistinct ==
    ASSUME NEW o \in Named, NEW p \in Named, Translate(o) = Translate(p)
    PROVE  o = p
<1> DEFINE Through(q, level, to, f) ==
      q[1] = level /\ q[2] \in DOMAIN f /\ Translate(q)[1] = to /\ Translate(q)[2] = f[q[2]]
<1>1. ASSUME NEW q \in Named
      PROVE  /\ q = << q[1], q[2] >>
             /\ \/ q[1] = LINUX_SOL_SOCKET /\ q[2] \in DOMAIN SoTable
                \/ q[1] = IPPROTO_IP /\ q[2] \in DOMAIN IpTable
                \/ q[1] = IPPROTO_IPV6 /\ q[2] \in DOMAIN Ip6Table
                \/ q[1] = IPPROTO_TCP /\ q[2] \in DOMAIN TcpTable
                \/ q[1] = IOCTL /\ q[2] \in DOMAIN IoctlTable
  BY <1>1 DEF Named, NamedOptions
<1>2. ASSUME NEW q \in Named
      PROVE  \/ Through(q, 1, 65535, SoTable)
             \/ Through(q, 0, 0, IpTable)
             \/ Through(q, 41, 41, Ip6Table)
             \/ Through(q, 6, 6, TcpTable)
             \/ Through(q, -2, -2, IoctlTable)
  BY <1>1, <1>2 DEF Translate, KernelLevel, linux2freebsd_opt, linux2freebsd_ioctl, so_opt_convert,
       ip_opt_convert, ip6_opt_convert, tcp_opt_convert,
       LINUX_SOL_SOCKET, SOL_SOCKET, IPPROTO_IP, IPPROTO_IPV6, IPPROTO_TCP, IOCTL
<1>3. ASSUME NEW level, NEW to, NEW f, Distinct(f), Through(o, level, to, f), Through(p, level, to, f)
      PROVE  o = p
  <2>1. f[o[2]] = f[p[2]] /\ o[1] = p[1]
    BY <1>3
  <2>2. o[2] = p[2]
    BY <1>3, <2>1 DEF Distinct
  <2>3. QED
    BY <1>1, <2>1, <2>2
<1>4. Translate(o)[1] = Translate(p)[1]
  OBVIOUS
<1> HIDE DEF Through
<1>5. ASSUME NEW q, NEW level, NEW to, NEW f, Through(q, level, to, f) PROVE Translate(q)[1] = to
  BY <1>5 DEF Through
<1>6. \/ Through(o, 1, 65535, SoTable) /\ Through(p, 1, 65535, SoTable)
      \/ Through(o, 0, 0, IpTable) /\ Through(p, 0, 0, IpTable)
      \/ Through(o, 41, 41, Ip6Table) /\ Through(p, 41, 41, Ip6Table)
      \/ Through(o, 6, 6, TcpTable) /\ Through(p, 6, 6, TcpTable)
      \/ Through(o, -2, -2, IoctlTable) /\ Through(p, -2, -2, IoctlTable)
  <2>1. \/ Through(o, 1, 65535, SoTable) \/ Through(o, 0, 0, IpTable) \/ Through(o, 41, 41, Ip6Table)
        \/ Through(o, 6, 6, TcpTable) \/ Through(o, -2, -2, IoctlTable)
    BY <1>2
  <2>2. \/ Through(p, 1, 65535, SoTable) \/ Through(p, 0, 0, IpTable) \/ Through(p, 41, 41, Ip6Table)
        \/ Through(p, 6, 6, TcpTable) \/ Through(p, -2, -2, IoctlTable)
    BY <1>2
  <2>3. QED
    BY <1>4, <1>5, <2>1, <2>2
<1>7. QED
  BY <1>3, <1>6, TablesDistinct

(* Only those can be set. *)
LEMMA OnlyNamedSet ==
    ASSUME NEW o, Translates(o),
           \/ o \in NamedOptions \cup Unnamed
           \/ \E request \in DOMAIN IoctlTable \cup {77} : o = << IOCTL, request >>
    PROVE  o \in Named
<1>1. CASE o \in NamedOptions
  BY <1>1 DEF Named
<1>2. CASE o = << LINUX_SOL_SOCKET, 77 >>
  <2>1. Translate(o)[2] = so_opt_convert(77) /\ o[1] # IOCTL
    BY <1>2 DEF Translate, KernelLevel, linux2freebsd_opt, LINUX_SOL_SOCKET, SOL_SOCKET, IOCTL,
                IPPROTO_IP, IPPROTO_IPV6, IPPROTO_TCP
  <2>2. 77 \in DOMAIN SoTable
    BY <2>1 DEF Translates, so_opt_convert
  <2>3. QED
    BY <1>2, <2>2 DEF Named, NamedOptions
<1>3. CASE o = << 99, 1 >>
  <2>1. Translate(o)[2] = -1 /\ o[1] # IOCTL
    BY <1>3 DEF Translate, KernelLevel, linux2freebsd_opt, LINUX_SOL_SOCKET, SOL_SOCKET, IOCTL,
                IPPROTO_IP, IPPROTO_IPV6, IPPROTO_TCP
  <2>2. QED
    BY <2>1 DEF Translates
<1>4. ASSUME NEW request, o = << IOCTL, request >> PROVE o \in Named
  <2>1. Translate(o)[2] = linux2freebsd_ioctl(request) /\ o[1] = IOCTL
    BY <1>4 DEF Translate
  <2>2. request \in DOMAIN IoctlTable
    BY <2>1 DEF Translates, linux2freebsd_ioctl
  <2>3. QED
    BY <1>4, <2>2 DEF Named
<1>5. QED
  BY <1>1, <1>2, <1>3, <1>4 DEF Unnamed

(* No two errors of the table become the same. *)
LEMMA ErrnoDistinct ==
    ASSUME NEW e \in KernelErrors, NEW f \in KernelErrors, lazybsd_os_errno(e) = lazybsd_os_errno(f)
    PROVE  e = f
<1>1. DOMAIN ErrnoTable = 1 .. 92
  BY DEF ErrnoTable
<1>2. e \in 1 .. 92 /\ f \in 1 .. 92 /\ ErrnoTable[e] # 0 /\ ErrnoTable[e] = ErrnoTable[f]
  BY <1>1 DEF KernelErrors, lazybsd_os_errno
<1>3. QED
  BY <1>2, SMTT(30) DEF ErrnoTable

(* Addition in an int, without overflow. *)
LEMMA IntAddExact ==
    ASSUME NEW a \in Int, NEW b \in Int, 0 <= a + b, a + b <= IntMax
    PROVE  IntAdd(a, b) = a + b
<1>1. IntMax \in Nat
  BY SockAssumption
<1>2. PICK s \in Int, m \in Int : s = a + b + IntMax + 1 /\ m = 2 * (IntMax + 1)
  BY <1>1
<1>3. m \in Nat /\ m > 0 /\ s \in 0 .. m - 1 /\ s = m * 0 + s
  BY <1>1, <1>2
<1>4. s % m = s
  BY <1>3, DivModUnique
<1>5. QED
  BY <1>1, <1>2, <1>4 DEF IntAdd

(* What is set in the kernel is what the application has set. *)
OptionInvariant == asked \subseteq Named /\ reached = {Translate(o) : o \in asked}

(* lazybsd_errno is the last error of the kernel. *)
ErrorInvariant == lazybsd_errno = lazybsd_os_errno(rc)

(* An option is set or reset. *)
LEMMA OptionSet ==
    ASSUME OptionInvariant, NEW o, NEW on, lazybsd_setsockopt(o, on),
           \/ o \in NamedOptions \cup Unnamed
           \/ \E request \in DOMAIN IoctlTable \cup {77} : o = << IOCTL, request >>
    PROVE  OptionInvariant'
<1>1. CASE UNCHANGED <<asked, reached>>
  BY <1>1 DEF OptionInvariant
<1>2. CASE /\ Translates(o)
           /\ asked' = IF on THEN asked \cup {o} ELSE asked \ {o}
           /\ reached' = IF on THEN reached \cup {Translate(o)} ELSE reached \ {Translate(o)}
  <2>1. o \in Named
    BY <1>2, OnlyNamedSet
  <2>2. CASE on
    BY <1>2, <2>1, <2>2 DEF OptionInvariant
  <2>3. CASE ~on
    <3>1. \A p \in asked : Translate(p) = Translate(o) => p = o
      BY <2>1, TranslateDistinct DEF OptionInvariant
    <3>2. reached' = {Translate(p) : p \in asked'}
      BY <1>2, <2>3, <3>1 DEF OptionInvariant
    <3>3. QED
      BY <1>2, <2>3, <3>2 DEF OptionInvariant
  <2>4. QED
    BY <2>2, <2>3
<1>3. QED
  BY <1>1, <1>2 DEF lazybsd_setsockopt

(* A transfer of one buffer, and one of two. *)
LEMMA TransferMoved ==
    /\ \A n \in Nat : n <= IntMax /\ transfer' = Moved(n, FALSE, n) => TransferLength'
    /\ \A m, n \in Nat : transfer' = Moved(m + n, TRUE, IntAdd(IntAdd(0, m), n)) => TransferLength'
<1>1. ASSUME NEW n \in Nat, n <= IntMax, transfer' = Moved(n, FALSE, n) PROVE TransferLength'
  <2>1. IntAdd(0, n) = n
    BY <1>1, IntAddExact
  <2>2. QED
    BY <1>1, <2>1 DEF Moved, TransferLength
<1>2. ASSUME NEW m \in Nat, NEW n \in Nat, transfer' = Moved(m + n, TRUE, IntAdd(IntAdd(0, m), n))
      PROVE  TransferLength'
  <2>1. ASSUME m + n <= IntMax PROVE IntAdd(IntAdd(0, m), n) = m + n /\ IntAdd(0, m + n) = m + n
    <3>1. IntMax \in Nat
      BY SockAssumption
    <3>2. IntAdd(0, m) = m
      BY <2>1, <3>1, IntAddExact
    <3>3. IntAdd(m, n) = m + n /\ IntAdd(0, m + n) = m + n
      BY <2>1, <3>1, IntAddExact
    <3>4. QED
      BY <3>2, <3>3
  <2>2. /\ transfer'.vec = TRUE /\ transfer'.len = m + n
        /\ transfer'.uio_resid = IntAdd(IntAdd(0, m), n)
        /\ transfer'.done = IntAdd(0, IntAdd(IntAdd(0, m), n))
    BY <1>2 DEF Moved
  <2>3. QED
    BY <2>1, <2>2 DEF TransferLength
<1>3. QED
  BY <1>1, <1>2

(* Every call ends with an error of the kernel's, which is stored as Linux *)
(* numbers it, or leaves the last one.                                     *)
LEMMA ErrorStored ==
    ASSUME ErrorInvariant
    PROVE  /\ \A e : kern_fail(e) => ErrorInvariant'
           /\ Refused => ErrorInvariant'
           /\ \A v : Return(v) => ErrorInvariant'
           /\ UNCHANGED errVars => ErrorInvariant'
BY DEF kern_fail, Refused, Return, ErrorInvariant, errVars

LEMMA ErrorStep ==
    ASSUME ErrorInvariant, SockNext
    PROVE  ErrorInvariant'
<1>1. ASSUME NEW fam, lazybsd_socket(fam) PROVE ErrorInvariant'
  BY <1>1, ErrorStored, Zenon DEF lazybsd_socket
<1>2. CASE FileCalls
  <2>1. ASSUME NEW d \in Fds,
               \/ lazybsd_accept(d) \/ lazybsd_getsockname(d) \/ lazybsd_getpeername(d)
               \/ lazybsd_recvfrom(d) \/ lazybsd_sendto(d)
        PROVE  ErrorInvariant'
    BY <2>1, ErrorStored, Zenon DEF lazybsd_accept, lazybsd_getpeername, lazybsd_getsockname,
         lazybsd_recvfrom, lazybsd_sendto
  <2>2. ASSUME NEW d \in Fds, NEW e \in Fds, NEW cmd,
               \/ lazybsd_dup(d) \/ lazybsd_close(d) \/ lazybsd_listen(d) \/ lazybsd_fcntl(d, cmd)
               \/ lazybsd_dup2(d, e)
        PROVE  ErrorInvariant'
    BY <2>2, ErrorStored, Zenon DEF lazybsd_dup, lazybsd_dup2, lazybsd_close, lazybsd_listen,
         lazybsd_fcntl, plain_call
  <2>3. ASSUME NEW d \in Fds, NEW fam, NEW name, lazybsd_bind(d, fam, name) \/ lazybsd_connect(d, fam, name)
        PROVE  ErrorInvariant'
    BY <2>3, ErrorStored, Zenon DEF lazybsd_bind, lazybsd_connect
  <2>4. ASSUME handle_ioctl_msg \/ \E req, flag, name : lazybsd_route_ctl(req, flag, name)
        PROVE  ErrorInvariant'
    BY <2>4, ErrorStored, Zenon DEF handle_ioctl_msg, lazybsd_route_ctl
  <2>5. QED
    BY <1>1, <1>2, <2>1, <2>2, <2>3, <2>4, Zenon DEF FileCalls, lazybsd_kqueue
<1>3. CASE OptionCalls
  BY <1>3, ErrorStored, Zenon DEF OptionCalls, lazybsd_setsockopt, lazybsd_ioctl, lazybsd_getsockopt
<1>4. CASE TransferCalls
  BY <1>4, ErrorStored, Zenon DEF TransferCalls, lazybsd_read, lazybsd_write, lazybsd_readv, lazybsd_writev,
       plain_call
<1>5. CASE MessageCalls
  BY <1>1, <1>5, ErrorStored, Zenon DEF MessageCalls, lazybsd_sendmsg, lazybsd_recvmsg
<1>6. CASE KeventCalls
  BY <1>6, ErrorStored, Zenon DEF KeventCalls, lazybsd_kevent, kevent_copyin, kevent_copyout, kevent_return
<1>7. QED
  BY <1>2, <1>3, <1>4, <1>5, <1>6 DEF SockNext

(* An option or request a table names is set exactly when the application  *)
(* set it, a transfer is as long as it was asked to be, and an error of    *)
(* the table can be told from every other: no two cases of so_opt_convert  *)
(* and the switches beside it meet, for every order of calls and every     *)
(* width of an int.                                                        *)
THEOREM NumbersKeepMeaning ==
    SockSpec => []NumbersTranslated
<1> DEFINE Inv == OptionInvariant /\ TransferLength /\ ErrorInvariant
<1>1. SockInit => Inv
  <2>1. SUFFICES ASSUME SockInit PROVE Inv
    OBVIOUS
  <2>2. OptionInvariant
    BY <2>1 DEF SockInit, OptionInvariant
  <2>3. TransferLength
    <3>1. transfer = [len |-> 0, vec |-> FALSE, uio_resid |-> 0, done |-> 0]
      BY <2>1 DEF SockInit
    <3>2. QED
      BY <3>1 DEF TransferLength
  <2>4. ErrorInvariant
    <3>1. DOMAIN ErrnoTable = 1 .. 92
      BY DEF ErrnoTable
    <3>2. 0 \notin KernelErrors
      BY <3>1 DEF KernelErrors
    <3>3. QED
      BY <2>1, <3>2 DEF SockInit, ErrorInvariant, lazybsd_os_errno
  <2>5. QED
    BY <2>2, <2>3, <2>4
<1>2. Inv /\ [SockNext]_sockVars => Inv'
  <2>1. SUFFICES ASSUME Inv, [SockNext]_sockVars PROVE Inv'
    OBVIOUS
  <2>2. CASE UNCHANGED sockVars
    BY <2>1, <2>2 DEF sockVars, optVars, errVars, OptionInvariant, TransferLength, ErrorInvariant
  <2>3. CASE SockNext
    <3>1. ErrorInvariant'
      BY <2>1, <2>3, ErrorStep
    <3>2. UNCHANGED <<asked, reached>> => OptionInvariant'
      BY <2>1 DEF OptionInvariant
    <3>3. UNCHANGED transfer => TransferLength'
      BY <2>1 DEF TransferLength
    <3>4. CASE OptionCalls
      <4>1. UNCHANGED transfer
        BY <3>4 DEF OptionCalls, lazybsd_setsockopt, lazybsd_ioctl, lazybsd_getsockopt, optVars
      <4>2. ASSUME NEW o \in NamedOptions \cup Unnamed, NEW on, lazybsd_setsockopt(o, on) PROVE OptionInvariant'
        BY <2>1, <4>2, OptionSet
      <4>3. ASSUME NEW request \in DOMAIN IoctlTable \cup {77}, NEW on, lazybsd_ioctl(request, on)
            PROVE  OptionInvariant'
        BY <2>1, <4>3, OptionSet DEF lazybsd_ioctl
      <4>4. ASSUME NEW o, lazybsd_getsockopt(o) PROVE OptionInvariant'
        BY <3>2, <4>4 DEF lazybsd_getsockopt, optVars
      <4>5. OptionInvariant'
        BY <3>4, <4>2, <4>3, <4>4, Zenon DEF OptionCalls
      <4>6. QED
        BY <3>1, <3>3, <4>1, <4>5
    <3>5. CASE TransferCalls
      <4>1. UNCHANGED <<asked, reached>>
        BY <3>5 DEF TransferCalls, lazybsd_read, lazybsd_write, lazybsd_readv, lazybsd_writev, plain_call, optVars
      <4>2. \A n \in Lengths : n \in Nat
        BY SockAssumption
      <4>3. ASSUME NEW n \in Lengths, lazybsd_read(n) PROVE TransferLength'
        BY <3>3, <4>2, <4>3, TransferMoved DEF lazybsd_read
      <4>4. ASSUME NEW m \in Lengths, NEW n \in Lengths, lazybsd_readv(m, n) PROVE TransferLength'
        BY <4>2, <4>4, TransferMoved DEF lazybsd_readv
      <4>5. plain_call => TransferLength'
        BY <3>3 DEF plain_call, optVars
      <4>6. TransferLength'
        BY <3>5, <4>3, <4>4, <4>5, Zenon DEF TransferCalls, lazybsd_write, lazybsd_writev
      <4>7. QED
        BY <3>1, <3>2, <4>1, <4>6
    <3>6. CASE FileCalls \/ MessageCalls \/ KeventCalls
      <4>1. CASE FileCalls
        BY ZenonT(60), <3>1, <3>2, <3>3, <4>1 DEF FileCalls, lazybsd_socket, lazybsd_accept, lazybsd_kqueue,
              lazybsd_dup, lazybsd_dup2,
              lazybsd_close, lazybsd_listen, lazybsd_fcntl, plain_call, lazybsd_bind, lazybsd_connect,
              lazybsd_getsockname, lazybsd_getpeername, lazybsd_recvfrom, lazybsd_sendto,
              lazybsd_route_ctl, handle_ioctl_msg, optVars
      <4>2. CASE MessageCalls
        BY <3>1, <3>2, <3>3, <4>2 DEF MessageCalls, lazybsd_socket, lazybsd_sendmsg, lazybsd_recvmsg, optVars
      <4>3. CASE KeventCalls
        BY <3>1, <3>2, <3>3, <4>3 DEF KeventCalls, lazybsd_kevent, kevent_copyin, kevent_copyout,
              kevent_return, optVars
      <4>4. QED
        BY <3>6, <4>1, <4>2, <4>3
    <3>7. QED
      BY <2>3, <3>4, <3>5, <3>6 DEF SockNext
  <2>4. QED
    BY <2>1, <2>2, <2>3
<1>3. Inv => NumbersTranslated
  <2>1. SUFFICES ASSUME Inv PROVE NumbersTranslated
    OBVIOUS
  <2>2. OptionsKept
    BY <2>1, TranslateDistinct DEF OptionInvariant, OptionsKept
  <2>3. ErrorsDistinct
    BY <2>1, ErrnoDistinct DEF ErrorInvariant, ErrorsDistinct
  <2>4. QED
    BY <2>1, <2>2, <2>3 DEF NumbersTranslated
<1> HIDE DEF Inv
<1>4. QED
  BY <1>1, <1>2, <1>3, PTL DEF SockSpec

-----------------------------------------------------------------------------
(* Control messages.                                                       *)

(* The words a message takes, its header included. *)
Size(m) == IF m.n = 16 THEN 8 ELSE 6

(* b[k] words are before message k + 1 of msgs. *)
Places(b, msgs, K) ==
    /\ b \in [0 .. K -> Nat] /\ b[0] = 0 /\ K <= b[K]
    /\ \A k \in 1 .. K : b[k] = b[k - 1] + Size(msgs[k])
    /\ \A j, k \in 0 .. K : j < k => b[j] + 6 <= b[k]

LEMMA SizeIs ==
    ASSUME NEW m \in Messages
    PROVE  /\ Size(m) \in {6, 8}
           /\ CMSG_LEN(m.n) \in Nat /\ CMSG_ALIGN(CMSG_LEN(m.n)) = 4 * Size(m)
<1>1. m.n \in {1, 4, 16}
  BY DEF Messages
<1>2. (16 + 1 + 7) \div 8 = 3 /\ (16 + 4 + 7) \div 8 = 3 /\ (16 + 16 + 7) \div 8 = 4
  OBVIOUS
<1>3. QED
  BY <1>1, <1>2 DEF Size, CMSG_LEN, CMSG_ALIGN

LEMMA WordOf ==
    ASSUME NEW p \in Nat
    PROVE  Word(4 * p) = p + 1 /\ 4 * p # NoHdr
BY DEF Word, NoHdr

(* The next message, in a buffer of q words that goes on or ends there. *)
LEMMA NextHdr ==
    ASSUME NEW m \in Messages, NEW p \in Nat, NEW q \in Nat, NEW n, n = CMSG_LEN(m.n)
    PROVE  CMSG_NXTHDR(4 * p, n, 4 * q) = IF p + Size(m) + 4 > q THEN NoHdr ELSE 4 * (p + Size(m))
<1>1. PICK z \in Nat : z = Size(m) /\ CMSG_ALIGN(n) = 4 * z
  BY SizeIs
<1>2. QED
  BY <1>1 DEF CMSG_NXTHDR

(* The places of a sequence of messages. *)
LEMMA PlacesExist ==
    ASSUME NEW msgs \in Seq(Messages)
    PROVE  \E b : Places(b, msgs, Len(msgs)) /\ \A k \in 0 .. Len(msgs) : b[k] = UpTo([i \in 1 .. Len(msgs) |-> Size(msgs[i])], k)
<1>1. PICK K \in Nat : K = Len(msgs) /\ \A k \in 1 .. K : msgs[k] \in Messages
  BY LenProperties
<1>2. PICK z : z = [i \in 1 .. K |-> Size(msgs[i])]
  OBVIOUS
<1>3. \A k \in 1 .. K : z[k] = Size(msgs[k]) /\ z[k] \in {6, 8}
  BY <1>1, <1>2, SizeIs
<1>4. ASSUME NEW k \in 0 .. K
      PROVE  UpTo(z, k) \in Int /\ UpTo(z, 0) = 0 /\ (k > 0 => UpTo(z, k) = UpTo(z, k - 1) + z[k])
  <2>1. k \in Nat /\ \A i \in 1 .. k : z[i] \in Int
    BY <1>3
  <2>2. QED
    BY <2>1, UpToStep
<1>5. PICK b : b = [k \in 0 .. K |-> UpTo(z, k)]
  OBVIOUS
<1>6. b[0] = 0 /\ (\A k \in 0 .. K : b[k] \in Int) /\ \A k \in 1 .. K : b[k] = b[k - 1] + z[k]
  <2>1. 0 \in 0 .. K
    OBVIOUS
  <2>2. b[0] = 0 /\ \A k \in 0 .. K : b[k] \in Int
    BY <1>4, <1>5, <2>1
  <2>3. ASSUME NEW k \in 1 .. K PROVE b[k] = b[k - 1] + z[k]
    <3>1. k \in 0 .. K /\ k - 1 \in 0 .. K /\ k > 0
      OBVIOUS
    <3>2. UpTo(z, k) = UpTo(z, k - 1) + z[k]
      BY <1>4, <3>1
    <3>3. QED
      BY <1>5, <3>1, <3>2
  <2>4. QED
    BY <2>2, <2>3
<1> DEFINE T == {k \in Nat : k <= K => b[k] >= 6 * k /\ \A j \in 0 .. k : j < k => b[j] + 6 <= b[k]}
<1>7. 0 \in T
  BY <1>6
<1>8. ASSUME NEW k \in Nat, k \in T PROVE k + 1 \in T
  <2>1. SUFFICES ASSUME k + 1 <= K
                 PROVE  b[k + 1] >= 6 * (k + 1) /\ \A j \in 0 .. k + 1 : j < k + 1 => b[j] + 6 <= b[k + 1]
    OBVIOUS
  <2>2. k + 1 \in 1 .. K /\ (k + 1) - 1 = k /\ k \in 0 .. K
    BY <2>1
  <2>3. b[k + 1] = b[k] + z[k + 1] /\ z[k + 1] \in {6, 8} /\ b[k] \in Int
    BY <1>3, <1>6, <2>2
  <2>4. b[k] >= 6 * k /\ \A j \in 0 .. k : j < k => b[j] + 6 <= b[k]
    BY <1>8, <2>1
  <2>5. ASSUME NEW j \in 0 .. k + 1, j < k + 1 PROVE b[j] + 6 <= b[k + 1]
    <3>1. j \in 0 .. k /\ j \in 0 .. K
      BY <2>1, <2>5
    <3>2. b[j] \in Int /\ (j = k \/ b[j] + 6 <= b[k])
      BY <1>6, <2>4, <3>1
    <3>3. QED
      BY <2>3, <3>2
  <2>6. QED
    BY <2>3, <2>4, <2>5
<1> HIDE DEF T
<1>9. \A k \in Nat : k \in T
  BY <1>7, <1>8, SetInduction
<1>10. \A k \in 0 .. K : b[k] >= 6 * k /\ \A j \in 0 .. k : j < k => b[j] + 6 <= b[k]
  BY <1>9 DEF T
<1>11. \A j, k \in 0 .. K : j < k => b[j] + 6 <= b[k]
  BY <1>10
<1>12. \A k \in 0 .. K : b[k] \in Nat
  BY <1>6, <1>10
<1>13. b \in [0 .. K -> Nat]
  BY <1>5, <1>12
<1>14. K <= b[K]
  BY <1>6, <1>10
<1>15. Places(b, msgs, K)
  BY <1>3, <1>6, <1>11, <1>13, <1>14 DEF Places
<1>16. QED
  BY <1>1, <1>2, <1>5, <1>15

(* Bytes of words. *)
LEMMA Bytes ==
    /\ \A v \in Int : LowByte(v) \in 0 .. 255
    /\ \A v \in 0 .. 255 : LowByte(v) = v /\ LowByte(v + 256 * Padding) = v
    /\ \A old, v \in Int : PutByte(old, v) \in Int /\ LowByte(PutByte(old, v)) = LowByte(v) /\ PutByte(v, v) = v
<1>1. ASSUME NEW v \in Int PROVE LowByte(v) \in 0 .. 255
  BY DivMod DEF LowByte
<1>2. ASSUME NEW a \in Int, NEW q \in Int, NEW r \in 0 .. 255, a = 256 * q + r PROVE LowByte(a) = r
  <2>1. a % 256 = r
    BY <1>2, DivModUnique
  <2>2. QED
    BY <2>1 DEF LowByte
<1>3. ASSUME NEW v \in 0 .. 255 PROVE LowByte(v) = v /\ LowByte(v + 256 * Padding) = v
  <2>1. PICK q \in Int, p \in Int : q = 0 /\ p = 255
    OBVIOUS
  <2>2. LowByte(v) = v
    <3>1. v \in Int /\ v = 256 * q + v
      BY <2>1
    <3>2. QED
      BY <1>2, <3>1
  <2>3. PICK b \in Int : b = v + 256 * Padding /\ b = 256 * p + v
    BY <2>1 DEF Padding
  <2>4. LowByte(b) = v
    BY <1>2, <2>3
  <2>5. QED
    BY <2>2, <2>3, <2>4
<1>4. ASSUME NEW old \in Int, NEW v \in Int
      PROVE  PutByte(old, v) \in Int /\ LowByte(PutByte(old, v)) = LowByte(v) /\ PutByte(v, v) = v
  <2>1. PICK q \in Int, r \in 0 .. 255 : q = old \div 256 /\ r = LowByte(old) /\ old = 256 * q + r
    BY DivMod DEF LowByte
  <2>2. PICK c \in 0 .. 255 : c = LowByte(v)
    BY <1>1
  <2>3. PutByte(old, v) = 256 * q + c
    BY <2>1, <2>2 DEF PutByte
  <2>4. LowByte(PutByte(old, v)) = c
    <3>1. PICK a \in Int : a = PutByte(old, v) /\ a = 256 * q + c
      BY <2>3
    <3>2. QED
      BY <1>2, <3>1
  <2>5. PutByte(v, v) = v
    BY <2>2 DEF PutByte
  <2>6. QED
    BY <2>2, <2>3, <2>4, <2>5
<1>5. QED
  BY <1>1, <1>3, <1>4

(* A message at word p + 1 of a buffer, as either side lays it out. *)
LinuxAt(mem, p, m) ==
    /\ mem[p + 1] = CMSG_LEN(m.n) /\ mem[p + 2] = 0 /\ mem[p + 3] = m.level /\ mem[p + 4] = m.type
    /\ Value(m.n, mem[p + 5]) = m.val

FreebsdAt(mem, p, m) ==
    /\ mem[p + 1] = CMSG_LEN(m.n) /\ mem[p + 2] = m.level /\ mem[p + 3] = m.type
    /\ Value(m.n, mem[p + 5]) = m.val

MessageFields(m) == m.level \in Nat /\ m.type \in Nat /\ m.n \in {1, 4, 16} /\ m.val \in 0 .. 255

LEMMA FieldsAre ==
    ASSUME NEW m \in Messages
    PROVE  MessageFields(m) /\ m = [level |-> m.level, type |-> m.type, n |-> m.n, val |-> m.val]
BY DEF Messages, MessageFields

LEMMA DataWordsAre ==
    ASSUME NEW m \in Messages
    PROVE  /\ DataWords(m) \in Seq(Int) /\ Len(DataWords(m)) = Size(m) - 4
           /\ Value(m.n, DataWords(m)[1]) = m.val
<1>1. MessageFields(m)
  BY FieldsAre
<1>2. PICK v \in 0 .. 255 : v = m.val
  BY <1>1 DEF MessageFields
<1>3. CASE m.n = 1
  <2>1. DataWords(m) = << v + 256 * Padding, Padding >>
    BY <1>2, <1>3 DEF DataWords
  <2>2. LowByte(v + 256 * Padding) = v
    BY Bytes
  <2>3. QED
    BY <1>2, <1>3, <2>1, <2>2 DEF Value, Size, Padding
<1>4. CASE m.n = 4
  <2>1. DataWords(m) = << v, Padding >>
    BY <1>2, <1>4 DEF DataWords
  <2>2. QED
    BY <1>2, <1>4, <2>1 DEF Value, Size, Padding
<1>5. CASE m.n = 16
  <2>1. DataWords(m) = << v, v, v, v >>
    BY <1>2, <1>5 DEF DataWords
  <2>2. QED
    BY <1>2, <1>5, <2>1 DEF Value, Size
<1>6. QED
  BY <1>1, <1>3, <1>4, <1>5 DEF MessageFields

(* A header of four words and the data. *)
Block(s, m, h1, h2, h3, h4) == s = << h1, h2, h3, h4 >> \o DataWords(m)

Blocked(s, m, h1, h2, h3, h4) ==
    /\ s \in Seq(Int) /\ Len(s) = Size(m)
    /\ s[1] = h1 /\ s[2] = h2 /\ s[3] = h3 /\ s[4] = h4 /\ Value(m.n, s[5]) = m.val

LEMMA BlockIs ==
    ASSUME NEW m \in Messages, NEW h1 \in Int, NEW h2 \in Int, NEW h3 \in Int, NEW h4 \in Int,
           NEW s, Block(s, m, h1, h2, h3, h4)
    PROVE  Blocked(s, m, h1, h2, h3, h4)
<1>1. PICK h \in Seq(Int) : h = << h1, h2, h3, h4 >> /\ Len(h) = 4
  <2>1. << h1, h2, h3, h4 >> \in Seq(Int) /\ Len(<< h1, h2, h3, h4 >>) = 4
    OBVIOUS
  <2>2. QED
    BY <2>1
<1>2. h[1] = h1 /\ h[2] = h2 /\ h[3] = h3 /\ h[4] = h4
  BY <1>1
<1>3. PICK d \in Seq(Int), z \in {6, 8} : d = DataWords(m) /\ z = Size(m) /\ Len(d) = z - 4 /\ Value(m.n, d[1]) = m.val
  BY DataWordsAre, SizeIs
<1>4. s = Joined(h, d)
  BY <1>1, <1>3 DEF Joined, Block
<1>5. s \in Seq(Int) /\ Len(s) = z /\ \A k \in 1 .. z : s[k] = IF k <= 4 THEN h[k] ELSE d[k - 4]
  <2>1. /\ Joined(h, d) \in Seq(Int) /\ Len(Joined(h, d)) = Len(h) + Len(d)
        /\ \A k \in 1 .. Len(h) + Len(d) : Joined(h, d)[k] = IF k <= Len(h) THEN h[k] ELSE d[k - Len(h)]
    BY JoinedElements
  <2>2. Len(h) + Len(d) = z
    BY <1>1, <1>3
  <2>3. QED
    BY <1>1, <1>4, <2>1, <2>2
<1>6. s[1] = h[1] /\ s[2] = h[2] /\ s[3] = h[3] /\ s[4] = h[4] /\ s[5] = d[1]
  <2>1. 1 \in 1 .. z /\ 2 \in 1 .. z /\ 3 \in 1 .. z /\ 4 \in 1 .. z /\ 5 \in 1 .. z
    OBVIOUS
  <2>2. QED
    BY <1>5, <2>1
<1>7. QED
  BY <1>2, <1>3, <1>5, <1>6 DEF Blocked

(* A sequence for each message, as long as it. *)
Sized(ss, msgs) == Len(ss) = Len(msgs) /\ \A i \in 1 .. Len(msgs) : Len(ss[i]) = Size(msgs[i])

(* A buffer has the sequences at the places of the messages. *)
Laid(buf, b, msgs, ss) ==
    /\ Places(b, msgs, Len(msgs)) /\ buf \in Seq(Int) /\ Len(buf) = b[Len(msgs)]
    /\ \A i \in 1 .. Len(msgs) : \A j \in 1 .. Size(msgs[i]) : buf[b[i - 1] + j] = ss[i][j]

(* Blocks one behind the other are where their places are. *)
LEMMA BlocksPlaced ==
    ASSUME NEW msgs \in Seq(Messages), NEW ss \in Seq(Seq(Int)), Sized(ss, msgs),
           NEW buf \in {FlattenSeq(ss)}
    PROVE  \E b : Laid(buf, b, msgs, ss)
<1>1. PICK K \in Nat : K = Len(msgs) /\ \A i \in 1 .. K : msgs[i] \in Messages
  BY LenProperties
<1>2. PICK z : z = [i \in 1 .. K |-> Size(msgs[i])]
  OBVIOUS
<1>3. PICK b : Places(b, msgs, K) /\ \A k \in 0 .. K : b[k] = UpTo(z, k)
  BY <1>1, <1>2, PlacesExist
<1>4. Lens(ss) = z
  BY <1>1, <1>2 DEF Lens, Sized
<1>5. /\ buf \in Seq(Int) /\ Len(buf) = UpTo(z, K)
      /\ \A i \in 1 .. K : \A j \in 1 .. Len(ss[i]) : buf[UpTo(z, i - 1) + j] = ss[i][j]
  BY <1>1, <1>4, FlattenPlaces DEF Sized
<1>6. Len(buf) = b[K]
  BY <1>3, <1>5
<1>7. ASSUME NEW i \in 1 .. K, NEW j \in 1 .. Size(msgs[i]) PROVE buf[b[i - 1] + j] = ss[i][j]
  <2>1. i - 1 \in 0 .. K /\ j \in 1 .. Len(ss[i])
    BY <1>1 DEF Sized
  <2>2. b[i - 1] = UpTo(z, i - 1)
    BY <1>3, <2>1
  <2>3. QED
    BY <1>5, <2>1, <2>2
<1>8. QED
  BY <1>1, <1>3, <1>5, <1>6, <1>7 DEF Laid

LEMMA LinuxControlIs ==
    ASSUME NEW msgs \in Seq(Messages), NEW buf, buf = LinuxControl(msgs)
    PROVE  \E b : /\ Places(b, msgs, Len(msgs)) /\ buf \in Seq(Int) /\ Len(buf) = b[Len(msgs)]
                  /\ \A i \in 1 .. Len(msgs) : LinuxAt(buf, b[i - 1], msgs[i])
<1>1. PICK K \in Nat : K = Len(msgs) /\ DOMAIN msgs = 1 .. K /\ \A i \in 1 .. K : msgs[i] \in Messages
  BY LenProperties
<1>2. PICK ss : ss = [i \in 1 .. K |-> << CMSG_LEN(msgs[i].n), 0, msgs[i].level, msgs[i].type >> \o DataWords(msgs[i])]
  OBVIOUS
<1>3. ASSUME NEW i \in 1 .. K
      PROVE  /\ ss[i] \in Seq(Int) /\ Len(ss[i]) = Size(msgs[i])
             /\ ss[i][1] = CMSG_LEN(msgs[i].n) /\ ss[i][2] = 0 /\ ss[i][3] = msgs[i].level
             /\ ss[i][4] = msgs[i].type /\ Value(msgs[i].n, ss[i][5]) = msgs[i].val
  <2>1. PICK m \in Messages : m = msgs[i]
    BY <1>1
  <2>2. PICK len \in Int, level \in Int, type \in Int : len = CMSG_LEN(m.n) /\ level = m.level /\ type = m.type
    BY FieldsAre, SizeIs DEF MessageFields
  <2>3. PICK s : s = ss[i] /\ Block(s, m, len, 0, level, type)
    BY <1>2, <2>1, <2>2 DEF Block
  <2>4. /\ s \in Seq(Int) /\ Len(s) = Size(m)
        /\ s[1] = len /\ s[2] = 0 /\ s[3] = level /\ s[4] = type /\ Value(m.n, s[5]) = m.val
    <3>1. 0 \in Int
      OBVIOUS
    <3>2. Blocked(s, m, len, 0, level, type)
      BY <2>3, <3>1, BlockIs
    <3>3. QED
      BY <3>2 DEF Blocked
  <2>5. QED
    BY <2>1, <2>2, <2>3, <2>4
<1>4. ss \in Seq(Seq(Int)) /\ Len(ss) = K
  BY <1>2, <1>3
<1>5. buf = FlattenSeq(ss)
  BY <1>1, <1>2, Zenon DEF LinuxControl
<1>6. PICK b : /\ Places(b, msgs, K) /\ buf \in Seq(Int) /\ Len(buf) = b[K]
               /\ \A i \in 1 .. K : \A j \in 1 .. Size(msgs[i]) : buf[b[i - 1] + j] = ss[i][j]
  <2>1. Sized(ss, msgs)
    BY <1>1, <1>3, <1>4 DEF Sized
  <2>2. \E b : Laid(buf, b, msgs, ss)
    BY <1>4, <1>5, <2>1, BlocksPlaced, Zenon
  <2>3. QED
    BY <1>1, <2>2 DEF Laid
<1>7. ASSUME NEW i \in 1 .. K PROVE LinuxAt(buf, b[i - 1], msgs[i])
  <2>1. \A j \in 1 .. 5 : j \in 1 .. Size(msgs[i])
    BY <1>1, SizeIs
  <2>2. \A j \in 1 .. 5 : buf[b[i - 1] + j] = ss[i][j]
    BY <1>6, <2>1
  <2>3. QED
    BY <1>3, <2>2 DEF LinuxAt
<1>8. QED
  BY <1>1, <1>6, <1>7

LEMMA FreebsdControlIs ==
    ASSUME NEW msgs \in Seq(Messages), NEW buf, buf = FreebsdControl(msgs)
    PROVE  \E b : /\ Places(b, msgs, Len(msgs)) /\ buf \in Seq(Int) /\ Len(buf) = b[Len(msgs)]
                  /\ \A i \in 1 .. Len(msgs) : FreebsdAt(buf, b[i - 1], msgs[i])
<1>1. PICK K \in Nat : K = Len(msgs) /\ DOMAIN msgs = 1 .. K /\ \A i \in 1 .. K : msgs[i] \in Messages
  BY LenProperties
<1>2. PICK ss : ss = [i \in 1 .. K |-> << CMSG_LEN(msgs[i].n), msgs[i].level, msgs[i].type, Padding >> \o DataWords(msgs[i])]
  OBVIOUS
<1>3. ASSUME NEW i \in 1 .. K
      PROVE  /\ ss[i] \in Seq(Int) /\ Len(ss[i]) = Size(msgs[i])
             /\ ss[i][1] = CMSG_LEN(msgs[i].n) /\ ss[i][2] = msgs[i].level /\ ss[i][3] = msgs[i].type
             /\ Value(msgs[i].n, ss[i][5]) = msgs[i].val
  <2>1. PICK m \in Messages : m = msgs[i]
    BY <1>1
  <2>2. PICK len \in Int, level \in Int, type \in Int : len = CMSG_LEN(m.n) /\ level = m.level /\ type = m.type
    BY FieldsAre, SizeIs DEF MessageFields
  <2>3. PICK s : s = ss[i] /\ Block(s, m, len, level, type, Padding)
    BY <1>2, <2>1, <2>2 DEF Block
  <2>4. /\ s \in Seq(Int) /\ Len(s) = Size(m)
        /\ s[1] = len /\ s[2] = level /\ s[3] = type /\ Value(m.n, s[5]) = m.val
    <3>1. Padding \in Int
      BY DEF Padding
    <3>2. Blocked(s, m, len, level, type, Padding)
      BY <2>3, <3>1, BlockIs
    <3>3. QED
      BY <3>2 DEF Blocked
  <2>5. QED
    BY <2>1, <2>2, <2>3, <2>4
<1>4. ss \in Seq(Seq(Int)) /\ Len(ss) = K
  BY <1>2, <1>3
<1>5. buf = FlattenSeq(ss)
  BY <1>1, <1>2, Zenon DEF FreebsdControl
<1>6. PICK b : /\ Places(b, msgs, K) /\ buf \in Seq(Int) /\ Len(buf) = b[K]
               /\ \A i \in 1 .. K : \A j \in 1 .. Size(msgs[i]) : buf[b[i - 1] + j] = ss[i][j]
  <2>1. Sized(ss, msgs)
    BY <1>1, <1>3, <1>4 DEF Sized
  <2>2. \E b : Laid(buf, b, msgs, ss)
    BY <1>4, <1>5, <2>1, BlocksPlaced, Zenon
  <2>3. QED
    BY <1>1, <2>2 DEF Laid
<1>7. ASSUME NEW i \in 1 .. K PROVE FreebsdAt(buf, b[i - 1], msgs[i])
  <2>1. \A j \in 1 .. 5 : j \in 1 .. Size(msgs[i])
    BY <1>1, SizeIs
  <2>2. \A j \in 1 .. 5 : buf[b[i - 1] + j] = ss[i][j]
    BY <1>6, <2>1
  <2>3. QED
    BY <1>3, <2>2 DEF FreebsdAt
<1>8. QED
  BY <1>1, <1>6, <1>7

(* The types of the messages that are rewritten. *)
LEMMA IpNumbers == IP_TOS = 3 /\ IP_TTL = 4 /\ IP_RECVTTL = 65 /\ IP_RECVTOS = 68
<1>1. TwoWay(IpCases)
  BY DEF TwoWay, IpCases
<1>2. /\ << 1, 3 >> \in IpCases /\ << 2, 4 >> \in IpCases
      /\ << 12, 65 >> \in IpCases /\ << 13, 68 >> \in IpCases
  BY DEF IpCases
<1>3. QED
  BY <1>1, <1>2, SwitchAnswers DEF IP_TOS, IP_TTL, IP_RECVTTL, IP_RECVTOS, IpTable

(* A message with another type and length. *)
Changed(r, m, type, n) == r.level = m.level /\ r.type = type /\ r.n = n /\ r.val = m.val

LEMMA ReceivedIs ==
    ASSUME NEW m \in FromFreebsd
    PROVE  /\ m \in Messages /\ Received(m) \in Messages /\ Size(Received(m)) = Size(m)
           /\ m.level = 0 /\ m.type = 68 => m.n = 1 /\ Changed(Received(m), m, 1, 1)
           /\ m.level = 0 /\ m.type = 65 => m.n = 1 /\ Changed(Received(m), m, 2, 4)
           /\ ~ (m.level = 0 /\ m.type \in {65, 68}) => Changed(Received(m), m, m.type, m.n)
<1>1. m \in Messages /\ (m.level = 0 /\ m.type \in {65, 68} => m.n = 1)
  BY IpNumbers DEF FromFreebsd, IPPROTO_IP
<1>2. MessageFields(m) /\ m = [level |-> m.level, type |-> m.type, n |-> m.n, val |-> m.val]
  BY <1>1, FieldsAre
<1>3. CASE m.level = 0 /\ m.type = 68
  <2>1. Received(m) = [m EXCEPT !.type = 1]
    BY <1>3, IpNumbers DEF Received, IPPROTO_IP, LINUX_IP_TOS
  <2>2. Received(m) = [level |-> m.level, type |-> 1, n |-> m.n, val |-> m.val]
    BY <1>2, <2>1
  <2>3. QED
    BY <1>1, <1>2, <1>3, <2>2 DEF Messages, MessageFields, Changed, Size
<1>4. CASE m.level = 0 /\ m.type = 65
  <2>1. Received(m) = [m EXCEPT !.type = 2, !.n = 4]
    BY <1>4, IpNumbers DEF Received, IPPROTO_IP, LINUX_IP_TTL
  <2>2. Received(m) = [level |-> m.level, type |-> 2, n |-> 4, val |-> m.val]
    BY <1>2, <2>1
  <2>3. QED
    BY <1>1, <1>2, <1>4, <2>2 DEF Messages, MessageFields, Changed, Size
<1>5. CASE ~ (m.level = 0 /\ m.type \in {65, 68})
  <2>1. Received(m) = m
    BY <1>5, IpNumbers DEF Received, IPPROTO_IP
  <2>2. QED
    BY <1>1, <1>5, <2>1 DEF Changed
<1>6. QED
  BY <1>3, <1>4, <1>5

LEMMA SentIs ==
    ASSUME NEW m \in FromLinux
    PROVE  /\ m \in Messages /\ Sent(m) \in Messages /\ Size(Sent(m)) = Size(m)
           /\ m.level = 0 /\ m.type = 1 => m.n \in {1, 4} /\ Changed(Sent(m), m, 3, 1)
           /\ m.level = 0 /\ m.type = 2 => m.n = 4 /\ Changed(Sent(m), m, 4, 1)
           /\ ~ (m.level = 0 /\ m.type \in {1, 2}) => Changed(Sent(m), m, m.type, m.n)
<1>1. m \in Messages /\ (m.level = 0 /\ m.type = 1 => m.n # 16) /\ (m.level = 0 /\ m.type = 2 => m.n = 4)
  BY DEF FromLinux, IPPROTO_IP, LINUX_IP_TOS, LINUX_IP_TTL
<1>2. MessageFields(m) /\ m = [level |-> m.level, type |-> m.type, n |-> m.n, val |-> m.val]
  BY <1>1, FieldsAre
<1>3. CASE m.level = 0 /\ m.type = 1
  <2>1. Sent(m) = [m EXCEPT !.type = 3, !.n = 1]
    BY <1>3, IpNumbers DEF Sent, IPPROTO_IP, LINUX_IP_TOS, LINUX_IP_TTL
  <2>2. Sent(m) = [level |-> m.level, type |-> 3, n |-> 1, val |-> m.val]
    BY <1>2, <2>1
  <2>3. m.n \in {1, 4}
    BY <1>1, <1>2, <1>3 DEF MessageFields
  <2>4. QED
    BY <1>1, <1>2, <1>3, <2>2, <2>3 DEF Messages, MessageFields, Changed, Size
<1>4. CASE m.level = 0 /\ m.type = 2
  <2>1. Sent(m) = [m EXCEPT !.type = 4, !.n = 1]
    BY <1>4, IpNumbers DEF Sent, IPPROTO_IP, LINUX_IP_TOS, LINUX_IP_TTL
  <2>2. Sent(m) = [level |-> m.level, type |-> 4, n |-> 1, val |-> m.val]
    BY <1>2, <2>1
  <2>3. QED
    BY <1>1, <1>2, <1>4, <2>2 DEF Messages, MessageFields, Changed, Size
<1>5. CASE ~ (m.level = 0 /\ m.type \in {1, 2})
  <2>1. Sent(m) = m
    BY <1>5 DEF Sent, IPPROTO_IP, LINUX_IP_TOS, LINUX_IP_TTL
  <2>2. QED
    BY <1>1, <1>5, <2>1 DEF Changed
<1>6. QED
  BY <1>3, <1>4, <1>5

(* A buffer of N words. *)
Buffer(mem, N) == mem \in [1 .. N -> Int]

(* The words after p, for z, may have changed. *)
Rewritten(r, mem, p, z, N) == Buffer(r, N) /\ \A i \in 1 .. N : i <= p \/ p + z < i => r[i] = mem[i]

(* The words of a header and the first of the data. *)
Spread(D, a, b, c, d, e) ==
    /\ a \in D /\ b \in D /\ c \in D /\ d \in D /\ e \in D
    /\ a # b /\ a # c /\ a # d /\ a # e /\ b # c /\ b # d /\ b # e /\ c # d /\ c # e /\ d # e

Words(p, D, a, b, c, d, e) ==
    /\ Spread(D, a, b, c, d, e)
    /\ a = p + 1 /\ b = p + 2 /\ c = p + 3 /\ d = p + 4 /\ e = p + 5
    /\ a + 1 = b /\ a + 2 = c /\ a + 3 = d /\ a + 4 = e
    /\ \A i \in D : i <= p \/ p + 5 < i <=> i # a /\ i # b /\ i # c /\ i # d /\ i # e

LEMMA HasWords ==
    ASSUME NEW N \in Nat, NEW p \in Nat, p + 6 <= N
    PROVE  \E a, b, c, d, e : Words(p, 1 .. N, a, b, c, d, e)
<1>1. Words(p, 1 .. N, p + 1, p + 2, p + 3, p + 4, p + 5)
  BY DEF Words, Spread
<1>2. QED
  BY <1>1

(* Two words written. *)
Put(g, f, D, a, v, b, w) ==
    f \in [D -> Int] /\ a \in D /\ b \in D /\ a # b /\ v \in Int /\ w \in Int /\ g = [f EXCEPT ![a] = v, ![b] = w]

LEMMA Puts ==
    ASSUME NEW D, NEW f, NEW g, NEW a, NEW v, NEW b, NEW w, Put(g, f, D, a, v, b, w)
    PROVE  g \in [D -> Int] /\ g[a] = v /\ g[b] = w /\ \A i \in D : i # a /\ i # b => g[i] = f[i]
BY DEF Put

NewHeader(c, mem, D, x0, x1, x2, x3) ==
    /\ c \in [D -> Int] /\ c[x0] = mem[x0] /\ c[x1] = 0 /\ c[x2] = mem[x1] /\ c[x3] = mem[x2]
    /\ \A i \in D : i # x0 /\ i # x1 /\ i # x2 /\ i # x3 => c[i] = mem[i]

(* The header of a message received is rewritten where it is. *)
LEMMA HeaderRewritten ==
    ASSUME NEW D, NEW mem \in [D -> Int], NEW p,
           NEW x0, NEW x1, NEW x2, NEW x3, NEW x4, Words(p, D, x0, x1, x2, x3, x4),
           NEW c, c = CopyHeader(mem, x0, x0)
    PROVE  NewHeader(c, mem, D, x0, x1, x2, x3)
<1>1. /\ x0 \in D /\ x1 \in D /\ x2 \in D /\ x3 \in D
      /\ x0 # x1 /\ x0 # x2 /\ x0 # x3 /\ x1 # x2 /\ x1 # x3 /\ x2 # x3
  BY DEF Words, Spread
<1>2. x0 + 1 = x1 /\ x0 + 2 = x2 /\ x0 + 3 = x3
  BY DEF Words
<1>3. PICK m1 : m1 = [mem EXCEPT ![x3] = mem[x2]]
  OBVIOUS
<1>4. PICK m2 : m2 = [m1 EXCEPT ![x2] = m1[x1]]
  OBVIOUS
<1>5. c = [m2 EXCEPT ![x0] = CMSG_LEN(m2[x0] - 16), ![x1] = 0]
  BY <1>2, <1>3, <1>4, Zenon DEF CopyHeader
<1>6. m1 \in [D -> Int] /\ m1[x3] = mem[x2] /\ \A i \in D : i # x3 => m1[i] = mem[i]
  BY <1>1, <1>3
<1>7. m2 \in [D -> Int] /\ m2[x2] = m1[x1] /\ \A i \in D : i # x2 => m2[i] = m1[i]
  BY <1>1, <1>4, <1>6
<1>8. PICK v \in Int : v = m2[x0] /\ c = [m2 EXCEPT ![x0] = v, ![x1] = 0]
  <2>1. PICK v \in Int : v = m2[x0]
    BY <1>1, <1>7
  <2>2. CMSG_LEN(v - 16) = v
    BY DEF CMSG_LEN
  <2>3. QED
    BY <1>5, <2>1, <2>2
<1>9. Put(c, m2, D, x0, v, x1, 0)
  BY <1>1, <1>7, <1>8 DEF Put
<1>10. c \in [D -> Int] /\ c[x0] = v /\ c[x1] = 0 /\ \A i \in D : i # x0 /\ i # x1 => c[i] = m2[i]
  BY <1>9, Puts
<1>11. QED
  BY <1>1, <1>6, <1>7, <1>8, <1>10 DEF NewHeader

(* The turn of recvmsg: FreeBSD's message becomes Linux's where it is. *)
LEMMA RecvOne ==
    ASSUME NEW N \in Nat, NEW mem, Buffer(mem, N), NEW p \in Nat, p + 6 <= N,
           NEW m \in FromFreebsd, FreebsdAt(mem, p, m),
           NEW r, r = RecvValue(CopyHeader(mem, p + 1, p + 1), p + 1, p + 1)
    PROVE  Rewritten(r, mem, p, 5, N) /\ LinuxAt(r, p, Received(m))
<1>1. PICK D, x0, x1, x2, x3, x4 : D = 1 .. N /\ Words(p, D, x0, x1, x2, x3, x4)
  BY HasWords
<1>2. PICK c : c = CopyHeader(mem, x0, x0) /\ r = RecvValue(c, x0, x0)
  BY <1>1 DEF Words
<1>3. /\ c \in [D -> Int] /\ c[x0] = mem[x0] /\ c[x1] = 0 /\ c[x2] = mem[x1] /\ c[x3] = mem[x2]
      /\ \A i \in D : i # x0 /\ i # x1 /\ i # x2 /\ i # x3 => c[i] = mem[i]
  <2>1. mem \in [D -> Int]
    BY <1>1 DEF Buffer
  <2>2. NewHeader(c, mem, D, x0, x1, x2, x3)
    BY <1>1, <1>2, <2>1, HeaderRewritten
  <2>3. QED
    BY <2>2 DEF NewHeader
<1>4. mem[x0] = CMSG_LEN(m.n) /\ mem[x1] = m.level /\ mem[x2] = m.type /\ Value(m.n, mem[x4]) = m.val
  BY <1>1 DEF FreebsdAt, Words
<1>5. /\ x0 \in D /\ x1 \in D /\ x2 \in D /\ x3 \in D /\ x4 \in D
      /\ x0 # x1 /\ x0 # x2 /\ x0 # x3 /\ x0 # x4 /\ x1 # x2 /\ x1 # x3 /\ x1 # x4 /\ x2 # x3 /\ x2 # x4 /\ x3 # x4
  BY <1>1 DEF Words, Spread
<1>6. PICK w \in Int : w = mem[x4] /\ w = c[x4]
  BY <1>3, <1>5
<1>7. m.val \in Int
  BY ReceivedIs, FieldsAre DEF MessageFields
<1>8. x0 + 1 = x1 /\ x0 + 2 = x2 /\ x0 + 3 = x3 /\ x0 + 4 = x4
  BY <1>1 DEF Words
<1> DEFINE Right == /\ r \in [D -> Int]
                    /\ \A i \in D : i # x0 /\ i # x1 /\ i # x2 /\ i # x3 /\ i # x4 => r[i] = c[i]
                    /\ r[x0] = CMSG_LEN(Received(m).n) /\ r[x1] = 0 /\ r[x2] = Received(m).level
                    /\ r[x3] = Received(m).type /\ Value(Received(m).n, r[x4]) = Received(m).val
<1>9. SUFFICES Right
  <2>1. LinuxAt(r, p, Received(m))
    BY <1>1, <1>9 DEF LinuxAt, Words
  <2>2. \A i \in D : i <= p \/ p + 5 < i => i # x0 /\ i # x1 /\ i # x2 /\ i # x3 /\ i # x4
    BY <1>1 DEF Words
  <2>3. \A i \in D : i <= p \/ p + 5 < i => r[i] = mem[i]
    BY <1>3, <1>9, <2>2
  <2>4. QED
    BY <1>1, <1>9, <2>1, <2>3 DEF Rewritten, Buffer
<1>10. CASE m.level = 0 /\ m.type = 68
  <2>1. c[x2] = 0 /\ c[x3] = 68
    BY <1>3, <1>4, <1>10
  <2>2. r = [c EXCEPT ![x3] = 1, ![x4] = PutByte(w, w)]
    BY <1>2, <1>6, <1>8, <2>1, IpNumbers DEF RecvValue, IPPROTO_IP, LINUX_IP_TOS
  <2>3. r = [c EXCEPT ![x3] = 1, ![x4] = w]
    BY <2>2, Bytes
  <2>4. r \in [D -> Int] /\ r[x3] = 1 /\ r[x4] = w /\ \A i \in D : i # x3 /\ i # x4 => r[i] = c[i]
    <3>1. Put(r, c, D, x3, 1, x4, w)
      <4>1. c \in [D -> Int] /\ x3 \in D /\ x4 \in D /\ x3 # x4 /\ w \in Int /\ 1 \in Int
        BY <1>3, <1>5
      <4>2. QED
        BY <2>3, <4>1, Zenon DEF Put
    <3>2. QED
      BY <3>1, Puts
  <2>5. r[x0] = c[x0] /\ r[x1] = c[x1] /\ r[x2] = c[x2]
    BY <1>5, <2>4
  <2>6. m.n = 1 /\ Changed(Received(m), m, 1, 1)
    BY <1>10, ReceivedIs
  <2>7. Value(Received(m).n, r[x4]) = Received(m).val
    BY <1>4, <1>6, <2>4, <2>6 DEF Changed
  <2>8. QED
    BY <1>3, <1>4, <2>4, <2>5, <2>6, <2>7 DEF Changed
<1>11. CASE m.level = 0 /\ m.type = 65
  <2>1. c[x2] = 0 /\ c[x3] = 65
    BY <1>3, <1>4, <1>11
  <2>2. m.n = 1 /\ Changed(Received(m), m, 2, 4)
    BY <1>11, ReceivedIs
  <2>3. PICK v \in Int : v = m.val /\ v = LowByte(w)
    <3>1. Value(1, w) = m.val
      BY <1>4, <1>6, <2>2
    <3>2. QED
      BY <1>7, <3>1 DEF Value
  <2>4. PICK h : h = [c EXCEPT ![x0] = 20, ![x1] = 0] /\ r = [h EXCEPT ![x3] = 2, ![x4] = v]
    <3>1. IP_RECVTOS # 65 /\ IP_RECVTTL = 65 /\ CMSG_LEN(4) = 20
      BY IpNumbers DEF CMSG_LEN
    <3>2. r = [c EXCEPT ![x0] = 20, ![x1] = 0, ![x3] = 2, ![x4] = v]
      BY <1>2, <1>6, <1>8, <2>1, <2>3, <3>1 DEF RecvValue, IPPROTO_IP, LINUX_IP_TTL
    <3>3. QED
      BY <3>2
  <2>5. Put(h, c, D, x0, 20, x1, 0)
    BY <1>3, <1>5, <2>4 DEF Put
  <2>6. h \in [D -> Int] /\ h[x0] = 20 /\ h[x1] = 0 /\ \A i \in D : i # x0 /\ i # x1 => h[i] = c[i]
    BY <2>5, Puts
  <2>7. Put(r, h, D, x3, 2, x4, v)
    <3>1. h \in [D -> Int] /\ x3 \in D /\ x4 \in D /\ x3 # x4 /\ v \in Int /\ 2 \in Int
      BY <1>5, <2>6
    <3>2. QED
      BY <2>4, <3>1, Zenon DEF Put
  <2>8. r \in [D -> Int] /\ r[x3] = 2 /\ r[x4] = v /\ \A i \in D : i # x3 /\ i # x4 => r[i] = h[i]
    BY <2>7, Puts
  <2>9. /\ r[x0] = 20 /\ r[x1] = 0 /\ r[x2] = m.level
        /\ \A i \in D : i # x0 /\ i # x1 /\ i # x3 /\ i # x4 => r[i] = c[i]
    BY <1>3, <1>4, <1>5, <2>6, <2>8
  <2>10. Value(4, r[x4]) = m.val /\ CMSG_LEN(4) = 20
    BY <2>3, <2>8 DEF Value, CMSG_LEN
  <2>11. QED
    BY <2>2, <2>8, <2>9, <2>10 DEF Changed
<1>12. CASE ~ (m.level = 0 /\ m.type \in {65, 68})
  <2>1. r = c
    BY <1>2, <1>3, <1>4, <1>8, <1>12, IpNumbers DEF RecvValue, IPPROTO_IP
  <2>2. Changed(Received(m), m, m.type, m.n)
    BY <1>12, ReceivedIs
  <2>3. QED
    BY <1>3, <1>4, <1>6, <2>1, <2>2 DEF Changed
<1>13. QED
  BY <1>10, <1>11, <1>12

(* What is elsewhere in the buffer stays. *)
LEMMA KeptAt ==
    ASSUME NEW N \in Nat, NEW mem, NEW r, NEW p \in Nat, NEW z \in Nat, Rewritten(r, mem, p, z, N),
           NEW o \in Nat, o + 6 <= N, o + 6 <= p \/ p + z <= o, NEW m
    PROVE  (LinuxAt(mem, o, m) => LinuxAt(r, o, m)) /\ (FreebsdAt(mem, o, m) => FreebsdAt(r, o, m))
<1>1. \A i \in 1 .. N : i <= p \/ p + z < i => r[i] = mem[i]
  BY DEF Rewritten
<1>2. ASSUME NEW j \in 1 .. 5 PROVE r[o + j] = mem[o + j]
  <2>1. o + j \in 1 .. N /\ (o + j <= p \/ p + z < o + j)
    OBVIOUS
  <2>2. QED
    BY <1>1, <2>1
<1>3. /\ r[o + 1] = mem[o + 1] /\ r[o + 2] = mem[o + 2] /\ r[o + 3] = mem[o + 3]
      /\ r[o + 4] = mem[o + 4] /\ r[o + 5] = mem[o + 5]
  BY <1>2
<1>4. QED
  BY <1>3 DEF LinuxAt, FreebsdAt

(* Messages in their places do not overlap. *)
LEMMA Apart ==
    ASSUME NEW msgs, NEW K \in Nat, NEW b, Places(b, msgs, K), NEW i \in 1 .. K, NEW j \in 1 .. K
    PROVE  /\ b[i - 1] \in Nat /\ b[i - 1] + 6 <= b[K] /\ b[K] \in Nat
           /\ i # j => b[i - 1] + 6 <= b[j - 1] \/ b[j - 1] + 6 <= b[i - 1]
           /\ i < j => b[i - 1] + Size(msgs[i]) <= b[j - 1]
           /\ b[i - 1] + Size(msgs[i]) <= b[K]
<1>1. i - 1 \in 0 .. K /\ j - 1 \in 0 .. K /\ K \in 0 .. K /\ i - 1 < K /\ i \in 0 .. K
  OBVIOUS
<1>2. (\A k \in 0 .. K : b[k] \in Nat) /\ \A h, k \in 0 .. K : h < k => b[h] + 6 <= b[k]
  BY DEF Places
<1>3. i # j => i - 1 < j - 1 \/ j - 1 < i - 1
  OBVIOUS
<1>4. b[i] = b[i - 1] + Size(msgs[i])
  BY DEF Places
<1>5. i < j => i = j - 1 \/ i < j - 1
  OBVIOUS
<1>6. i < j => b[i] <= b[j - 1]
  BY <1>1, <1>2, <1>5
<1>7. b[i] <= b[K]
  BY <1>1, <1>2
<1>8. QED
  BY <1>1, <1>2, <1>3, <1>4, <1>6, <1>7

(* The messages of recvmsg after k turns: the first k are Linux's. *)
RecvMessages(mem, b, msgs, k) ==
    \A i \in 1 .. Len(msgs) : IF i <= k THEN LinuxAt(mem, b[i - 1], Received(msgs[i])) ELSE FreebsdAt(mem, b[i - 1], msgs[i])

RecvState(s, b, msgs, N, k) ==
    /\ s = [mem |-> s.mem, l |-> s.l, f |-> s.f] /\ Buffer(s.mem, N) /\ s.l \in Int
    /\ RecvMessages(s.mem, b, msgs, k)
    /\ s.f = IF k < Len(msgs) THEN 4 * b[k] ELSE NoHdr
    /\ k < Len(msgs) => s.l = 4 * b[k]

(* The place after message k + 1, and where the cursors go. *)
LEMMA NextPlace ==
    ASSUME NEW msgs, NEW K \in Nat, NEW b, Places(b, msgs, K), NEW k \in 0 .. K - 1,
           NEW m \in Messages, Size(m) = Size(msgs[k + 1]), NEW n, n = CMSG_LEN(m.n), NEW N \in Nat, b[K] <= N
    PROVE  /\ CMSG_NXTHDR(4 * b[k], n, 4 * b[K]) = IF k + 1 < K THEN 4 * b[k + 1] ELSE NoHdr
           /\ CMSG_NXTHDR(4 * b[k], n, 4 * N) \in Int
           /\ k + 1 < K => CMSG_NXTHDR(4 * b[k], n, 4 * N) = 4 * b[k + 1]
<1>1. PICK p \in Nat, z \in {6, 8}, e \in Nat, q \in Nat :
        p = b[k] /\ z = Size(m) /\ e = b[k + 1] /\ e = p + z /\ q = b[K] /\ (k + 1 < K => e + 6 <= q) /\ (k + 1 = K => e = q)
  <2>1. k \in 0 .. K /\ k + 1 \in 1 .. K /\ k + 1 \in 0 .. K /\ K \in 0 .. K /\ (k + 1) - 1 = k
    OBVIOUS
  <2>2. b[k] \in Nat /\ b[k + 1] \in Nat /\ b[K] \in Nat /\ (k + 1 < K => b[k + 1] + 6 <= b[K])
    BY <2>1 DEF Places
  <2>3. b[k + 1] = b[k] + Size(msgs[k + 1])
    BY <2>1 DEF Places
  <2>4. Size(m) \in {6, 8}
    BY SizeIs
  <2>5. QED
    BY <2>2, <2>3, <2>4
<1>2. CMSG_NXTHDR(4 * p, n, 4 * q) = IF p + Size(m) + 4 > q THEN NoHdr ELSE 4 * (p + Size(m))
  BY NextHdr
<1>3. CMSG_NXTHDR(4 * p, n, 4 * N) = IF p + Size(m) + 4 > N THEN NoHdr ELSE 4 * (p + Size(m))
  BY NextHdr
<1>4. CMSG_NXTHDR(4 * p, n, 4 * q) = IF k + 1 < K THEN 4 * e ELSE NoHdr
  BY <1>1, <1>2
<1>5. CMSG_NXTHDR(4 * p, n, 4 * N) \in Int /\ (k + 1 < K => CMSG_NXTHDR(4 * p, n, 4 * N) = 4 * e)
  BY <1>1, <1>3 DEF NoHdr
<1>6. QED
  BY <1>1, <1>4, <1>5

LEMMA RecvStep ==
    ASSUME NEW msgs \in Seq(FromFreebsd), NEW b, Places(b, msgs, Len(msgs)), NEW N \in Nat, b[Len(msgs)] <= N,
           NEW k \in 0 .. Len(msgs), NEW s, RecvState(s, b, msgs, N, k),
           NEW t, t = RecvTurn(s, 4 * N, 4 * b[Len(msgs)])
    PROVE  RecvState(t, b, msgs, N, IF k < Len(msgs) THEN k + 1 ELSE k)
<1>1. PICK K \in Nat : K = Len(msgs) /\ \A i \in 1 .. K : msgs[i] \in FromFreebsd
  BY LenProperties
<1>2. CASE k = K
  <2>1. t = s
    BY <1>1, <1>2 DEF RecvTurn, RecvState
  <2>2. QED
    BY <1>1, <1>2, <2>1
<1>3. CASE k < K
  <2>1. PICK j \in 1 .. K, m \in FromFreebsd : j = k + 1 /\ j - 1 = k /\ m = msgs[j] /\ k \in 0 .. K - 1
    BY <1>1, <1>3
  <2>2. PICK p \in Nat, q \in Nat : p = b[k] /\ q = b[K] /\ p + 6 <= q /\ q <= N
    BY <1>1, <2>1, Apart
  <2>3. PICK mem : mem = s.mem /\ Buffer(mem, N) /\ RecvMessages(mem, b, msgs, k) /\ s.f = 4 * p /\ s.l = 4 * p
    BY <1>1, <1>3, <2>2 DEF RecvState
  <2>4. PICK r : r = RecvValue(CopyHeader(mem, p + 1, p + 1), p + 1, p + 1)
    OBVIOUS
  <2>5. FreebsdAt(mem, p, m)
    <3>1. IF j <= k THEN LinuxAt(mem, b[j - 1], Received(msgs[j])) ELSE FreebsdAt(mem, b[j - 1], msgs[j])
      BY <1>1, <2>3 DEF RecvMessages
    <3>2. QED
      BY <2>1, <2>2, <3>1
  <2>6. Rewritten(r, mem, p, 5, N) /\ LinuxAt(r, p, Received(m))
    <3>1. p + 6 <= N
      BY <2>2
    <3>2. QED
      BY <2>3, <2>4, <2>5, <3>1, RecvOne
  <2>7. t = [mem |-> r, l |-> CMSG_NXTHDR(4 * p, LinuxLen(r, p + 1), 4 * N), f |-> CMSG_NXTHDR(4 * p, r[p + 1], 4 * q)]
    <3>1. s.l # NoHdr /\ s.f # NoHdr /\ Word(s.l) = p + 1 /\ Word(s.f) = p + 1
      BY <2>3, WordOf
    <3>2. t = RecvTurn(s, 4 * N, 4 * q)
      BY <1>1, <2>2
    <3>3. QED
      BY <2>3, <2>4, <3>1, <3>2, Zenon DEF RecvTurn
  <2>8. PICK n \in Int : n = CMSG_LEN(Received(m).n) /\ r[p + 1] = n /\ LinuxLen(r, p + 1) = n
    <3>1. CMSG_LEN(Received(m).n) \in Int
      BY ReceivedIs, SizeIs
    <3>2. r[p + 1] = CMSG_LEN(Received(m).n) /\ r[p + 2] = 0 /\ (p + 1) + 1 = p + 2
      BY <2>6 DEF LinuxAt
    <3>3. QED
      BY <3>1, <3>2 DEF LinuxLen
  <2>9. /\ CMSG_NXTHDR(4 * p, n, 4 * q) = IF k + 1 < K THEN 4 * b[k + 1] ELSE NoHdr
        /\ CMSG_NXTHDR(4 * p, n, 4 * N) \in Int
        /\ k + 1 < K => CMSG_NXTHDR(4 * p, n, 4 * N) = 4 * b[k + 1]
    <3>1. Received(m) \in Messages /\ Size(Received(m)) = Size(msgs[k + 1])
      BY <2>1, ReceivedIs
    <3>2. Places(b, msgs, K) /\ b[K] <= N
      BY <1>1
    <3>3. PICK mm \in Messages : mm = Received(m) /\ Size(mm) = Size(msgs[k + 1]) /\ n = CMSG_LEN(mm.n)
      BY <2>8, <3>1
    <3>4. /\ CMSG_NXTHDR(4 * b[k], n, 4 * b[K]) = IF k + 1 < K THEN 4 * b[k + 1] ELSE NoHdr
          /\ CMSG_NXTHDR(4 * b[k], n, 4 * N) \in Int
          /\ k + 1 < K => CMSG_NXTHDR(4 * b[k], n, 4 * N) = 4 * b[k + 1]
      BY <2>1, <3>2, <3>3, NextPlace
    <3>5. QED
      BY <2>2, <3>4
  <2>10. RecvMessages(r, b, msgs, k + 1)
    <3>1. SUFFICES ASSUME NEW i \in 1 .. K
                   PROVE  IF i <= k + 1 THEN LinuxAt(r, b[i - 1], Received(msgs[i])) ELSE FreebsdAt(r, b[i - 1], msgs[i])
      BY <1>1 DEF RecvMessages
    <3>2. IF i <= k THEN LinuxAt(mem, b[i - 1], Received(msgs[i])) ELSE FreebsdAt(mem, b[i - 1], msgs[i])
      BY <1>1, <2>3 DEF RecvMessages
    <3>3. CASE i = j
      BY <2>1, <2>2, <2>6, <3>3
    <3>4. CASE i # j
      <4>1. PICK z \in Nat : z = 5
        OBVIOUS
      <4>2. PICK o \in Nat : o = b[i - 1] /\ o + 6 <= N /\ (o + 6 <= p \/ p + z <= o)
        <5>1. Places(b, msgs, K)
          BY <1>1
        <5>2. /\ b[i - 1] \in Nat /\ b[i - 1] + 6 <= b[K] /\ b[K] \in Nat
              /\ b[i - 1] + 6 <= b[j - 1] \/ b[j - 1] + 6 <= b[i - 1]
          BY <3>4, <5>1, Apart
        <5>3. PICK o \in Nat : o = b[i - 1] /\ o + 6 <= N /\ (o + 6 <= p \/ p + 6 <= o)
          BY <2>1, <2>2, <5>2, SMTT(60)
        <5>4. QED
          BY <4>1, <5>3
      <4>3. /\ LinuxAt(mem, o, Received(msgs[i])) => LinuxAt(r, o, Received(msgs[i]))
            /\ FreebsdAt(mem, o, msgs[i]) => FreebsdAt(r, o, msgs[i])
        <5>1. Rewritten(r, mem, p, z, N)
          BY <2>6, <4>1
        <5>2. PICK c, d : c = Received(msgs[i]) /\ d = msgs[i]
          OBVIOUS
        <5>3. o + 6 <= N /\ (o + 6 <= p \/ p + z <= o)
          BY <4>2
        <5>4. LinuxAt(mem, o, c) => LinuxAt(r, o, c)
          BY <5>1, <5>3, KeptAt
        <5>5. FreebsdAt(mem, o, d) => FreebsdAt(r, o, d)
          BY <5>1, <5>3, KeptAt
        <5>6. QED
          BY <5>2, <5>4, <5>5
      <4>4. i <= k + 1 <=> i <= k
        BY <2>1, <3>4
      <4>5. QED
        BY <3>2, <4>2, <4>3, <4>4
    <3>5. QED
      BY <3>3, <3>4
  <2>11. Buffer(r, N)
    BY <2>6 DEF Rewritten
  <2>12. RecvState(t, b, msgs, N, k + 1)
    BY <1>1, <2>7, <2>8, <2>9, <2>10, <2>11 DEF RecvState
  <2>13. QED
    BY <1>1, <1>3, <2>12
<1>4. QED
  BY <1>1, <1>2, <1>3

Least(n, K) == IF n < K THEN n ELSE K

LEMMA LeastIs ==
    ASSUME NEW n \in Nat, NEW K \in Nat
    PROVE  /\ Least(n, K) \in 0 .. K /\ Least(0, K) = 0 /\ (K <= n => Least(n, K) = K)
           /\ Least(n + 1, K) = IF Least(n, K) < K THEN Least(n, K) + 1 ELSE Least(n, K)
BY DEF Least

LEMMA FirstHdr ==
    ASSUME NEW msgs, NEW K \in Nat, NEW b, Places(b, msgs, K), NEW N \in Nat, b[K] <= N, NEW size \in {12, 16}
    PROVE  /\ CMSG_FIRSTHDR(4 * b[K], size) = IF 0 < K THEN 4 * b[0] ELSE NoHdr
           /\ CMSG_FIRSTHDR(4 * N, size) \in Int /\ (0 < K => CMSG_FIRSTHDR(4 * N, size) = 4 * b[0])
<1>1. 0 \in 0 .. K /\ K \in 0 .. K
  OBVIOUS
<1>2. PICK q \in Nat : q = b[K] /\ b[0] = 0 /\ (0 < K => 6 <= q) /\ (K = 0 => q = 0)
  BY <1>1 DEF Places
<1>3. QED
  BY <1>2 DEF CMSG_FIRSTHDR, NoHdr

(* The loop of recvmsg rewrites every message. *)
LEMMA RecvWhole ==
    ASSUME NEW msgs \in Seq(FromFreebsd), NEW b, Places(b, msgs, Len(msgs)), NEW N \in Nat, b[Len(msgs)] <= N,
           NEW buf, Buffer(buf, N), Len(buf) = N, RecvMessages(buf, b, msgs, 0),
           NEW r, r = freebsd2linux_cmsghdr(buf, 4 * N, 4 * b[Len(msgs)])
    PROVE  Buffer(r, N) /\ \A i \in 1 .. Len(msgs) : LinuxAt(r, b[i - 1], Received(msgs[i]))
<1>1. PICK K \in Nat : K = Len(msgs)
  BY LenProperties
<1>2. PICK q \in Nat : q = b[K] /\ q <= N /\ K <= q /\ \A k \in 0 .. K : b[k] \in Nat
  <2>1. Places(b, msgs, K) /\ K \in 0 .. K
    BY <1>1
  <2>2. QED
    BY <1>1, <2>1 DEF Places
<1>3. PICK first : first = [mem |-> buf, l |-> CMSG_FIRSTHDR(4 * N, 16), f |-> CMSG_FIRSTHDR(4 * q, 12)]
  OBVIOUS
<1> DEFINE Fold(g) == [n \in 0 .. N |-> IF n = 0 THEN first ELSE RecvTurn(g[n - 1], 4 * N, 4 * q)]
<1>4. PICK U : U = [mem : [1 .. N -> Int], l : Int, f : Int]
  OBVIOUS
<1>5. ASSUME NEW s, NEW k \in 0 .. K, RecvState(s, b, msgs, N, k) PROVE s \in U
  <2>1. 4 * b[k] \in Int /\ NoHdr \in Int
    BY <1>2 DEF NoHdr
  <2>2. s = [mem |-> s.mem, l |-> s.l, f |-> s.f] /\ s.mem \in [1 .. N -> Int] /\ s.l \in Int /\ s.f \in Int
    BY <1>5, <2>1 DEF RecvState, Buffer
  <2>3. QED
    BY <1>4, <2>2, Zenon
<1>6. PICK S : S = [n \in Nat |-> {s \in U : RecvState(s, b, msgs, N, Least(n, K))}]
  OBVIOUS
<1>7. ASSUME NEW n \in Nat, NEW s PROVE s \in S[n] <=> RecvState(s, b, msgs, N, Least(n, K))
  BY <1>5, <1>6, LeastIs
<1>8. ASSUME NEW n \in Nat, NEW s \in S[n] PROVE RecvTurn(s, 4 * N, 4 * q) \in S[n + 1]
  <2>1. PICK k \in 0 .. K : k = Least(n, K)
    BY LeastIs
  <2>2. PICK t : t = RecvTurn(s, 4 * N, 4 * q)
    OBVIOUS
  <2>3. RecvState(s, b, msgs, N, k)
    BY <1>7, <2>1
  <2>4. RecvState(t, b, msgs, N, IF k < Len(msgs) THEN k + 1 ELSE k)
    BY <1>1, <1>2, <2>2, <2>3, RecvStep
  <2>5. Least(n + 1, K) = IF k < K THEN k + 1 ELSE k
    BY <2>1, LeastIs
  <2>6. QED
    BY <1>1, <1>7, <2>2, <2>4, <2>5
<1>9. first \in S[0]
  <2>1. Places(b, msgs, K) /\ b[K] <= N /\ q = b[K]
    BY <1>1, <1>2
  <2>2. CMSG_FIRSTHDR(4 * b[K], 12) = IF 0 < K THEN 4 * b[0] ELSE NoHdr
    BY <2>1, FirstHdr
  <2>3. CMSG_FIRSTHDR(4 * N, 16) \in Int /\ (0 < K => CMSG_FIRSTHDR(4 * N, 16) = 4 * b[0])
    BY <2>1, FirstHdr
  <2>4. RecvState(first, b, msgs, N, 0)
    BY <1>1, <1>3, <2>1, <2>2, <2>3 DEF RecvState
  <2>5. QED
    BY <1>7, <2>4, LeastIs
<1>10. \E g : g = Fold(g)
  <2>1. PICK B : B = UNION {S[n] : n \in Nat}
    OBVIOUS
  <2>2. PICK H : H = [s \in B |-> RecvTurn(s, 4 * N, 4 * q)]
    OBVIOUS
  <2>3. Advances(H, S, B)
    BY <1>8, <2>1, <2>2 DEF Advances
  <2>4. PICK f : DOMAIN f = 0 .. N /\ f[0] = first /\ \A n \in 1 .. N : f[n - 1] \in B /\ f[n] = H[f[n - 1]]
    <3>1. PICK f : Loops(f, H, B, N, first)
      BY <1>9, <2>3, Loop
    <3>2. QED
      BY <3>1 DEF Loops
  <2>5. \E g : g = [n \in 0 .. N |-> f[n]] /\ \A n \in 0 .. N : g[n] = IF n = 0 THEN first ELSE RecvTurn(g[n - 1], 4 * N, 4 * q)
    <3>1. PICK g : g = [n \in 0 .. N |-> f[n]]
      OBVIOUS
    <3>2. ASSUME NEW n \in 0 .. N PROVE g[n] = IF n = 0 THEN first ELSE RecvTurn(g[n - 1], 4 * N, 4 * q)
      <4>1. CASE n = 0
        BY <2>4, <3>1, <4>1
      <4>2. CASE n # 0
        <5>1. n \in 1 .. N /\ n - 1 \in 0 .. N
          BY <4>2
        <5>2. f[n - 1] \in B /\ f[n] = H[f[n - 1]]
          BY <2>4, <5>1
        <5>3. f[n] = RecvTurn(f[n - 1], 4 * N, 4 * q)
          BY <2>2, <5>2
        <5>4. QED
          BY <3>1, <4>2, <5>1, <5>3
      <4>3. QED
        BY <4>1, <4>2
    <3>3. QED
      BY <3>1, <3>2
  <2>6. QED
    BY <2>5
<1>11. PICK turn : turn = CHOOSE g : g = Fold(g)
  OBVIOUS
<1>12. turn = Fold(turn)
  BY <1>10, <1>11
<1>13. r = turn[N].mem
  <2>1. Len(buf) = N /\ r = freebsd2linux_cmsghdr(buf, 4 * N, 4 * q)
    BY <1>1, <1>2
  <2>2. QED
    BY <1>3, <1>11, <2>1, Zenon DEF freebsd2linux_cmsghdr
<1>14. turn[0] = first /\ \A n \in 1 .. N : turn[n] = RecvTurn(turn[n - 1], 4 * N, 4 * q)
  <2>1. \A n \in 0 .. N : turn[n] = IF n = 0 THEN first ELSE RecvTurn(turn[n - 1], 4 * N, 4 * q)
    <3>1. PICK h : h = turn
      OBVIOUS
    <3>2. h = [n \in 0 .. N |-> IF n = 0 THEN first ELSE RecvTurn(h[n - 1], 4 * N, 4 * q)]
      BY <1>12, <3>1
    <3>3. QED
      BY <3>1, <3>2
  <2>2. QED
    BY <2>1
<1>15. turn[N] \in S[N]
  <2>1. turn[0] \in S[0]
    BY <1>9, <1>14
  <2>2. ASSUME NEW n \in 1 .. N, turn[n - 1] \in S[n - 1] PROVE turn[n] \in S[n]
    <3>1. PICK m \in Nat : m = n - 1 /\ n = m + 1
      OBVIOUS
    <3>2. RecvTurn(turn[m], 4 * N, 4 * q) \in S[m + 1]
      BY <1>8, <2>2, <3>1
    <3>3. QED
      BY <1>14, <3>1, <3>2
  <2>3. QED
    BY <2>1, <2>2, LoopStates
<1>16. PICK s : s = turn[N] /\ RecvState(s, b, msgs, N, K)
  <2>1. K <= N
    BY <1>2
  <2>2. Least(N, K) = K
    BY <2>1, LeastIs
  <2>3. QED
    BY <1>7, <1>15, <2>2
<1>17. ASSUME NEW i \in 1 .. K PROVE LinuxAt(r, b[i - 1], Received(msgs[i]))
  BY <1>1, <1>13, <1>16 DEF RecvState, RecvMessages
<1>18. QED
  BY <1>1, <1>13, <1>16, <1>17 DEF RecvState

(* A message as the side that walks a buffer lays it out. *)
At(side, mem, p, m) == IF side = "linux" THEN LinuxAt(mem, p, m) ELSE FreebsdAt(mem, p, m)

WalkState(s, b, msgs, k) ==
    /\ s = [c |-> s.c, out |-> s.out]
    /\ s.c = IF k < Len(msgs) THEN 4 * b[k] ELSE NoHdr
    /\ s.out \in Seq(Messages) /\ Len(s.out) = k /\ \A i \in 1 .. k : s.out[i] = msgs[i]

(* A header in its layout is read as the message. *)
LEMMA HeaderIs ==
    ASSUME NEW side, NEW mem, NEW p \in Nat, NEW m \in Messages, At(side, mem, p, m)
    PROVE  Header(side, mem, p + 1) = m
<1>1. PICK n \in Nat : n = m.n /\ CMSG_LEN(m.n) = 16 + n
  BY FieldsAre DEF MessageFields, CMSG_LEN
<1>2. (p + 1) + 1 = p + 2 /\ (p + 1) + 2 = p + 3 /\ (p + 1) + 4 = p + 5 /\ (p + 2) + 1 = p + 3 /\ (p + 3) + 1 = p + 4
  OBVIOUS
<1>3. m = [level |-> m.level, type |-> m.type, n |-> m.n, val |-> m.val]
  BY FieldsAre
<1>4. CASE side = "linux"
  <2>1. /\ mem[p + 1] = 16 + n /\ mem[p + 2] = 0 /\ mem[p + 3] = m.level /\ mem[p + 4] = m.type
        /\ Value(n, mem[p + 5]) = m.val
    BY <1>1, <1>4 DEF At, LinuxAt
  <2>2. LinuxLen(mem, p + 1) - 16 = n
    <3>1. LinuxLen(mem, p + 1) = mem[p + 1] + 65536 * mem[p + 2]
      BY <1>2 DEF LinuxLen
    <3>2. QED
      BY <2>1, <3>1
  <2>3. Header(side, mem, p + 1) = [level |-> mem[p + 3], type |-> mem[p + 4], n |-> n, val |-> Value(n, mem[p + 5])]
    BY <1>2, <1>4, <2>2 DEF Header
  <2>4. QED
    BY <1>1, <1>3, <2>1, <2>3
<1>5. CASE side # "linux"
  <2>1. /\ mem[p + 1] = 16 + n /\ mem[p + 2] = m.level /\ mem[p + 3] = m.type
        /\ Value(n, mem[p + 5]) = m.val
    BY <1>1, <1>5 DEF At, FreebsdAt
  <2>2. mem[p + 1] - 16 = n
    BY <2>1
  <2>3. Header(side, mem, p + 1) = [level |-> mem[p + 2], type |-> mem[p + 3], n |-> n, val |-> Value(n, mem[p + 5])]
    BY <1>2, <1>5, <2>2 DEF Header
  <2>4. QED
    BY <1>1, <1>3, <2>1, <2>3
<1>6. QED
  BY <1>4, <1>5

LEMMA WalkStep ==
    ASSUME NEW side, NEW mem, NEW msgs \in Seq(Messages), NEW b, Places(b, msgs, Len(msgs)),
           \A i \in 1 .. Len(msgs) : At(side, mem, b[i - 1], msgs[i]),
           NEW k \in 0 .. Len(msgs), NEW s, WalkState(s, b, msgs, k),
           NEW t, t = WalkTurn(s, side, mem, 4 * b[Len(msgs)])
    PROVE  WalkState(t, b, msgs, IF k < Len(msgs) THEN k + 1 ELSE k)
<1>1. PICK K \in Nat : K = Len(msgs) /\ \A i \in 1 .. K : msgs[i] \in Messages
  BY LenProperties
<1>2. CASE k = K
  <2>1. t = s
    BY <1>1, <1>2 DEF WalkTurn, WalkState
  <2>2. QED
    BY <1>1, <1>2, <2>1
<1>3. CASE k < K
  <2>1. PICK j \in 1 .. K, m \in Messages : j = k + 1 /\ j - 1 = k /\ m = msgs[j] /\ k \in 0 .. K - 1
    BY <1>1, <1>3
  <2>2. Places(b, msgs, K)
    BY <1>1
  <2>3. PICK p \in Nat, q \in Nat : p = b[k] /\ q = b[K]
    BY <2>1, <2>2, Apart
  <2>4. At(side, mem, p, m)
    BY <1>1, <2>1, <2>3
  <2>5. Header(side, mem, p + 1) = m
    BY <2>4, HeaderIs
  <2>6. s.c = 4 * p /\ Word(s.c) = p + 1 /\ s.c # NoHdr
    BY <1>1, <1>3, <2>3, WordOf DEF WalkState
  <2>7. t = WalkTurn(s, side, mem, 4 * q)
    BY <1>1, <2>3
  <2>8. t = [c |-> CMSG_NXTHDR(4 * p, CMSG_LEN(m.n), 4 * q), out |-> Append(s.out, m)]
    BY <2>5, <2>6, <2>7, Zenon DEF WalkTurn
  <2>9. CMSG_NXTHDR(4 * p, CMSG_LEN(m.n), 4 * q) = IF k + 1 < K THEN 4 * b[k + 1] ELSE NoHdr
    <3>1. Size(m) = Size(msgs[k + 1])
      BY <2>1
    <3>2. PICK N \in Nat : N = q /\ b[K] <= N
      BY <2>3
    <3>3. PICK n : n = CMSG_LEN(m.n)
      OBVIOUS
    <3>4. CMSG_NXTHDR(4 * b[k], n, 4 * b[K]) = IF k + 1 < K THEN 4 * b[k + 1] ELSE NoHdr
      BY <2>1, <2>2, <3>1, <3>2, <3>3, NextPlace
    <3>5. QED
      BY <2>3, <3>2, <3>4, <3>3
  <2>10. PICK o \in Seq(Messages) : o = s.out /\ Len(o) = k /\ \A i \in 1 .. k : o[i] = msgs[i]
    BY DEF WalkState
  <2>11. PICK u \in Seq(Messages) : u = Append(o, m) /\ Len(u) = k + 1 /\ \A i \in 1 .. k + 1 : u[i] = msgs[i]
    <3>1. Append(o, m) \in Seq(Messages) /\ Len(Append(o, m)) = k + 1
      BY <2>10
    <3>2. ASSUME NEW i \in 1 .. k + 1 PROVE Append(o, m)[i] = msgs[i]
      <4>1. CASE i = k + 1
        BY <2>1, <2>10, <4>1
      <4>2. CASE i # k + 1
        <5>1. i \in 1 .. k
          BY <4>2
        <5>2. Append(o, m)[i] = o[i]
          BY <2>10, <5>1
        <5>3. QED
          BY <2>10, <5>1, <5>2
      <4>3. QED
        BY <4>1, <4>2
    <3>3. QED
      BY <3>1, <3>2
  <2>12. t.c = (IF k + 1 < K THEN 4 * b[k + 1] ELSE NoHdr) /\ t.out = u /\ t = [c |-> t.c, out |-> t.out]
    BY <2>8, <2>9, <2>10, <2>11
  <2>13. WalkState(t, b, msgs, k + 1)
    BY <1>1, <2>11, <2>12 DEF WalkState
  <2>14. QED
    BY <1>1, <1>3, <2>13
<1>4. QED
  BY <1>1, <1>2, <1>3

(* Walking a buffer finds the messages laid out in it. *)
LEMMA WalkWhole ==
    ASSUME NEW side \in {"linux", "freebsd"}, NEW mem, NEW msgs \in Seq(Messages),
           NEW b, Places(b, msgs, Len(msgs)),
           \A i \in 1 .. Len(msgs) : At(side, mem, b[i - 1], msgs[i]),
           NEW N \in Nat, Len(mem) = N, b[Len(msgs)] <= N
    PROVE  MessagesOf(side, mem, 4 * b[Len(msgs)]) = msgs
<1>1. PICK K \in Nat : K = Len(msgs)
  BY LenProperties
<1>2. PICK q \in Nat : q = b[K] /\ q <= N /\ K <= q /\ \A k \in 0 .. K : b[k] \in Nat
  <2>1. Places(b, msgs, K) /\ K \in 0 .. K
    BY <1>1
  <2>2. QED
    BY <1>1, <2>1 DEF Places
<1>3. PICK first : first = [c |-> CMSG_FIRSTHDR(4 * q, IF side = "linux" THEN 16 ELSE 12), out |-> << >>]
  OBVIOUS
<1> DEFINE Fold(g) == [n \in 0 .. N |-> IF n = 0 THEN first ELSE WalkTurn(g[n - 1], side, mem, 4 * q)]
<1>4. PICK U : U = [c : Int, out : Seq(Messages)]
  OBVIOUS
<1>5. ASSUME NEW s, NEW k \in 0 .. K, WalkState(s, b, msgs, k) PROVE s \in U
  <2>1. 4 * b[k] \in Int /\ NoHdr \in Int
    BY <1>2 DEF NoHdr
  <2>2. s = [c |-> s.c, out |-> s.out] /\ s.c \in Int /\ s.out \in Seq(Messages)
    BY <1>5, <2>1 DEF WalkState
  <2>3. QED
    BY <1>4, <2>2, Zenon
<1>6. PICK S : S = [n \in Nat |-> {s \in U : WalkState(s, b, msgs, Least(n, K))}]
  OBVIOUS
<1>7. ASSUME NEW n \in Nat, NEW s PROVE s \in S[n] <=> WalkState(s, b, msgs, Least(n, K))
  BY <1>5, <1>6, LeastIs
<1>8. ASSUME NEW n \in Nat, NEW s \in S[n] PROVE WalkTurn(s, side, mem, 4 * q) \in S[n + 1]
  <2>1. PICK k \in 0 .. K : k = Least(n, K)
    BY LeastIs
  <2>2. PICK t : t = WalkTurn(s, side, mem, 4 * q)
    OBVIOUS
  <2>3. WalkState(s, b, msgs, k)
    BY <1>7, <2>1
  <2>4. WalkState(t, b, msgs, IF k < Len(msgs) THEN k + 1 ELSE k)
    BY <1>1, <1>2, <2>2, <2>3, WalkStep
  <2>5. Least(n + 1, K) = IF k < K THEN k + 1 ELSE k
    BY <2>1, LeastIs
  <2>6. QED
    BY <1>1, <1>7, <2>2, <2>4, <2>5
<1>9. first \in S[0]
  <2>1. Places(b, msgs, K) /\ b[K] <= N /\ q = b[K]
    BY <1>1, <1>2
  <2>2. PICK size \in {12, 16} : size = IF side = "linux" THEN 16 ELSE 12
    OBVIOUS
  <2>3. CMSG_FIRSTHDR(4 * b[K], size) = IF 0 < K THEN 4 * b[0] ELSE NoHdr
    BY <2>1, FirstHdr, ZenonT(60)
  <2>4. PICK c : c = (IF 0 < K THEN 4 * b[0] ELSE NoHdr) /\ first = [c |-> c, out |-> << >>]
    BY <1>3, <2>1, <2>2, <2>3
  <2>5. WalkState(first, b, msgs, 0)
    BY <1>1, <2>4 DEF WalkState
  <2>6. QED
    BY <1>7, <2>5, LeastIs
<1>10. \E g : g = Fold(g)
  <2>1. PICK B : B = UNION {S[n] : n \in Nat}
    OBVIOUS
  <2>2. PICK H : H = [s \in B |-> WalkTurn(s, side, mem, 4 * q)]
    OBVIOUS
  <2>3. Advances(H, S, B)
    BY <1>8, <2>1, <2>2 DEF Advances
  <2>4. PICK f : DOMAIN f = 0 .. N /\ f[0] = first /\ \A n \in 1 .. N : f[n - 1] \in B /\ f[n] = H[f[n - 1]]
    <3>1. PICK f : Loops(f, H, B, N, first)
      BY <1>9, <2>3, Loop
    <3>2. QED
      BY <3>1 DEF Loops
  <2>5. \E g : g = [n \in 0 .. N |-> f[n]] /\ \A n \in 0 .. N : g[n] = IF n = 0 THEN first ELSE WalkTurn(g[n - 1], side, mem, 4 * q)
    <3>1. PICK g : g = [n \in 0 .. N |-> f[n]]
      OBVIOUS
    <3>2. ASSUME NEW n \in 0 .. N PROVE g[n] = IF n = 0 THEN first ELSE WalkTurn(g[n - 1], side, mem, 4 * q)
      <4>1. CASE n = 0
        BY <2>4, <3>1, <4>1
      <4>2. CASE n # 0
        <5>1. n \in 1 .. N /\ n - 1 \in 0 .. N
          BY <4>2
        <5>2. f[n - 1] \in B /\ f[n] = H[f[n - 1]]
          BY <2>4, <5>1
        <5>3. f[n] = WalkTurn(f[n - 1], side, mem, 4 * q)
          BY <2>2, <5>2
        <5>4. QED
          BY <3>1, <4>2, <5>1, <5>3
      <4>3. QED
        BY <4>1, <4>2
    <3>3. QED
      BY <3>1, <3>2
  <2>6. QED
    BY <2>5
<1>11. PICK turn : turn = CHOOSE g : g = Fold(g)
  OBVIOUS
<1>12. turn = Fold(turn)
  BY <1>10, <1>11
<1>13. MessagesOf(side, mem, 4 * q) = turn[N].out
  BY <1>3, <1>11, Zenon DEF MessagesOf
<1>14. turn[0] = first /\ \A n \in 1 .. N : turn[n] = WalkTurn(turn[n - 1], side, mem, 4 * q)
  <2>1. \A n \in 0 .. N : turn[n] = IF n = 0 THEN first ELSE WalkTurn(turn[n - 1], side, mem, 4 * q)
    <3>1. PICK h : h = turn
      OBVIOUS
    <3>2. h = [n \in 0 .. N |-> IF n = 0 THEN first ELSE WalkTurn(h[n - 1], side, mem, 4 * q)]
      BY <1>12, <3>1
    <3>3. QED
      BY <3>1, <3>2
  <2>2. QED
    BY <2>1
<1>15. turn[N] \in S[N]
  <2>1. turn[0] \in S[0]
    BY <1>9, <1>14
  <2>2. ASSUME NEW n \in 1 .. N, turn[n - 1] \in S[n - 1] PROVE turn[n] \in S[n]
    <3>1. PICK m \in Nat : m = n - 1 /\ n = m + 1
      OBVIOUS
    <3>2. WalkTurn(turn[m], side, mem, 4 * q) \in S[m + 1]
      BY <1>8, <2>2, <3>1
    <3>3. QED
      BY <1>14, <3>1, <3>2
  <2>3. QED
    BY <2>1, <2>2, LoopStates
<1>16. PICK s : s = turn[N] /\ WalkState(s, b, msgs, K)
  <2>1. K <= N
    BY <1>2
  <2>2. Least(N, K) = K
    BY <2>1, LeastIs
  <2>3. QED
    BY <1>7, <1>15, <2>2
<1>17. PICK out \in Seq(Messages) : out = s.out /\ Len(out) = K /\ \A i \in 1 .. K : out[i] = msgs[i]
  BY <1>16 DEF WalkState
<1>18. out = msgs
  BY <1>1, <1>17, SMTT(60)
<1>19. QED
  BY <1>1, <1>2, <1>13, <1>16, <1>17, <1>18

(* What sendmsg makes of the words of a buffer that has the header h. *)
SendWords(h, n, f, f2, f4, level, type, w, lm) ==
    IF level = IPPROTO_IP /\ type \in {LINUX_IP_TOS, LINUX_IP_TTL}
    THEN [h EXCEPT ![f] = CMSG_LEN(1), ![f2] = IF type = LINUX_IP_TOS THEN IP_TOS ELSE IP_TTL,
                   ![f4] = IF type = LINUX_IP_TTL \/ n \in {1, 4} THEN PutByte(@, w) ELSE @]
    ELSE IF n = 1 THEN [h EXCEPT ![f4] = PutByte(@, w)]
    ELSE [i \in DOMAIN h |-> IF i - f - 4 \in 0 .. n \div 4 - 1 THEN lm[f + i - f] ELSE h[i]]

LEMMA SendMessageIs ==
    ASSUME NEW fm, NEW lm, NEW f
    PROVE  SendMessage(fm, f, lm, f) =
               SendWords([fm EXCEPT ![f] = CMSG_LEN(LinuxLen(lm, f) - 16), ![f + 1] = lm[f + 2], ![f + 2] = lm[f + 3]],
                         LinuxLen(lm, f) - 16, f, f + 2, f + 4, lm[f + 2], lm[f + 3], lm[f + 4], lm)
BY Zenon DEF SendMessage, SendWords

(* The turn of sendmsg: Linux's message is written as FreeBSD's. *)
LEMMA SendOne ==
    ASSUME NEW N \in Nat, NEW fm, Buffer(fm, N), NEW lm, Buffer(lm, N), NEW p \in Nat,
           NEW m \in FromLinux, p + Size(m) <= N, LinuxAt(lm, p, m),
           NEW r, r = SendMessage(fm, p + 1, lm, p + 1)
    PROVE  Rewritten(r, fm, p, Size(m), N) /\ FreebsdAt(r, p, Sent(m))
<1>1. PICK n \in {1, 4, 16}, val \in 0 .. 255, level \in Nat, type \in Nat, z \in {6, 8} :
        n = m.n /\ val = m.val /\ level = m.level /\ type = m.type /\ z = Size(m) /\ (n = 16 <=> z = 8)
  <2>1. m \in Messages
    BY SentIs
  <2>2. MessageFields(m) /\ Size(m) \in {6, 8} /\ (m.n = 16 <=> Size(m) = 8)
    BY <2>1, FieldsAre DEF MessageFields, Size
  <2>3. QED
    BY <2>2 DEF MessageFields
<1>2. PICK D, x0, x1, x2, x3, x4 : D = 1 .. N /\ Words(p, D, x0, x1, x2, x3, x4)
  <2>1. p + 6 <= N
    BY <1>1
  <2>2. QED
    BY <2>1, HasWords
<1>3. fm \in [D -> Int] /\ lm \in [D -> Int]
  BY <1>2 DEF Buffer
<1>4. /\ x0 \in D /\ x1 \in D /\ x2 \in D /\ x3 \in D /\ x4 \in D
      /\ x0 # x1 /\ x0 # x2 /\ x0 # x3 /\ x0 # x4 /\ x1 # x2 /\ x1 # x3 /\ x1 # x4 /\ x2 # x3 /\ x2 # x4 /\ x3 # x4
  BY <1>2 DEF Words, Spread
<1>5. x0 = p + 1 /\ x0 + 1 = x1 /\ x0 + 2 = x2 /\ x0 + 3 = x3 /\ x0 + 4 = x4
  BY <1>2 DEF Words
<1>6. PICK w \in Int : /\ w = lm[x4] /\ lm[x0] = 16 + n /\ lm[x1] = 0 /\ lm[x2] = level /\ lm[x3] = type
                       /\ Value(n, w) = val
  BY <1>1, <1>2, <1>3, <1>4 DEF LinuxAt, Words, CMSG_LEN
<1>7. LinuxLen(lm, x0) - 16 = n
  <2>1. LinuxLen(lm, x0) = lm[x0] + 65536 * lm[x1]
    BY <1>5 DEF LinuxLen
  <2>2. QED
    BY <1>1, <1>6, <2>1
<1>8. PICK h : h = [fm EXCEPT ![x0] = 16 + n, ![x1] = level, ![x2] = type]
  OBVIOUS
<1>9. /\ h \in [D -> Int] /\ h[x0] = 16 + n /\ h[x1] = level /\ h[x2] = type
      /\ \A i \in D : i # x0 /\ i # x1 /\ i # x2 => h[i] = fm[i]
  <2>1. PICK v \in Int, y \in Int, u \in Int : v = 16 + n /\ y = level /\ u = type
    BY <1>1
  <2>2. PICK g : g = [fm EXCEPT ![x0] = v, ![x1] = y] /\ h = [g EXCEPT ![x2] = u]
    BY <1>8, <2>1
  <2>3. Put(g, fm, D, x0, v, x1, y)
    BY <1>3, <1>4, <2>1, <2>2 DEF Put
  <2>4. g \in [D -> Int] /\ g[x0] = v /\ g[x1] = y /\ \A i \in D : i # x0 /\ i # x1 => g[i] = fm[i]
    BY <2>3, Puts
  <2>5. h \in [D -> Int] /\ h[x2] = u /\ \A i \in D : i # x2 => h[i] = g[i]
    BY <1>4, <2>2, <2>4
  <2>6. QED
    BY <1>4, <2>1, <2>4, <2>5
<1>10. r = IF level = 0 /\ type \in {1, 2}
           THEN [h EXCEPT ![x0] = 17, ![x2] = IF type = 1 THEN 3 ELSE 4,
                          ![x4] = IF type = 2 \/ n \in {1, 4} THEN PutByte(@, w) ELSE @]
           ELSE IF n = 1 THEN [h EXCEPT ![x4] = PutByte(@, w)]
           ELSE [i \in DOMAIN h |-> IF i - x0 - 4 \in 0 .. n \div 4 - 1 THEN lm[x0 + i - x0] ELSE h[i]]
  <2>1. CMSG_LEN(n) = 16 + n /\ CMSG_LEN(1) = 17
    BY DEF CMSG_LEN
  <2>2. r = SendMessage(fm, x0, lm, x0)
    BY <1>5
  <2>3. h = [fm EXCEPT ![x0] = CMSG_LEN(LinuxLen(lm, x0) - 16), ![x0 + 1] = lm[x0 + 2], ![x0 + 2] = lm[x0 + 3]]
    BY <1>5, <1>6, <1>7, <1>8, <2>1, Zenon
  <2>4. r = SendWords(h, n, x0, x2, x4, level, type, w, lm)
    BY <1>5, <1>6, <1>7, <2>2, <2>3, SendMessageIs, ZenonT(60)
  <2>5. QED
    BY <2>1, <2>4, IpNumbers, ZenonT(60) DEF SendWords, IPPROTO_IP, LINUX_IP_TOS, LINUX_IP_TTL
<1>11. SUFFICES /\ r \in [D -> Int] /\ \A i \in D : i <= p \/ p + z < i => r[i] = h[i]
                /\ r[x0] = CMSG_LEN(Sent(m).n) /\ r[x1] = Sent(m).level /\ r[x2] = Sent(m).type
                /\ Value(Sent(m).n, r[x4]) = Sent(m).val
  <2>1. FreebsdAt(r, p, Sent(m))
    BY <1>2, <1>11 DEF FreebsdAt, Words
  <2>2. ASSUME NEW i \in D, i <= p \/ p + z < i PROVE r[i] = fm[i]
    <3>1. i <= p \/ p + 5 < i
      BY <1>1, <1>2, <2>2, SMTT(60)
    <3>2. i # x0 /\ i # x1 /\ i # x2
      BY <1>2, <3>1 DEF Words
    <3>3. QED
      BY <1>9, <1>11, <2>2, <3>2
  <2>3. QED
    BY <1>1, <1>2, <1>11, <2>1, <2>2 DEF Rewritten, Buffer
<1>12. \A i \in D : i <= p \/ p + z < i => i # x0 /\ i # x1 /\ i # x2 /\ i # x4
  <2>1. ASSUME NEW i \in D, i <= p \/ p + z < i PROVE i <= p \/ p + 5 < i
    BY <1>1, <1>2, <2>1, SMTT(60)
  <2>2. QED
    BY <1>2, <2>1 DEF Words
<1>13. PICK old \in Int, byte \in Int : /\ old = h[x4] /\ byte = PutByte(old, w)
                                       /\ (n \in {1, 4} => Value(1, byte) = val)
  <2>1. PICK old \in Int : old = h[x4]
    BY <1>4, <1>9
  <2>2. PutByte(old, w) \in Int /\ LowByte(PutByte(old, w)) = LowByte(w)
    BY Bytes
  <2>3. CASE n = 1
    BY <1>6, <2>1, <2>2, <2>3 DEF Value
  <2>4. CASE n = 4
    <3>1. w = val
      BY <1>6, <2>4 DEF Value
    <3>2. LowByte(w) = val
      BY <3>1, Bytes
    <3>3. QED
      BY <2>1, <2>2, <3>2 DEF Value
  <2>5. CASE n = 16
    BY <2>1, <2>2, <2>5
  <2>6. QED
    BY <2>3, <2>4, <2>5
<1>14. CASE level = 0 /\ type \in {1, 2}
  <2>1. PICK to \in Int : to = (IF type = 1 THEN 3 ELSE 4) /\ Changed(Sent(m), m, to, 1) /\ n \in {1, 4}
    <3>1. CASE type = 1
      <4>1. m.n \in {1, 4} /\ Changed(Sent(m), m, 3, 1)
        BY <1>1, <1>14, <3>1, SentIs
      <4>2. QED
        BY <1>1, <3>1, <4>1
    <3>2. CASE type = 2
      <4>1. m.n = 4 /\ Changed(Sent(m), m, 4, 1)
        BY <1>1, <1>14, <3>2, SentIs
      <4>2. QED
        BY <1>1, <3>2, <4>1
    <3>3. QED
      BY <1>14, <3>1, <3>2
  <2>2. r = [h EXCEPT ![x0] = 17, ![x2] = to, ![x4] = byte]
    BY <1>4, <1>9, <1>10, <1>13, <1>14, <2>1
  <2>3. PICK g : g = [h EXCEPT ![x0] = 17, ![x2] = to] /\ r = [g EXCEPT ![x4] = byte]
    BY <2>2
  <2>4. Put(g, h, D, x0, 17, x2, to)
    BY <1>4, <1>9, <2>3 DEF Put
  <2>5. g \in [D -> Int] /\ g[x0] = 17 /\ g[x2] = to /\ \A i \in D : i # x0 /\ i # x2 => g[i] = h[i]
    BY <2>4, Puts
  <2>6. r \in [D -> Int] /\ r[x4] = byte /\ \A i \in D : i # x4 => r[i] = g[i]
    <3>1. PICK k : k = r
      OBVIOUS
    <3>2. k = [g EXCEPT ![x4] = byte]
      BY <2>3, <3>1, Zenon
    <3>3. k \in [D -> Int] /\ k[x4] = byte /\ \A i \in D : i # x4 => k[i] = g[i]
      BY <1>4, <2>5, <3>2
    <3>4. QED
      BY <3>1, <3>3, Zenon
  <2>7. r[x0] = 17 /\ r[x1] = level /\ r[x2] = to
    BY <1>4, <1>9, <2>5, <2>6
  <2>8. \A i \in D : i <= p \/ p + z < i => r[i] = h[i]
    BY <1>12, <2>5, <2>6
  <2>9. Sent(m).n = 1 /\ Sent(m).level = level /\ Sent(m).type = to /\ Sent(m).val = val /\ CMSG_LEN(1) = 17
    BY <1>1, <2>1 DEF Changed, CMSG_LEN
  <2>10. Value(1, r[x4]) = val
    BY <1>13, <2>1, <2>6
  <2>11. QED
    BY <2>6, <2>7, <2>8, <2>9, <2>10
<1>15. ASSUME ~ (level = 0 /\ type \in {1, 2})
       PROVE  Sent(m).n = n /\ Sent(m).level = level /\ Sent(m).type = type /\ Sent(m).val = val
  BY <1>1, <1>15, SentIs DEF Changed
<1>16. CASE ~ (level = 0 /\ type \in {1, 2}) /\ n = 1
  <2>1. r = [h EXCEPT ![x4] = byte]
    BY <1>4, <1>9, <1>10, <1>13, <1>16
  <2>2. r \in [D -> Int] /\ r[x4] = byte /\ \A i \in D : i # x4 => r[i] = h[i]
    <3>1. PICK k : k = r
      OBVIOUS
    <3>2. k = [h EXCEPT ![x4] = byte]
      BY <2>1, <3>1, Zenon
    <3>3. k \in [D -> Int] /\ k[x4] = byte /\ \A i \in D : i # x4 => k[i] = h[i]
      BY <1>4, <1>9, <3>2
    <3>4. QED
      BY <3>1, <3>3, Zenon
  <2>3. r[x0] = 16 + n /\ r[x1] = level /\ r[x2] = type
    BY <1>4, <1>9, <2>2
  <2>4. \A i \in D : i <= p \/ p + z < i => r[i] = h[i]
    BY <1>12, <2>2
  <2>5. Value(n, r[x4]) = val
    BY <1>13, <1>16, <2>2
  <2>6. QED
    BY <1>15, <1>16, <2>2, <2>3, <2>4, <2>5 DEF CMSG_LEN
<1>17. CASE ~ (level = 0 /\ type \in {1, 2}) /\ n # 1
  <2>1. PICK c \in {1, 4} : c = n \div 4 /\ (c = 4 <=> z = 8)
    BY <1>1, <1>17
  <2>2. DOMAIN h = D /\ DOMAIN h \subseteq Int
    BY <1>2, <1>9
  <2>3. PICK k : k = r /\ k = [i \in D |-> IF i - x0 - 4 \in 0 .. c - 1 THEN lm[x0 + i - x0] ELSE h[i]]
    BY <1>10, <1>17, <2>1, <2>2
  <2>4. ASSUME NEW i \in D
        PROVE  k[i] \in Int /\ (i - x0 - 4 \in 0 .. c - 1 => k[i] = lm[i]) /\ (i - x0 - 4 \notin 0 .. c - 1 => k[i] = h[i])
    <3>1. x0 + i - x0 = i
      BY <1>2, <1>5
    <3>2. k[i] = IF i - x0 - 4 \in 0 .. c - 1 THEN lm[i] ELSE h[i]
      BY <2>3, <3>1
    <3>3. lm[i] \in Int /\ h[i] \in Int
      BY <1>3, <1>9
    <3>4. QED
      BY <3>2, <3>3
  <2>5. k \in [D -> Int]
    BY <2>3, <2>4
  <2>6. /\ x0 - x0 - 4 \notin 0 .. c - 1 /\ x1 - x0 - 4 \notin 0 .. c - 1 /\ x2 - x0 - 4 \notin 0 .. c - 1
        /\ x4 - x0 - 4 \in 0 .. c - 1
    <3>1. PICK a \in Int : a = x0 /\ x1 = a + 1 /\ x2 = a + 2 /\ x4 = a + 4
      BY <1>5
    <3>2. QED
      BY <2>1, <3>1
  <2>7. k[x0] = 16 + n /\ k[x1] = level /\ k[x2] = type /\ k[x4] = w
    BY <1>4, <1>6, <1>9, <2>4, <2>6
  <2>8. ASSUME NEW i \in D, i <= p \/ p + z < i PROVE k[i] = h[i]
    <3>1. i \in Int /\ i - x0 - 4 \notin 0 .. c - 1
      <4>1. PICK a \in Int : a = x0 /\ a = p + 1
        BY <1>5
      <4>2. i \in Int
        BY <1>2
      <4>3. CASE i <= p
        BY <4>1, <4>2, <4>3
      <4>4. CASE p + z < i
        <5>1. c <= z - 4
          BY <1>1, <2>1
        <5>2. i - a - 4 > c - 1
          BY <2>1, <4>1, <4>2, <4>4, <5>1
        <5>3. QED
          BY <4>1, <4>2, <5>2
      <4>5. QED
        BY <2>8, <4>3, <4>4
    <3>2. QED
      BY <2>4, <3>1
  <2>9. Value(n, k[x4]) = val
    BY <1>6, <2>7
  <2>10. QED
    BY <1>15, <1>17, <2>3, <2>5, <2>7, <2>8, <2>9 DEF CMSG_LEN
<1>18. QED
  BY <1>14, <1>16, <1>17

(* The messages of sendmsg after k turns: the kernel has the first k. *)
SendState(s, b, msgs, N, k) ==
    /\ s = [mem |-> s.mem, l |-> s.l, f |-> s.f] /\ Buffer(s.mem, N)
    /\ \A i \in 1 .. k : FreebsdAt(s.mem, b[i - 1], Sent(msgs[i]))
    /\ s.l = IF k < Len(msgs) THEN 4 * b[k] ELSE NoHdr
    /\ s.f = IF k < Len(msgs) THEN 4 * b[k] ELSE NoHdr

LEMMA SendStep ==
    ASSUME NEW msgs \in Seq(FromLinux), NEW b, Places(b, msgs, Len(msgs)),
           NEW N \in Nat, b[Len(msgs)] = N, NEW linux, Buffer(linux, N), Len(linux) = N,
           \A i \in 1 .. Len(msgs) : LinuxAt(linux, b[i - 1], msgs[i]),
           NEW k \in 0 .. Len(msgs), NEW s, SendState(s, b, msgs, N, k), NEW t, t = SendTurn(s, linux)
    PROVE  SendState(t, b, msgs, N, IF k < Len(msgs) THEN k + 1 ELSE k)
<1>1. PICK K \in Nat : K = Len(msgs) /\ \A i \in 1 .. K : msgs[i] \in FromLinux
  BY LenProperties
<1>2. CASE k = K
  <2>1. t = s
    BY <1>1, <1>2 DEF SendTurn, SendState
  <2>2. QED
    BY <1>1, <1>2, <2>1
<1>3. CASE k < K
  <2>1. PICK j \in 1 .. K, m \in FromLinux : j = k + 1 /\ j - 1 = k /\ m = msgs[j] /\ k \in 0 .. K - 1
    BY <1>1, <1>3
  <2>2. Places(b, msgs, K) /\ b[K] = N /\ b[K] <= N
    BY <1>1
  <2>3. PICK p \in Nat, z \in Nat : p = b[k] /\ z = Size(m) /\ p + z <= N
    <3>1. b[j - 1] \in Nat /\ b[j - 1] + Size(msgs[j]) <= b[K]
      BY <2>2, Apart
    <3>2. Size(m) \in Nat
      BY SentIs, SizeIs, SMTT(60)
    <3>3. QED
      BY <2>1, <2>2, <3>1, <3>2
  <2>4. PICK mem : mem = s.mem /\ Buffer(mem, N) /\ s.f = 4 * p /\ s.l = 4 * p
                   /\ \A i \in 1 .. k : FreebsdAt(mem, b[i - 1], Sent(msgs[i]))
    BY <1>1, <1>3, <2>3 DEF SendState
  <2>5. PICK r : r = SendMessage(mem, p + 1, linux, p + 1)
    OBVIOUS
  <2>6. LinuxAt(linux, p, m)
    BY <1>1, <2>1, <2>3
  <2>7. Rewritten(r, mem, p, z, N) /\ FreebsdAt(r, p, Sent(m))
    <3>1. p + Size(m) <= N
      BY <2>3
    <3>2. Rewritten(r, mem, p, Size(m), N) /\ FreebsdAt(r, p, Sent(m))
      BY <2>4, <2>5, <2>6, <3>1, SendOne
    <3>3. QED
      BY <2>3, <3>2
  <2>8. t = [mem |-> r, l |-> CMSG_NXTHDR(4 * p, LinuxLen(linux, p + 1), 4 * N), f |-> CMSG_NXTHDR(4 * p, r[p + 1], 4 * N)]
    <3>1. s.l # NoHdr /\ s.f # NoHdr /\ Word(s.l) = p + 1 /\ Word(s.f) = p + 1
      BY <2>4, WordOf
    <3>2. QED
      BY <2>4, <2>5, <3>1, Zenon DEF SendTurn
  <2>9. CMSG_NXTHDR(4 * p, r[p + 1], 4 * N) = IF k + 1 < K THEN 4 * b[k + 1] ELSE NoHdr
    <3>1. PICK mm \in Messages : mm = Sent(m) /\ Size(mm) = Size(msgs[k + 1])
      BY <2>1, SentIs
    <3>2. PICK n : n = CMSG_LEN(mm.n) /\ r[p + 1] = n
      BY <2>7, <3>1 DEF FreebsdAt
    <3>3. CMSG_NXTHDR(4 * b[k], n, 4 * b[K]) = IF k + 1 < K THEN 4 * b[k + 1] ELSE NoHdr
      BY <2>1, <2>2, <3>1, <3>2, NextPlace
    <3>4. QED
      BY <2>2, <2>3, <3>2, <3>3
  <2>10. CMSG_NXTHDR(4 * p, LinuxLen(linux, p + 1), 4 * N) = IF k + 1 < K THEN 4 * b[k + 1] ELSE NoHdr
    <3>1. PICK mm \in Messages : mm = m /\ Size(mm) = Size(msgs[k + 1])
      BY <2>1, SentIs
    <3>2. PICK n \in Int : n = CMSG_LEN(mm.n) /\ LinuxLen(linux, p + 1) = n
      <4>1. linux[p + 1] = CMSG_LEN(m.n) /\ linux[p + 2] = 0 /\ (p + 1) + 1 = p + 2
        BY <2>6 DEF LinuxAt
      <4>2. CMSG_LEN(mm.n) \in Int
        BY SizeIs
      <4>3. QED
        BY <3>1, <4>1, <4>2 DEF LinuxLen
    <3>3. CMSG_NXTHDR(4 * b[k], n, 4 * b[K]) = IF k + 1 < K THEN 4 * b[k + 1] ELSE NoHdr
      BY <2>1, <2>2, <3>1, <3>2, NextPlace, SMTT(60)
    <3>4. QED
      BY <2>2, <2>3, <3>2, <3>3
  <2>11. ASSUME NEW i \in 1 .. k + 1 PROVE FreebsdAt(r, b[i - 1], Sent(msgs[i]))
    <3>1. CASE i = j
      BY <2>1, <2>3, <2>7, <3>1
    <3>2. CASE i # j
      <4>1. i \in 1 .. k /\ i \in 1 .. K /\ i < j
        BY <2>1, <3>2
      <4>2. PICK o \in Nat, c \in {Sent(msgs[i])} : o = b[i - 1] /\ o + 6 <= p /\ c = Sent(msgs[i])
        <5>1. b[i - 1] \in Nat /\ b[i - 1] + Size(msgs[i]) <= b[j - 1]
          BY <2>2, <4>1, Apart
        <5>2. Size(msgs[i]) \in {6, 8}
          BY <1>1, <4>1, SentIs, SizeIs
        <5>3. QED
          BY <2>1, <2>3, <5>1, <5>2
      <4>3. FreebsdAt(mem, o, c)
        BY <2>4, <4>1, <4>2
      <4>4. o + 6 <= N /\ (o + 6 <= p \/ p + z <= o)
        BY <2>3, <4>2, SMTT(60)
      <4>5. FreebsdAt(r, o, c)
        BY <2>7, <4>3, <4>4, KeptAt
      <4>6. QED
        BY <4>2, <4>5
    <3>3. QED
      BY <3>1, <3>2
  <2>12. Buffer(r, N)
    BY <2>7 DEF Rewritten
  <2>13. SendState(t, b, msgs, N, k + 1)
    BY <1>1, <2>8, <2>9, <2>10, <2>11, <2>12 DEF SendState
  <2>14. QED
    BY <1>1, <1>3, <2>13
<1>4. QED
  BY <1>1, <1>2, <1>3

(* The loop of sendmsg writes every message. *)
LEMMA SendWhole ==
    ASSUME NEW msgs \in Seq(FromLinux), NEW b, Places(b, msgs, Len(msgs)),
           NEW N \in Nat, b[Len(msgs)] = N, NEW linux, Buffer(linux, N), Len(linux) = N,
           \A i \in 1 .. Len(msgs) : LinuxAt(linux, b[i - 1], msgs[i]),
           NEW buf, Buffer(buf, N), NEW r, r = linux2freebsd_cmsg(linux, buf)
    PROVE  Buffer(r, N) /\ \A i \in 1 .. Len(msgs) : FreebsdAt(r, b[i - 1], Sent(msgs[i]))
<1>1. PICK K \in Nat : K = Len(msgs)
  BY LenProperties
<1>2. N = b[K] /\ K <= N /\ \A k \in 0 .. K : b[k] \in Nat
  <2>1. Places(b, msgs, K) /\ K \in 0 .. K
    BY <1>1
  <2>2. QED
    BY <1>1, <2>1 DEF Places
<1>3. PICK first : first = [mem |-> buf, l |-> CMSG_FIRSTHDR(4 * N, 16), f |-> CMSG_FIRSTHDR(4 * N, 12)]
  OBVIOUS
<1> DEFINE Fold(g) == [n \in 0 .. N |-> IF n = 0 THEN first ELSE SendTurn(g[n - 1], linux)]
<1>4. PICK U : U = [mem : [1 .. N -> Int], l : Int, f : Int]
  OBVIOUS
<1>5. ASSUME NEW s, NEW k \in 0 .. K, SendState(s, b, msgs, N, k) PROVE s \in U
  <2>1. 4 * b[k] \in Int /\ NoHdr \in Int
    BY <1>2 DEF NoHdr
  <2>2. s = [mem |-> s.mem, l |-> s.l, f |-> s.f] /\ s.mem \in [1 .. N -> Int] /\ s.l \in Int /\ s.f \in Int
    BY <1>5, <2>1 DEF SendState, Buffer
  <2>3. QED
    BY <1>4, <2>2, Zenon
<1>6. PICK S : S = [n \in Nat |-> {s \in U : SendState(s, b, msgs, N, Least(n, K))}]
  OBVIOUS
<1>7. ASSUME NEW n \in Nat, NEW s PROVE s \in S[n] <=> SendState(s, b, msgs, N, Least(n, K))
  BY <1>5, <1>6, LeastIs
<1>8. ASSUME NEW n \in Nat, NEW s \in S[n] PROVE SendTurn(s, linux) \in S[n + 1]
  <2>1. PICK k \in 0 .. K : k = Least(n, K)
    BY LeastIs
  <2>2. PICK t : t = SendTurn(s, linux)
    OBVIOUS
  <2>3. SendState(s, b, msgs, N, k)
    BY <1>7, <2>1
  <2>4. SendState(t, b, msgs, N, IF k < Len(msgs) THEN k + 1 ELSE k)
    BY <1>1, <2>2, <2>3, SendStep
  <2>5. Least(n + 1, K) = IF k < K THEN k + 1 ELSE k
    BY <2>1, LeastIs
  <2>6. QED
    BY <1>1, <1>7, <2>2, <2>4, <2>5
<1>9. first \in S[0]
  <2>1. Places(b, msgs, K) /\ b[K] <= N /\ N = b[K]
    BY <1>1, <1>2
  <2>2. CMSG_FIRSTHDR(4 * b[K], 12) = IF 0 < K THEN 4 * b[0] ELSE NoHdr
    BY <2>1, FirstHdr
  <2>3. CMSG_FIRSTHDR(4 * b[K], 16) = IF 0 < K THEN 4 * b[0] ELSE NoHdr
    BY <2>1, FirstHdr
  <2>4. PICK c : c = (IF 0 < K THEN 4 * b[0] ELSE NoHdr) /\ first = [mem |-> buf, l |-> c, f |-> c]
    BY <1>3, <2>1, <2>2, <2>3
  <2>5. SendState(first, b, msgs, N, 0)
    BY <1>1, <2>4 DEF SendState
  <2>6. QED
    BY <1>7, <2>5, LeastIs
<1>10. \E g : g = Fold(g)
  <2>1. PICK B : B = UNION {S[n] : n \in Nat}
    OBVIOUS
  <2>2. PICK H : H = [s \in B |-> SendTurn(s, linux)]
    OBVIOUS
  <2>3. Advances(H, S, B)
    BY <1>8, <2>1, <2>2 DEF Advances
  <2>4. PICK f : DOMAIN f = 0 .. N /\ f[0] = first /\ \A n \in 1 .. N : f[n - 1] \in B /\ f[n] = H[f[n - 1]]
    <3>1. PICK f : Loops(f, H, B, N, first)
      BY <1>9, <2>3, Loop
    <3>2. QED
      BY <3>1 DEF Loops
  <2>5. \E g : g = [n \in 0 .. N |-> f[n]] /\ \A n \in 0 .. N : g[n] = IF n = 0 THEN first ELSE SendTurn(g[n - 1], linux)
    <3>1. PICK g : g = [n \in 0 .. N |-> f[n]]
      OBVIOUS
    <3>2. ASSUME NEW n \in 0 .. N PROVE g[n] = IF n = 0 THEN first ELSE SendTurn(g[n - 1], linux)
      <4>1. CASE n = 0
        BY <2>4, <3>1, <4>1
      <4>2. CASE n # 0
        <5>1. n \in 1 .. N /\ n - 1 \in 0 .. N
          BY <4>2
        <5>2. f[n - 1] \in B /\ f[n] = H[f[n - 1]]
          BY <2>4, <5>1
        <5>3. f[n] = SendTurn(f[n - 1], linux)
          BY <2>2, <5>2
        <5>4. QED
          BY <3>1, <4>2, <5>1, <5>3
      <4>3. QED
        BY <4>1, <4>2
    <3>3. QED
      BY <3>1, <3>2
  <2>6. QED
    BY <2>5
<1>11. PICK turn : turn = CHOOSE g : g = Fold(g)
  OBVIOUS
<1>12. turn = Fold(turn)
  BY <1>10, <1>11
<1>13. r = turn[N].mem
  BY <1>3, <1>11, Zenon DEF linux2freebsd_cmsg
<1>14. turn[0] = first /\ \A n \in 1 .. N : turn[n] = SendTurn(turn[n - 1], linux)
  <2>1. \A n \in 0 .. N : turn[n] = IF n = 0 THEN first ELSE SendTurn(turn[n - 1], linux)
    <3>1. PICK h : h = turn
      OBVIOUS
    <3>2. h = [n \in 0 .. N |-> IF n = 0 THEN first ELSE SendTurn(h[n - 1], linux)]
      BY <1>12, <3>1
    <3>3. QED
      BY <3>1, <3>2
  <2>2. QED
    BY <2>1
<1>15. turn[N] \in S[N]
  <2>1. turn[0] \in S[0]
    BY <1>9, <1>14
  <2>2. ASSUME NEW n \in 1 .. N, turn[n - 1] \in S[n - 1] PROVE turn[n] \in S[n]
    <3>1. PICK m \in Nat : m = n - 1 /\ n = m + 1
      OBVIOUS
    <3>2. SendTurn(turn[m], linux) \in S[m + 1]
      BY <1>8, <2>2, <3>1
    <3>3. QED
      BY <1>14, <3>1, <3>2
  <2>3. QED
    BY <2>1, <2>2, LoopStates
<1>16. PICK s : s = turn[N] /\ SendState(s, b, msgs, N, K)
  <2>1. K <= N
    BY <1>2
  <2>2. Least(N, K) = K
    BY <2>1, LeastIs
  <2>3. QED
    BY <1>7, <1>15, <2>2
<1>17. QED
  BY <1>1, <1>13, <1>16 DEF SendState

(* The messages as the other side has them take the same places. *)
LEMMA SamePlaces ==
    ASSUME NEW msgs \in Seq(Messages), NEW others \in Seq(Messages), Len(others) = Len(msgs),
           \A i \in 1 .. Len(msgs) : Size(others[i]) = Size(msgs[i]),
           NEW b, Places(b, msgs, Len(msgs))
    PROVE  Places(b, others, Len(others))
BY DEF Places

LEMMA GarbageIs ==
    ASSUME NEW n \in Nat
    PROVE  Garbage(n) \in Seq(Int) /\ Len(Garbage(n)) = n /\ Buffer(Garbage(n), n)
<1>1. Garbage(n) \in [1 .. n -> Int]
  BY DEF Garbage, Padding
<1>2. QED
  BY <1>1 DEF Buffer

LEMMA BufferIs ==
    ASSUME NEW N \in Nat, NEW mem
    PROVE  /\ Buffer(mem, N) => mem \in Seq(Int) /\ Len(mem) = N
           /\ mem \in Seq(Int) /\ Len(mem) = N => Buffer(mem, N)
<1>1. Buffer(mem, N) => mem \in Seq(Int) /\ Len(mem) = N
  BY DEF Buffer
<1>2. mem \in Seq(Int) => mem \in [1 .. Len(mem) -> Int]
  BY LenProperties
<1>3. QED
  BY <1>1, <1>2 DEF Buffer

(* What the kernel reads is what the application sent. *)
LEMMA SentArrives ==
    ASSUME NEW msgs \in Seq(FromLinux), NEW linux, linux = LinuxControl(msgs)
    PROVE  FreebsdMessages(linux2freebsd_msghdr(linux, Garbage(Len(linux)), TRUE)) = [i \in DOMAIN msgs |-> Sent(msgs[i])]
<1>1. PICK K \in Nat : K = Len(msgs) /\ DOMAIN msgs = 1 .. K /\ \A i \in 1 .. K : msgs[i] \in FromLinux
  BY LenProperties
<1>2. msgs \in Seq(Messages)
  <2>1. FromLinux \subseteq Messages
    BY DEF FromLinux
  <2>2. QED
    BY <2>1
<1>3. PICK b : /\ Places(b, msgs, Len(msgs)) /\ linux \in Seq(Int) /\ Len(linux) = b[Len(msgs)]
               /\ \A i \in 1 .. Len(msgs) : LinuxAt(linux, b[i - 1], msgs[i])
  BY <1>2, LinuxControlIs
<1>4. PICK N \in Nat : N = Len(linux) /\ b[Len(msgs)] = N /\ K <= N
  <2>1. Len(linux) \in Nat
    BY <1>3, LenProperties
  <2>2. K <= b[K]
    BY <1>1, <1>3 DEF Places
  <2>3. QED
    BY <1>1, <1>3, <2>1, <2>2
<1>5. Buffer(linux, N)
  BY <1>3, <1>4, BufferIs
<1>6. PICK g : g = Garbage(N) /\ Buffer(g, N)
  BY GarbageIs
<1>7. PICK r : r = linux2freebsd_msghdr(linux, g, TRUE)
  OBVIOUS
<1>8. Buffer(r, N) /\ \A i \in 1 .. Len(msgs) : FreebsdAt(r, b[i - 1], Sent(msgs[i]))
  <2>1. CASE linux = << >>
    <3>1. K = 0 /\ r = linux
      BY <1>4, <1>7, <2>1 DEF linux2freebsd_msghdr
    <3>2. QED
      BY <1>1, <1>5, <3>1
  <2>2. CASE linux # << >>
    <3>1. r = linux2freebsd_cmsg(linux, g)
      BY <1>7, <2>2 DEF linux2freebsd_msghdr
    <3>2. QED
      BY <1>3, <1>4, <1>5, <1>6, <3>1, SendWhole
  <2>3. QED
    BY <2>1, <2>2
<1>9. PICK sent : sent = [i \in 1 .. K |-> Sent(msgs[i])]
  OBVIOUS
<1>10. \A i \in 1 .. K : sent[i] = Sent(msgs[i]) /\ sent[i] \in Messages /\ Size(sent[i]) = Size(msgs[i])
  BY <1>1, <1>9, SentIs
<1>11. sent \in Seq(Messages) /\ Len(sent) = K
  BY <1>9, <1>10
<1>12. Places(b, sent, Len(sent))
  BY <1>1, <1>2, <1>3, <1>10, <1>11, SamePlaces
<1>13. \A i \in 1 .. Len(sent) : At("freebsd", r, b[i - 1], sent[i])
  BY <1>1, <1>8, <1>10, <1>11 DEF At
<1>14. Len(r) = N /\ b[Len(sent)] = N /\ b[Len(sent)] <= N
  BY <1>1, <1>4, <1>8, <1>11, BufferIs
<1>15. MessagesOf("freebsd", r, 4 * b[Len(sent)]) = sent
  <2>1. PICK side \in {"linux", "freebsd"} : side = "freebsd"
    OBVIOUS
  <2>2. \A i \in 1 .. Len(sent) : At(side, r, b[i - 1], sent[i])
    BY <1>13, <2>1
  <2>3. MessagesOf(side, r, 4 * b[Len(sent)]) = sent
    BY <1>11, <1>12, <1>14, <2>2, WalkWhole
  <2>4. QED
    BY <2>1, <2>3
<1>16. QED
  BY <1>1, <1>4, <1>6, <1>7, <1>9, <1>14, <1>15 DEF FreebsdMessages

(* What the application reads is what the kernel delivered, whatever space *)
(* is left behind it.                                                      *)
LEMMA DeliveredArrives ==
    ASSUME NEW msgs \in Seq(FromFreebsd), NEW buf, buf = FreebsdControl(msgs), NEW slack \in {0, 16}
    PROVE  LinuxMessages(freebsd2linux_msghdr(buf \o Garbage(slack \div 4), 4 * Len(buf) + slack, 4 * Len(buf), FALSE),
                         4 * Len(buf)) = [i \in DOMAIN msgs |-> Received(msgs[i])]
<1>1. PICK K \in Nat : K = Len(msgs) /\ DOMAIN msgs = 1 .. K /\ \A i \in 1 .. K : msgs[i] \in FromFreebsd
  BY LenProperties
<1>2. msgs \in Seq(Messages)
  <2>1. FromFreebsd \subseteq Messages
    BY DEF FromFreebsd
  <2>2. QED
    BY <2>1
<1>3. PICK b : /\ Places(b, msgs, Len(msgs)) /\ buf \in Seq(Int) /\ Len(buf) = b[Len(msgs)]
               /\ \A i \in 1 .. Len(msgs) : FreebsdAt(buf, b[i - 1], msgs[i])
  BY <1>2, FreebsdControlIs
<1>4. PICK q \in Nat : q = Len(buf) /\ b[K] = q /\ K <= q
  <2>1. Len(buf) \in Nat
    BY <1>3, LenProperties
  <2>2. K <= b[K]
    BY <1>1, <1>3 DEF Places
  <2>3. QED
    BY <1>1, <1>3, <2>1, <2>2
<1>5. PICK x \in Nat : x = slack \div 4 /\ slack = 4 * x
  OBVIOUS
<1>6. PICK g \in Seq(Int) : g = Garbage(x) /\ Len(g) = x
  BY GarbageIs
<1>7. PICK s \in Seq(Int) : s = buf /\ Len(s) = q
  BY <1>3, <1>4
<1>8. PICK all : all = Joined(s, g)
  OBVIOUS
<1>9. PICK N \in Nat : N = q + x
  OBVIOUS
<1>10. all = buf \o Garbage(x)
  BY <1>6, <1>7, <1>8 DEF Joined
<1>11. all \in Seq(Int) /\ Len(all) = N /\ (\A k \in 1 .. q : all[k] = buf[k]) /\ N = q + x
  <2>1. /\ all \in Seq(Int) /\ Len(all) = Len(s) + Len(g)
        /\ \A k \in 1 .. Len(s) + Len(g) : all[k] = IF k <= Len(s) THEN s[k] ELSE g[k - Len(s)]
    BY <1>8, JoinedElements
  <2>2. Len(all) = N
    BY <1>6, <1>7, <1>9, <2>1
  <2>3. ASSUME NEW k \in 1 .. q PROVE all[k] = buf[k]
    <3>1. k \in 1 .. Len(s) + Len(g) /\ k <= Len(s)
      BY <1>6, <1>7
    <3>2. all[k] = s[k]
      BY <2>1, <3>1
    <3>3. QED
      BY <1>7, <3>2
  <2>4. QED
    BY <1>9, <2>1, <2>2, <2>3
<1>12. Buffer(all, N)
  BY <1>11, BufferIs
<1>13. RecvMessages(all, b, msgs, 0)
  <2>1. SUFFICES ASSUME NEW i \in 1 .. K PROVE FreebsdAt(all, b[i - 1], msgs[i])
    BY <1>1 DEF RecvMessages
  <2>2. FreebsdAt(buf, b[i - 1], msgs[i])
    BY <1>1, <1>3
  <2>3. PICK o \in Nat : o = b[i - 1] /\ o + 6 <= q
    <3>1. Places(b, msgs, K)
      BY <1>1, <1>3
    <3>2. b[i - 1] \in Nat /\ b[i - 1] + 6 <= b[K]
      BY <3>1, Apart
    <3>3. QED
      BY <1>4, <3>2
  <2>4. \A k \in Nat : k + 6 <= q => \A j \in 1 .. 5 : k + j \in 1 .. q
    OBVIOUS
  <2>5. \A j \in 1 .. 5 : all[o + j] = buf[o + j]
    <3>1. \A j \in 1 .. 5 : o + j \in 1 .. q
      BY <2>3, <2>4, Zenon
    <3>2. QED
      BY <1>11, <3>1
  <2>6. /\ all[o + 1] = buf[o + 1] /\ all[o + 2] = buf[o + 2] /\ all[o + 3] = buf[o + 3]
        /\ all[o + 5] = buf[o + 5]
    BY <2>5
  <2>7. QED
    BY <2>2, <2>3, <2>6 DEF FreebsdAt
<1>14. PICK r : r = freebsd2linux_msghdr(all, 4 * N, 4 * q, FALSE)
  OBVIOUS
<1>15. Buffer(r, N) /\ \A i \in 1 .. Len(msgs) : LinuxAt(r, b[i - 1], Received(msgs[i]))
  <2>1. CASE all = << >>
    <3>1. K = 0 /\ r = all
      BY <1>4, <1>11, <1>14, <2>1 DEF freebsd2linux_msghdr
    <3>2. QED
      BY <1>1, <1>12, <3>1
  <2>2. CASE all # << >>
    <3>1. r = freebsd2linux_cmsghdr(all, 4 * N, 4 * b[Len(msgs)])
      BY <1>1, <1>4, <1>14, <2>2 DEF freebsd2linux_msghdr
    <3>2. b[Len(msgs)] <= N
      BY <1>1, <1>4, <1>11
    <3>3. QED
      BY <1>3, <1>11, <1>12, <1>13, <3>1, <3>2, RecvWhole
  <2>3. QED
    BY <2>1, <2>2
<1>16. PICK got : got = [i \in 1 .. K |-> Received(msgs[i])]
  OBVIOUS
<1>17. \A i \in 1 .. K : got[i] = Received(msgs[i]) /\ got[i] \in Messages /\ Size(got[i]) = Size(msgs[i])
  BY <1>1, <1>16, ReceivedIs
<1>18. got \in Seq(Messages) /\ Len(got) = K
  BY <1>16, <1>17
<1>19. Places(b, got, Len(got))
  BY <1>1, <1>2, <1>3, <1>17, <1>18, SamePlaces
<1>20. Len(r) = N /\ b[Len(got)] = q /\ b[Len(got)] <= N
  BY <1>4, <1>11, <1>15, <1>18, BufferIs
<1>21. MessagesOf("linux", r, 4 * b[Len(got)]) = got
  <2>1. PICK side \in {"linux", "freebsd"} : side = "linux"
    OBVIOUS
  <2>2. \A i \in 1 .. Len(got) : At(side, r, b[i - 1], got[i])
    BY <1>1, <1>15, <1>17, <1>18, <2>1 DEF At
  <2>3. MessagesOf(side, r, 4 * b[Len(got)]) = got
    BY <1>18, <1>19, <1>20, <2>2, WalkWhole
  <2>4. QED
    BY <2>1, <2>3
<1>22. 4 * Len(buf) + slack = 4 * N /\ 4 * Len(buf) = 4 * q
  BY <1>4, <1>5, <1>11
<1>23. QED
  BY <1>1, <1>5, <1>11, <1>14, <1>16, <1>20, <1>21, <1>22, <1>10 DEF LinuxMessages

(* Names in the kernel are those the application bound, as the kernel lays *)
(* them out, and the last one asked for was answered right.                *)
NameInvariant ==
    /\ DOMAIN kname = Files /\ DOMAIN bound = Files
    /\ \A f \in Files : kname[f] # NoFile => freebsd2linux_sockaddr(kname[f]) = bound[f]
    /\ seen[1] = seen[2]

(* An address of either family goes to the kernel and back unchanged. *)
LEMMA AddressReturns ==
    ASSUME NEW fam \in {AF_INET, LINUX_AF_INET6}, NEW x, NEW bytes, bytes = [i \in 1 .. AddrSize(fam) - 2 |-> x]
    PROVE  freebsd2linux_sockaddr(linux2freebsd_sockaddr(LinuxAddr(fam, bytes), AddrSize(fam))) = LinuxAddr(fam, bytes)
<1>1. PICK size \in {16, 28} : size = AddrSize(fam) /\ (fam = 2 <=> size = 16) /\ fam \in {2, 10}
  BY DEF AddrSize, AF_INET, LINUX_AF_INET6, AF_INET6
<1>2. PICK n \in {14, 26} : n = size - 2 /\ bytes = [i \in 1 .. n |-> x]
  <2>1. PICK k \in {14, 26} : k = size - 2
    OBVIOUS
  <2>2. AddrSize(fam) - 2 = k
    BY <1>1, <2>1
  <2>3. QED
    BY <2>1, <2>2, Zenon
<1>3. SubSeq(bytes, 1, n) = bytes
  <2>1. SubSeq(bytes, 1, n) = [i \in 1 .. n |-> bytes[i]]
    BY <1>2
  <2>2. QED
    BY <1>2, <2>1
<1>4. 2 % 256 = 2 /\ 2 \div 256 = 0 /\ 10 % 256 = 10 /\ 10 \div 256 = 0 /\ 28 % 256 = 28 /\ 16 % 256 = 16
  OBVIOUS
<1>5. LinuxAddr(fam, bytes) = [lo |-> fam, hi |-> 0, data |-> bytes]
  BY <1>1, <1>4, ZenonT(60) DEF LinuxAddr
<1>6. LinuxFamily(LinuxAddr(fam, bytes)) = fam
  BY <1>1, <1>5 DEF LinuxFamily
<1>7. PICK bsd : bsd = linux2freebsd_sockaddr(LinuxAddr(fam, bytes), size)
  OBVIOUS
<1>8. PICK hi \in {2, 28} : /\ bsd = [lo |-> size, hi |-> hi, data |-> bytes] /\ (hi = 2 <=> fam = 2)
  <2>1. bsd = [lo   |-> size % 256,
               hi   |-> (IF fam = 10 THEN 28 ELSE fam) % 256,
               data |-> SubSeq(bytes, 1, size - 2)]
    BY <1>5, <1>6, <1>7 DEF linux2freebsd_sockaddr, LINUX_AF_INET6, AF_INET6
  <2>2. SubSeq(bytes, 1, size - 2) = bytes /\ size % 256 = size
    BY <1>2, <1>3, <1>4
  <2>3. CASE fam = 2
    <3>1. (IF fam = 10 THEN 28 ELSE fam) % 256 = 2
      BY <1>4, <2>3
    <3>2. bsd = [lo |-> size, hi |-> 2, data |-> bytes]
      BY <2>1, <2>2, <3>1, Zenon
    <3>3. QED
      BY <2>3, <3>2
  <2>4. CASE fam = 10
    <3>1. (IF fam = 10 THEN 28 ELSE fam) % 256 = 28
      BY <1>4, <2>4
    <3>2. bsd = [lo |-> size, hi |-> 28, data |-> bytes]
      BY <2>1, <2>2, <3>1, Zenon
    <3>3. QED
      BY <2>4, <3>2
  <2>5. QED
    BY <1>1, <2>3, <2>4
<1>9. freebsd2linux_sockaddr(bsd) = LinuxAddr(fam, bytes)
  <2>1. bsd.hi = hi /\ bsd.lo = size /\ bsd.data = bytes
    BY <1>8
  <2>2. (IF hi = 28 THEN 10 ELSE hi) = fam
    BY <1>1, <1>8
  <2>3. SubSeq(bsd.data, 1, bsd.lo - 2) = bytes
    BY <1>2, <1>3, <2>1
  <2>4. QED
    BY <2>1, <2>2, <2>3 DEF freebsd2linux_sockaddr, AF_INET6, LINUX_AF_INET6
<1>10. QED
  BY <1>1, <1>7, <1>9

LEMMA NamesKept ==
    ASSUME NameInvariant, UNCHANGED << kname, bound, seen >>
    PROVE  NameInvariant'
BY DEF NameInvariant

(* A new file has no name. *)
LEMMA NewFileUnnamed ==
    ASSUME NameInvariant, NEW f, NEW fam, NewFile(f, fam), UNCHANGED seen
    PROVE  NameInvariant'
<1>1. kname' = [kname EXCEPT ![f] = NoFile] /\ bound' = [bound EXCEPT ![f] = NoFile]
  BY DEF NewFile
<1>2. DOMAIN kname' = Files /\ DOMAIN bound' = Files
  BY <1>1 DEF NameInvariant
<1>3. ASSUME NEW g \in Files, kname'[g] # NoFile
      PROVE  freebsd2linux_sockaddr(kname'[g]) = bound'[g]
  <2>1. g # f
    BY <1>1, <1>3 DEF NameInvariant
  <2>2. kname'[g] = kname[g] /\ bound'[g] = bound[g]
    BY <1>1, <2>1 DEF NameInvariant
  <2>3. QED
    BY <1>3, <2>2 DEF NameInvariant
<1>4. seen'[1] = seen'[2]
  BY DEF NameInvariant
<1>5. QED
  BY <1>2, <1>3, <1>4 DEF NameInvariant

(* A bound file has the name the application gave it. *)
LEMMA NameGiven ==
    ASSUME NameInvariant, FileInvariant, NEW d \in Fds, NEW fam \in {AF_INET, LINUX_AF_INET6}, NEW x,
           lazybsd_bind(d, fam, [i \in 1 .. AddrSize(fam) - 2 |-> x])
    PROVE  NameInvariant'
<1>1. PICK name : name = [i \in 1 .. AddrSize(fam) - 2 |-> x]
  OBVIOUS
<1>2. lazybsd_bind(d, fam, name)
  BY <1>1, Zenon
<1>3. PICK f, linux, bsd : f = table.fd[d] /\ linux = LinuxAddr(fam, name) /\ bsd = linux2freebsd_sockaddr(linux, AddrSize(fam))
  OBVIOUS
<1>4. /\ d \in OpenFds /\ seen' = seen
      /\ \/ kname' = [kname EXCEPT ![f] = bsd] /\ bound' = [bound EXCEPT ![f] = linux]
         \/ kname' = kname /\ bound' = bound
  BY <1>2, <1>3, Zenon DEF lazybsd_bind
<1>5. f \in Files
  BY <1>3, <1>4, OpenHasFile
<1>6. freebsd2linux_sockaddr(bsd) = linux
  BY <1>1, <1>3, AddressReturns, Zenon
<1>7. CASE kname' = kname /\ bound' = bound
  BY <1>4, <1>7, NamesKept
<1>8. CASE kname' = [kname EXCEPT ![f] = bsd] /\ bound' = [bound EXCEPT ![f] = linux]
  <2>1. DOMAIN kname' = Files /\ DOMAIN bound' = Files
    BY <1>8 DEF NameInvariant
  <2>2. ASSUME NEW g \in Files, kname'[g] # NoFile
        PROVE  freebsd2linux_sockaddr(kname'[g]) = bound'[g]
    <3>1. CASE g = f
      <4>1. kname'[g] = bsd /\ bound'[g] = linux
        BY <1>8, <3>1 DEF NameInvariant
      <4>2. QED
        BY <1>6, <4>1
    <3>2. CASE g # f
      <4>1. kname'[g] = kname[g] /\ bound'[g] = bound[g]
        BY <1>8, <3>2 DEF NameInvariant
      <4>2. QED
        BY <2>2, <4>1 DEF NameInvariant
    <3>3. QED
      BY <3>1, <3>2
  <2>3. QED
    BY <1>4, <2>1, <2>2 DEF NameInvariant
<1>9. QED
  BY <1>4, <1>7, <1>8

(* A name that is asked for is the one that was bound. *)
LEMMA NameAsked ==
    ASSUME NameInvariant, FileInvariant, NEW d \in OpenFds, UNCHANGED << kname, bound >>,
           \/ /\ kname[table.fd[d]] # NoFile
              /\ seen' = << bound[table.fd[d]], freebsd2linux_sockaddr(kname[table.fd[d]]) >>
           \/ seen' = seen
    PROVE  NameInvariant'
<1>1. PICK f \in Files : f = table.fd[d]
  BY OpenHasFile
<1>2. kname[f] # NoFile => freebsd2linux_sockaddr(kname[f]) = bound[f]
  BY DEF NameInvariant
<1>3. seen'[1] = seen'[2]
  BY <1>1, <1>2 DEF NameInvariant
<1>4. QED
  BY <1>3 DEF NameInvariant

(* A destination of a route is the same on both sides. *)
LEMMA RouteNames ==
    ASSUME NameInvariant, NEW req, NEW flag, NEW x, lazybsd_route_ctl(req, flag, [i \in 1 .. 14 |-> x])
    PROVE  NameInvariant'
<1>1. PICK fam \in {AF_INET, LINUX_AF_INET6} : fam = AF_INET
  OBVIOUS
<1>2. AddrSize(fam) = 16
  BY <1>1 DEF AddrSize, AF_INET, LINUX_AF_INET6, AF_INET6
<1>3. PICK name : name = [i \in 1 .. 14 |-> x]
  OBVIOUS
<1>4. name = [i \in 1 .. AddrSize(fam) - 2 |-> x]
  <2>1. AddrSize(fam) - 2 = 14
    BY <1>2
  <2>2. QED
    BY <1>3, <2>1, Zenon
<1>5. PICK dst : dst = LinuxAddr(AF_INET, name)
  OBVIOUS
<1>6. freebsd2linux_sockaddr(linux2freebsd_sockaddr(dst, 16)) = dst
  BY <1>1, <1>2, <1>4, <1>5, AddressReturns, Zenon
<1>7. /\ kname' = kname /\ bound' = bound
      /\ seen' = seen \/ seen' = << dst, freebsd2linux_sockaddr(linux2freebsd_sockaddr(dst, 16)) >>
  BY <1>3, <1>5, Zenon DEF lazybsd_route_ctl
<1>8. seen'[1] = seen'[2]
  BY <1>6, <1>7 DEF NameInvariant
<1>9. QED
  BY <1>7, <1>8 DEF NameInvariant

(* Every step keeps the names. *)
LEMMA NameStep ==
    ASSUME NameInvariant, FileInvariant, SockNext
    PROVE  NameInvariant'
<1>1. ASSUME NEW fam, lazybsd_socket(fam) PROVE NameInvariant'
  BY <1>1, NamesKept, NewFileUnnamed, Zenon DEF lazybsd_socket
<1>2. CASE FileCalls
  <2>1. ASSUME NEW d \in Fds, lazybsd_accept(d) PROVE NameInvariant'
    BY <2>1, NamesKept, NewFileUnnamed, Zenon DEF lazybsd_accept
  <2>2. ASSUME NEW d \in Fds, NEW e \in Fds, NEW cmd,
               \/ lazybsd_dup(d) \/ lazybsd_close(d) \/ lazybsd_listen(d) \/ lazybsd_fcntl(d, cmd)
               \/ lazybsd_dup2(d, e) \/ lazybsd_sendto(d)
        PROVE  NameInvariant'
    BY <2>2, NamesKept, Zenon DEF lazybsd_dup, lazybsd_dup2, lazybsd_close, lazybsd_listen,
         lazybsd_fcntl, lazybsd_sendto, plain_call, fileVars
  <2>3. ASSUME NEW d \in Fds, lazybsd_getsockname(d) \/ lazybsd_getpeername(d) \/ lazybsd_recvfrom(d)
        PROVE  NameInvariant'
    BY <2>3, NameAsked, Zenon DEF lazybsd_getpeername, lazybsd_getsockname, lazybsd_recvfrom
  <2>4. ASSUME NEW d \in Fds, NEW fam \in {AF_INET, LINUX_AF_INET6}, NEW x \in Addrs,
               LET name == [i \in 1 .. AddrSize(fam) - 2 |-> x]
               IN  lazybsd_bind(d, fam, name) \/ lazybsd_connect(d, fam, name)
        PROVE  NameInvariant'
    BY <2>4, NameGiven, Zenon DEF lazybsd_connect
  <2>5. ASSUME handle_ioctl_msg PROVE NameInvariant'
    BY <2>5, NamesKept, NewFileUnnamed, Zenon DEF handle_ioctl_msg
  <2>6. ASSUME NEW req, NEW flag, NEW x, lazybsd_route_ctl(req, flag, [i \in 1 .. 14 |-> x])
        PROVE  NameInvariant'
    BY <2>6, RouteNames
  <2>7. QED
    BY <1>1, <1>2, <2>1, <2>2, <2>3, <2>4, <2>5, <2>6, Zenon DEF FileCalls, lazybsd_kqueue
<1>3. CASE OptionCalls
  BY <1>3, NamesKept, Zenon DEF OptionCalls, lazybsd_setsockopt, lazybsd_ioctl, lazybsd_getsockopt, fileVars
<1>4. CASE TransferCalls
  BY <1>4, NamesKept, Zenon DEF TransferCalls, lazybsd_read, lazybsd_write, lazybsd_readv, lazybsd_writev,
       plain_call, fileVars
<1>5. CASE MessageCalls
  BY <1>1, <1>5, NamesKept, Zenon DEF MessageCalls, lazybsd_sendmsg, lazybsd_recvmsg, fileVars
<1>6. CASE KeventCalls
  BY <1>6, NamesKept, Zenon DEF KeventCalls, lazybsd_kevent, kevent_copyin, kevent_copyout, kevent_return, fileVars
<1>7. QED
  BY <1>2, <1>3, <1>4, <1>5, <1>6 DEF SockNext

(* Only sendmsg and recvmsg exchange control messages. *)
LEMMA ControlStep ==
    ASSUME ControlTranslated, SockNext
    PROVE  ControlTranslated'
<1>1. UNCHANGED message => ControlTranslated'
  BY DEF ControlTranslated
<1>2. ASSUME NEW msgs \in Controls, lazybsd_sendmsg(msgs) PROVE ControlTranslated'
  <2>1. msgs \in Seq(FromLinux)
    BY SockAssumption
  <2>2. PICK linux : linux = LinuxControl(msgs)
    OBVIOUS
  <2>3. FreebsdMessages(linux2freebsd_msghdr(linux, Garbage(Len(linux)), TRUE)) = [i \in DOMAIN msgs |-> Sent(msgs[i])]
    BY <2>1, <2>2, SentArrives
  <2>4. \/ UNCHANGED message
        \/ message' = << [i \in DOMAIN msgs |-> Sent(msgs[i])],
                         FreebsdMessages(linux2freebsd_msghdr(linux, Garbage(Len(linux)), TRUE)) >>
    BY <1>2, <2>2, Zenon DEF lazybsd_sendmsg
  <2>5. PICK meant : meant = [i \in DOMAIN msgs |-> Sent(msgs[i])]
    OBVIOUS
  <2>6. UNCHANGED message \/ message' = << meant, meant >>
    BY <2>3, <2>4, <2>5, Zenon
  <2>7. QED
    BY <1>1, <2>6 DEF ControlTranslated
<1>3. ASSUME NEW msgs \in Deliveries, NEW slack \in {0, 16}, lazybsd_recvmsg(msgs, slack) PROVE ControlTranslated'
  <2>1. msgs \in Seq(FromFreebsd)
    BY SockAssumption
  <2>2. PICK buf : buf = FreebsdControl(msgs)
    OBVIOUS
  <2>3. LinuxMessages(freebsd2linux_msghdr(buf \o Garbage(slack \div 4), 4 * Len(buf) + slack, 4 * Len(buf), FALSE),
                      4 * Len(buf)) = [i \in DOMAIN msgs |-> Received(msgs[i])]
    BY <2>1, <2>2, DeliveredArrives
  <2>4. \/ UNCHANGED message
        \/ message' = << [i \in DOMAIN msgs |-> Received(msgs[i])],
                         LinuxMessages(freebsd2linux_msghdr(buf \o Garbage(slack \div 4), 4 * Len(buf) + slack,
                                                            4 * Len(buf), FALSE), 4 * Len(buf)) >>
    BY <1>3, <2>2, Zenon DEF lazybsd_recvmsg
  <2>5. PICK meant : meant = [i \in DOMAIN msgs |-> Received(msgs[i])]
    OBVIOUS
  <2>6. UNCHANGED message \/ message' = << meant, meant >>
    BY <2>3, <2>4, <2>5, Zenon
  <2>7. QED
    BY <1>1, <2>6 DEF ControlTranslated
<1>4. ASSUME NEW fam, lazybsd_socket(fam) PROVE UNCHANGED message
  BY <1>4, Zenon DEF lazybsd_socket
<1>5. CASE FileCalls
  <2>1. ASSUME NEW d \in Fds,
               \/ lazybsd_accept(d) \/ lazybsd_getsockname(d) \/ lazybsd_getpeername(d)
               \/ lazybsd_recvfrom(d) \/ lazybsd_sendto(d)
        PROVE  UNCHANGED message
    BY <2>1, Zenon DEF lazybsd_accept, lazybsd_getpeername, lazybsd_getsockname,
         lazybsd_recvfrom, lazybsd_sendto
  <2>2. ASSUME NEW d \in Fds, NEW e \in Fds, NEW cmd,
               \/ lazybsd_dup(d) \/ lazybsd_close(d) \/ lazybsd_listen(d) \/ lazybsd_fcntl(d, cmd)
               \/ lazybsd_dup2(d, e)
        PROVE  UNCHANGED message
    BY <2>2, Zenon DEF lazybsd_dup, lazybsd_dup2, lazybsd_close, lazybsd_listen, lazybsd_fcntl, plain_call
  <2>3. ASSUME NEW d \in Fds, NEW fam, NEW name, lazybsd_bind(d, fam, name) \/ lazybsd_connect(d, fam, name)
        PROVE  UNCHANGED message
    BY <2>3, Zenon DEF lazybsd_bind, lazybsd_connect
  <2>4. ASSUME handle_ioctl_msg \/ \E req, flag, name : lazybsd_route_ctl(req, flag, name)
        PROVE  UNCHANGED message
    BY <2>4, Zenon DEF handle_ioctl_msg, lazybsd_route_ctl
  <2>5. QED
    BY <1>1, <1>4, <1>5, <2>1, <2>2, <2>3, <2>4, Zenon DEF FileCalls, lazybsd_kqueue
<1>6. CASE OptionCalls \/ TransferCalls \/ KeventCalls
  <2>1. UNCHANGED message
    BY <1>6, Zenon DEF OptionCalls, lazybsd_setsockopt, lazybsd_ioctl, lazybsd_getsockopt,
         TransferCalls, lazybsd_read, lazybsd_write, lazybsd_readv, lazybsd_writev, plain_call,
         KeventCalls, lazybsd_kevent, kevent_copyin, kevent_copyout, kevent_return
  <2>2. QED
    BY <1>1, <2>1
<1>7. CASE MessageCalls
  BY <1>1, <1>2, <1>3, <1>4, <1>7, Zenon DEF MessageCalls
<1>8. QED
  BY <1>5, <1>6, <1>7 DEF SockNext

(* MessagesTranslated, as the two sides of every exchange have it. *)
MessageInvariant == NameInvariant /\ ControlTranslated

(* A name or a control message that crosses the API arrives as it was      *)
(* meant, in both directions, whatever was exchanged before it             *)
(* (linux2freebsd_sockaddr and freebsd2linux_sockaddr, linux2freebsd_cmsg  *)
(* and freebsd2linux_cmsghdr).                                             *)
THEOREM MessagesArrive ==
    SockSpec => []MessagesTranslated
<1>1. SockInit => MessageInvariant
  BY DEF SockInit, MessageInvariant, NameInvariant, ControlTranslated
<1>2. FileInvariant /\ MessageInvariant /\ [SockNext]_sockVars => MessageInvariant'
  <2>1. SUFFICES ASSUME FileInvariant, MessageInvariant, [SockNext]_sockVars PROVE MessageInvariant'
    OBVIOUS
  <2>2. CASE UNCHANGED sockVars
    BY <2>1, <2>2 DEF sockVars, fileVars, MessageInvariant, NameInvariant, ControlTranslated
  <2>3. CASE SockNext
    BY <2>1, <2>3, NameStep, ControlStep DEF MessageInvariant
  <2>4. QED
    BY <2>1, <2>2, <2>3
<1>3. MessageInvariant => MessagesTranslated
  BY DEF MessageInvariant, NameInvariant, MessagesTranslated, NameRoundTrip
<1>4. QED
  BY <1>1, <1>2, <1>3, FileInvariantHolds, PTL DEF SockSpec

-----------------------------------------------------------------------------
(* The parts of the interface together.                                    *)

(* A behaviour of the interface is one of the socket calls and one of the  *)
(* routing ioctl (lazybsd_socket.c and lazybsd_route.c share no state), so *)
(* that what is proved of a part holds of the whole.                       *)
THEOREM CallsTogether ==
    Spec => SockSpec /\ RouteSpec
<1>1. Init => SockInit /\ RouteInit
  BY DEF Init
<1>2. [Next]_vars => [SockNext]_sockVars
  BY DEF Next, vars, InPart, SockNext
<1>3. [Next]_vars => [RouteNext]_routeVars
  BY DEF Next, vars, InPart
<1>4. QED
  BY <1>1, <1>2, <1>3, PTL DEF Spec, SockSpec, RouteSpec
=============================================================================
