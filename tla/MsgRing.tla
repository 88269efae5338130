------------------------------ MODULE MsgRing ------------------------------
(***************************************************************************)
(* Control messages: init_msg_ring, process_msg_ring and handle_msg of     *)
(* src/lazybsd_dpdk.cc.  A tool in another process takes a message from    *)
(* the shared pool, puts it on ring[0] of the lcore it wants to talk to    *)
(* and reads the answer from the ring of the message's type.  A tool whose *)
(* data does not fit replaces the message's buffer and keeps the old one   *)
(* in original_buf.                                                        *)
(*                                                                         *)
(* The tools are not in the repository: alloc, send, recv and free are     *)
(* what the lcore's side expects of them.  Rings are single-producer, so   *)
(* the tools are taken to send one at a time to an lcore.                  *)
(***************************************************************************)
EXTENDS Integers, Sequences, SeqPlaces

CONSTANTS Msgs,         \* the messages of message_pool
          Procs,        \* the lcores' processes
          Types,        \* the message types but LAZYBSD_UNKNOWN
          MaxBurst,     \* MAX_PKT_BURST
          RingCap,      \* capacity of a ring: MSG_RING_SIZE - 1
          Unknown       \* may a tool send a message without setting its type?

LAZYBSD_UNKNOWN == 0

ASSUME TypesAssumption == LAZYBSD_UNKNOWN \notin Types
ASSUME CapAssumption   == MaxBurst \in Nat \ {0} /\ RingCap \in Nat \ {0}
ASSUME UnknownAssumption == Unknown \in BOOLEAN

VARIABLES
    pool,       \* free messages
    held,       \* messages the tools hold
    ring,       \* msg_ring[proc].ring[type]
    burst,      \* what is left of each lcore's burst of requests
    msg_type,   \* the field of each message
    big,        \* original_buf # NULL: the buffer was replaced
    answered    \* history: result is that of the request

vars == <<pool, held, ring, burst, msg_type, big, answered>>

AllTypes == Types \cup {LAZYBSD_UNKNOWN}

(* init_msg_ring, lazybsd_msg_init. *)
Init ==
    /\ pool = Msgs
    /\ held = {}
    /\ ring = [p \in Procs |-> [t \in AllTypes |-> << >>]]
    /\ burst = [p \in Procs |-> << >>]
    /\ msg_type = [m \in Msgs |-> LAZYBSD_UNKNOWN]
    /\ big = [m \in Msgs |-> FALSE]
    /\ answered = [m \in Msgs |-> FALSE]

-----------------------------------------------------------------------------
(* A tool.                                                                 *)

tool_alloc(m) ==
    /\ m \in pool
    /\ pool' = pool \ {m}
    /\ held' = held \cup {m}
    /\ answered' = [answered EXCEPT ![m] = FALSE]
    /\ UNCHANGED <<ring, burst, msg_type, big>>

tool_send(m, p, t) ==
    /\ m \in held
    /\ ~answered[m]
    /\ t = LAZYBSD_UNKNOWN => Unknown
    /\ Len(ring[p][0]) < RingCap
    /\ held' = held \ {m}
    /\ msg_type' = [msg_type EXCEPT ![m] = t]
    /\ big' \in {[big EXCEPT ![m] = b] : b \in BOOLEAN}
    /\ ring' = [ring EXCEPT ![p][0] = Append(@, m)]
    /\ UNCHANGED <<pool, burst, answered>>

tool_recv(p, t) ==
    /\ t # LAZYBSD_UNKNOWN
    /\ ring[p][t] # << >>
    /\ held' = held \cup {Head(ring[p][t])}
    /\ ring' = [ring EXCEPT ![p][t] = Tail(@)]
    /\ UNCHANGED <<pool, burst, msg_type, big, answered>>

tool_free(m) ==
    /\ m \in held
    /\ held' = held \ {m}
    /\ pool' = pool \cup {m}
    /\ big' = [big EXCEPT ![m] = FALSE]
    /\ UNCHANGED <<ring, burst, msg_type, answered>>

-----------------------------------------------------------------------------
(* An lcore.                                                               *)

(* process_msg_ring: a burst of requests. *)
process_msg_ring(p) ==
    LET nb_rb == Lesser(MaxBurst, Len(ring[p][0])) IN
    /\ burst[p] = << >>
    /\ nb_rb > 0
    /\ burst' = [burst EXCEPT ![p] = SubSeq(ring[p][0], 1, nb_rb)]
    /\ ring' = [ring EXCEPT ![p][0] = SubSeq(@, nb_rb + 1, Len(@))]
    /\ UNCHANGED <<pool, held, msg_type, big, answered>>

(* Mutant of Recycle: the replaced buffer stays with the message. *)
Recycle_KeepsBuffer(m) == pool' = pool \cup {m} /\ UNCHANGED big

(* The answer ring is full: the message gets its own buffer back and goes  *)
(* to the pool.                                                            *)
Recycle(m) == pool' = pool \cup {m} /\ big' = [big EXCEPT ![m] = FALSE]

(* Mutant of handle_msg: an answer that finds its ring full is dropped. *)
handle_msg_Lost(p) ==
    LET m == Head(burst[p])
        t == msg_type[m]
    IN  /\ burst[p] # << >>
        /\ burst' = [burst EXCEPT ![p] = Tail(@)]
        /\ answered' = [answered EXCEPT ![m] = TRUE]
        /\ ring' = IF Len(ring[p][t]) < RingCap THEN [ring EXCEPT ![p][t] = Append(@, m)] ELSE ring
        /\ UNCHANGED <<pool, held, msg_type, big>>

(* Mutant of handle_msg: every answer goes to the ring of requests. *)
handle_msg_WrongRing(p) ==
    LET m == Head(burst[p]) IN
    /\ burst[p] # << >>
    /\ burst' = [burst EXCEPT ![p] = Tail(@)]
    /\ answered' = [answered EXCEPT ![m] = TRUE]
    /\ IF Len(ring[p][0]) < RingCap
       THEN ring' = [ring EXCEPT ![p][0] = Append(@, m)] /\ UNCHANGED <<pool, big>>
       ELSE Recycle(m) /\ UNCHANGED ring
    /\ UNCHANGED <<held, msg_type>>

(* handle_msg: the handler of the type (or handle_default_msg) sets the    *)
(* result, then the message goes to the ring of its type.                  *)
handle_msg(p) ==
    LET m == Head(burst[p])
        t == msg_type[m]
    IN  /\ burst[p] # << >>
        /\ burst' = [burst EXCEPT ![p] = Tail(@)]
        /\ answered' = [answered EXCEPT ![m] = TRUE]
        /\ IF Len(ring[p][t]) < RingCap
           THEN ring' = [ring EXCEPT ![p][t] = Append(@, m)] /\ UNCHANGED <<pool, big>>
           ELSE Recycle(m) /\ UNCHANGED ring
        /\ UNCHANGED <<held, msg_type>>

-----------------------------------------------------------------------------
Tool ==
    \/ \E m \in Msgs : tool_alloc(m) \/ tool_free(m)
    \/ \E m \in Msgs, p \in Procs, t \in AllTypes : tool_send(m, p, t)
    \/ \E p \in Procs, t \in Types : tool_recv(p, t)

Lcore(p) == process_msg_ring(p) \/ handle_msg(p)

Next == Tool \/ \E p \in Procs : Lcore(p)

SafeSpec == Init /\ [][Next]_vars

(* Every lcore serves its ring on each turn of main_loop; tools may stop   *)
(* at any point.                                                           *)
Spec == SafeSpec /\ \A p \in Procs : WF_vars(Lcore(p))

-----------------------------------------------------------------------------
(* Correctness.                                                            *)

TypeOK ==
    /\ pool \subseteq Msgs
    /\ held \subseteq Msgs
    /\ ring \in [Procs -> [AllTypes -> Seq(Msgs)]]
    /\ burst \in [Procs -> Seq(Msgs)]
    /\ msg_type \in [Msgs -> AllTypes]
    /\ big \in [Msgs -> BOOLEAN]
    /\ answered \in [Msgs -> BOOLEAN]

Somewhere ==
    \A m \in Msgs :
        \/ m \in pool
        \/ m \in held
        \/ \E p \in Procs : On(burst[p], m) \/ \E t \in AllTypes : On(ring[p][t], m)

FreeOrHeldOnly ==
    /\ pool \cap held = {}
    /\ \A m \in pool \cup held, p \in Procs :
          ~On(burst[p], m) /\ \A t \in AllTypes : ~On(ring[p][t], m)

OneRing ==
    \A m \in Msgs, p, q \in Procs :
        /\ On(burst[p], m) /\ On(burst[q], m) => p = q
        /\ \A t \in AllTypes : ~(On(burst[p], m) /\ On(ring[q][t], m))
        /\ \A t, u \in AllTypes : On(ring[p][t], m) /\ On(ring[q][u], m) => p = q /\ t = u

NoRepeats == \A p \in Procs : Once(burst[p]) /\ \A t \in AllTypes : Once(ring[p][t])

(* Every message is in exactly one place: the pool, a tool, one ring or    *)
(* one burst, and there once.  No answer is lost or delivered twice, even  *)
(* when the tool it was for is gone and its ring is full.                  *)
OnePlace == Somewhere /\ FreeOrHeldOnly /\ OneRing /\ NoRepeats

MsgInvariant == TypeOK /\ OnePlace

(* A message returns to the pool with the buffer it was created with, so   *)
(* that neither buffer is lost and the next tool gets a whole message.     *)
PoolHasOwnBuffers == \A m \in pool : ~big[m]

(* "ring[0] for lcore recv msg, other send": requests come from others     *)
(* only, and what is on it has still to be answered.                       *)
RequestsFromOthers == \A p \in Procs, m \in Msgs : On(ring[p][0], m) => ~answered[m]

(* Every request is handled, once: it leaves the request ring for good.    *)
RequestHandled ==
    \A p \in Procs, m \in Msgs :
        On(ring[p][0], m) ~> (~On(ring[p][0], m) /\ ~On(burst[p], m))
=============================================================================
