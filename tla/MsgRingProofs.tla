--------------------------- MODULE MsgRingProofs ---------------------------
(* Messages are conserved, for every number of messages, lcores, types and *)
(* every ring size, whatever types the tools send.                         *)
EXTENDS MsgRing, DataLemmas

(* The types of the rings include those of messages and the one of requests. *)
LEMMA TypesInAll == 0 \in AllTypes /\ Types \subseteq AllTypes
BY DEF AllTypes, LAZYBSD_UNKNOWN

(* One ring of one lcore is replaced. *)
LEMMA RingUpdated ==
    ASSUME TypeOK, NEW p \in Procs, NEW t \in AllTypes, NEW s \in Seq(Msgs),
           ring' = [ring EXCEPT ![p] = [ring[p] EXCEPT ![t] = s]]
    PROVE  /\ ring' \in [Procs -> [AllTypes -> Seq(Msgs)]]
           /\ \A q \in Procs, u \in AllTypes :
                 ring'[q][u] = IF q = p /\ u = t THEN s ELSE ring[q][u]
<1>1. ring \in [Procs -> [AllTypes -> Seq(Msgs)]]
  BY DEF TypeOK
<1>2. [ring[p] EXCEPT ![t] = s] \in [AllTypes -> Seq(Msgs)]
  BY <1>1
<1>3. QED
  BY <1>1, <1>2

(* At the start every message is in the pool. *)
LEMMA InitEstablishes == Init => MsgInvariant
<1> SUFFICES ASSUME Init PROVE MsgInvariant
  OBVIOUS
<1>1. \A x : ~On(<< >>, x)
  BY DEF On
<1>2. Once(<< >>)
  BY DEF Once
<1>3. TypeOK
  BY TypesInAll DEF Init, TypeOK, LAZYBSD_UNKNOWN
<1>4. OnePlace
  BY <1>1, <1>2 DEF Init, OnePlace, Somewhere, FreeOrHeldOnly, OneRing, NoRepeats
<1>5. QED
  BY <1>3, <1>4 DEF MsgInvariant

(* A tool takes a message from the pool or gives one back. *)
LEMMA AllocPreserves ==
    ASSUME MsgInvariant, NEW m \in Msgs, tool_alloc(m) \/ tool_free(m)
    PROVE  MsgInvariant'
<1>1. TypeOK'
  BY DEF MsgInvariant, TypeOK, tool_alloc, tool_free
<1>2. OnePlace'
  BY DEF MsgInvariant, OnePlace, Somewhere, FreeOrHeldOnly, OneRing, NoRepeats, tool_alloc, tool_free
<1>3. QED
  BY <1>1, <1>2 DEF MsgInvariant

(* A tool puts a request on ring[0]. *)
LEMMA SendPreserves ==
    ASSUME MsgInvariant, NEW m \in Msgs, NEW p \in Procs, NEW t \in AllTypes, tool_send(m, p, t)
    PROVE  MsgInvariant'
<1>1. TypeOK /\ OnePlace
  BY DEF MsgInvariant
<1> DEFINE s == ring[p][0]
<1>2. s \in Seq(Msgs) /\ Once(s) /\ ~On(s, m)
  BY <1>1, TypesInAll DEF TypeOK, OnePlace, Somewhere, FreeOrHeldOnly, OneRing, NoRepeats, tool_send
<1>3. /\ Append(s, m) \in Seq(Msgs) /\ Once(Append(s, m))
      /\ \A x : On(Append(s, m), x) <=> On(s, x) \/ x = m
  BY <1>2, AppendPlaces
<1>4. ring' = [ring EXCEPT ![p] = [ring[p] EXCEPT ![0] = Append(s, m)]]
  BY DEF tool_send
<1>5. \A q \in Procs, u \in AllTypes :
          ring'[q][u] = IF q = p /\ u = 0 THEN Append(s, m) ELSE ring[q][u]
  BY <1>1, <1>3, <1>4, TypesInAll, RingUpdated
<1>6. TypeOK'
  <2>1. ring' \in [Procs -> [AllTypes -> Seq(Msgs)]]
    BY <1>1, <1>3, <1>4, TypesInAll, RingUpdated
  <2>2. QED
    BY <1>1, <2>1 DEF TypeOK, tool_send
<1>7. \A q \in Procs, u \in AllTypes :
          /\ Once(ring'[q][u])
          /\ \A x : On(ring'[q][u], x) <=> On(ring[q][u], x) \/ (q = p /\ u = 0 /\ x = m)
  BY <1>1, <1>3, <1>5 DEF OnePlace, Somewhere, FreeOrHeldOnly, OneRing, NoRepeats
<1>8. /\ pool' = pool /\ held' = held \ {m} /\ m \in held /\ burst' = burst
  BY DEF tool_send
<1>9. OnePlace'
  <2>1. Somewhere'
    BY <1>1, <1>7, <1>8, TypesInAll DEF OnePlace, Somewhere, FreeOrHeldOnly, OneRing, NoRepeats
  <2>2. FreeOrHeldOnly'
    BY <1>1, <1>7, <1>8, TypesInAll DEF OnePlace, Somewhere, FreeOrHeldOnly, OneRing, NoRepeats
  <2>3. OneRing'
    <3>1. \A q \in Procs, u \in AllTypes : ~On(burst[q], m) /\ ~On(ring[q][u], m)
      BY <1>1, <1>8 DEF OnePlace, FreeOrHeldOnly
    <3>2. OneRing /\ burst' = burst
      BY <1>1, <1>8 DEF OnePlace
    <3>3. QED
      BY <1>7, <3>1, <3>2 DEF OneRing
  <2>4. NoRepeats'
    BY <1>1, <1>7, <1>8, TypesInAll DEF OnePlace, Somewhere, FreeOrHeldOnly, OneRing, NoRepeats
  <2>5. QED
    BY <2>1, <2>2, <2>3, <2>4 DEF OnePlace
<1>10. QED
  BY <1>6, <1>9 DEF MsgInvariant

(* A tool reads an answer. *)
LEMMA RecvPreserves ==
    ASSUME MsgInvariant, NEW p \in Procs, NEW t \in Types, tool_recv(p, t)
    PROVE  MsgInvariant'
<1>1. TypeOK /\ OnePlace
  BY DEF MsgInvariant
<1> DEFINE s == ring[p][t]
           m == Head(s)
<1>2. s \in Seq(Msgs) /\ Once(s) /\ Len(s) > 0
  BY <1>1, TypesInAll DEF TypeOK, OnePlace, Somewhere, FreeOrHeldOnly, OneRing, NoRepeats, tool_recv
<1>3. /\ Tail(s) \in Seq(Msgs) /\ Once(Tail(s)) /\ m \in Msgs /\ On(s, m)
      /\ \A x : On(Tail(s), x) <=> On(s, x) /\ x # m
  BY <1>2, TailPlaces
<1>4. /\ ring' = [ring EXCEPT ![p] = [ring[p] EXCEPT ![t] = Tail(s)]]
      /\ pool' = pool /\ held' = held \cup {m} /\ burst' = burst
  BY DEF tool_recv
<1> HIDE DEF m
<1>5. TypeOK'
  <2>1. ring' \in [Procs -> [AllTypes -> Seq(Msgs)]]
    BY <1>1, <1>3, <1>4, TypesInAll, RingUpdated
  <2>2. QED
    BY <1>1, <1>3, <1>4, <2>1 DEF TypeOK, tool_recv
<1>6. \A q \in Procs, u \in AllTypes :
          ring'[q][u] = IF q = p /\ u = t THEN Tail(s) ELSE ring[q][u]
  BY <1>1, <1>3, <1>4, TypesInAll, RingUpdated
<1>7. \A q \in Procs, u \in AllTypes :
          /\ Once(ring'[q][u])
          /\ \A x : On(ring'[q][u], x) <=> On(ring[q][u], x) /\ ~(q = p /\ u = t /\ x = m)
  BY <1>1, <1>3, <1>6 DEF OnePlace, Somewhere, FreeOrHeldOnly, OneRing, NoRepeats
<1>8. OnePlace'
  <2>1. Somewhere'
    BY <1>1, <1>3, <1>4, <1>7, TypesInAll DEF OnePlace, Somewhere, FreeOrHeldOnly, OneRing, NoRepeats
  <2>2. FreeOrHeldOnly'
    BY <1>1, <1>3, <1>4, <1>7, TypesInAll DEF OnePlace, Somewhere, FreeOrHeldOnly, OneRing, NoRepeats
  <2>3. OneRing'
    BY <1>1, <1>3, <1>4, <1>7, TypesInAll DEF OnePlace, Somewhere, FreeOrHeldOnly, OneRing, NoRepeats
  <2>4. NoRepeats'
    BY <1>1, <1>3, <1>4, <1>7, TypesInAll DEF OnePlace, Somewhere, FreeOrHeldOnly, OneRing, NoRepeats
  <2>5. QED
    BY <2>1, <2>2, <2>3, <2>4 DEF OnePlace
<1>9. QED
  BY <1>5, <1>8 DEF MsgInvariant

(* The lcore dequeues a burst of requests. *)
LEMMA DequeuePreserves ==
    ASSUME MsgInvariant, NEW p \in Procs, process_msg_ring(p)
    PROVE  MsgInvariant'
<1>1. TypeOK /\ OnePlace
  BY DEF MsgInvariant
<1> DEFINE s == ring[p][0]
           n == Lesser(MaxBurst, Len(s))
           a == SubSeq(s, 1, n)
           b == SubSeq(s, n + 1, Len(s))
<1>2. s \in Seq(Msgs) /\ Once(s) /\ n \in 0 .. Len(s)
  BY <1>1, CapAssumption, TypesInAll DEF TypeOK, OnePlace, Somewhere, FreeOrHeldOnly, OneRing, NoRepeats, Lesser
<1>3. /\ a \in Seq(Msgs) /\ b \in Seq(Msgs) /\ Once(a) /\ Once(b)
      /\ \A x : On(s, x) <=> On(a, x) \/ On(b, x)
      /\ \A x : ~(On(a, x) /\ On(b, x))
  BY <1>2, SplitPlaces
<1>4. /\ ring' = [ring EXCEPT ![p] = [ring[p] EXCEPT ![0] = b]]
      /\ burst[p] = << >> /\ burst' = [burst EXCEPT ![p] = a]
      /\ pool' = pool /\ held' = held
  BY DEF process_msg_ring
<1> HIDE DEF a, b
<1>5. TypeOK'
  <2>1. ring' \in [Procs -> [AllTypes -> Seq(Msgs)]]
    BY <1>1, <1>3, <1>4, TypesInAll, RingUpdated
  <2>2. QED
    BY <1>1, <1>3, <1>4, <2>1 DEF TypeOK, process_msg_ring
<1>6. \A q \in Procs, u \in AllTypes :
          /\ ring'[q][u] = IF q = p /\ u = 0 THEN b ELSE ring[q][u]
          /\ burst'[q] = IF q = p THEN a ELSE burst[q]
  BY <1>1, <1>3, <1>4, TypesInAll, RingUpdated DEF TypeOK
<1>7. ~\E x : On(burst[p], x)
  BY <1>4 DEF On
<1>8. \A q \in Procs, u \in AllTypes :
          /\ Once(ring'[q][u])
          /\ \A x : On(ring'[q][u], x) <=> On(ring[q][u], x) /\ ~(q = p /\ u = 0 /\ On(a, x))
  BY <1>1, <1>3, <1>6 DEF OnePlace, Somewhere, FreeOrHeldOnly, OneRing, NoRepeats
<1>9. \A q \in Procs :
          /\ Once(burst'[q])
          /\ \A x : On(burst'[q], x) <=> On(burst[q], x) \/ (q = p /\ On(a, x))
  BY <1>1, <1>3, <1>6, <1>7, TypesInAll DEF OnePlace, Somewhere, FreeOrHeldOnly, OneRing, NoRepeats
<1>10. \A x : On(a, x) => On(ring[p][0], x)
  BY <1>3
<1>11. OnePlace'
  BY <1>1, <1>4, <1>7, <1>8, <1>9, <1>10, TypesInAll DEF OnePlace, Somewhere, FreeOrHeldOnly, OneRing, NoRepeats
<1>12. QED
  BY <1>5, <1>11 DEF MsgInvariant

(* The lcore answers a request, or recycles it. *)
LEMMA HandlePreserves ==
    ASSUME MsgInvariant, NEW p \in Procs, handle_msg(p)
    PROVE  MsgInvariant'
<1>1. TypeOK /\ OnePlace
  BY DEF MsgInvariant
<1> DEFINE m == Head(burst[p])
           t == msg_type[m]
           s == ring[p][t]
<1>2. burst[p] \in Seq(Msgs) /\ Once(burst[p]) /\ Len(burst[p]) > 0
  BY <1>1 DEF TypeOK, OnePlace, Somewhere, FreeOrHeldOnly, OneRing, NoRepeats, handle_msg
<1>3. /\ Tail(burst[p]) \in Seq(Msgs) /\ Once(Tail(burst[p])) /\ m \in Msgs /\ On(burst[p], m)
      /\ \A x : On(Tail(burst[p]), x) <=> On(burst[p], x) /\ x # m
  BY <1>2, TailPlaces
<1>4. t \in AllTypes
  BY <1>1, <1>3 DEF TypeOK
<1>5. s \in Seq(Msgs) /\ Once(s) /\ ~On(s, m)
  BY <1>1, <1>3, <1>4 DEF TypeOK, OnePlace, Somewhere, FreeOrHeldOnly, OneRing, NoRepeats
<1>6. /\ Append(s, m) \in Seq(Msgs) /\ Once(Append(s, m))
      /\ \A x : On(Append(s, m), x) <=> On(s, x) \/ x = m
  BY <1>3, <1>5, AppendPlaces
<1>7. /\ burst' = [burst EXCEPT ![p] = Tail(burst[p])]
      /\ held' = held
      /\ \/ /\ ring' = [ring EXCEPT ![p] = [ring[p] EXCEPT ![t] = Append(s, m)]]
            /\ pool' = pool
         \/ /\ ring' = ring
            /\ pool' = pool \cup {m}
  BY DEF handle_msg, Recycle
<1>8. big' \in [Msgs -> BOOLEAN] /\ answered' \in [Msgs -> BOOLEAN] /\ msg_type' = msg_type
  BY <1>1 DEF handle_msg, Recycle, TypeOK
<1> HIDE DEF m, t
<1>9. TypeOK'
  <2>1. ring' \in [Procs -> [AllTypes -> Seq(Msgs)]]
    <3>1. CASE ring' = ring
      BY <1>1, <3>1 DEF TypeOK
    <3>2. CASE ring' = [ring EXCEPT ![p] = [ring[p] EXCEPT ![t] = Append(s, m)]]
      BY <1>1, <1>4, <1>6, <3>2, RingUpdated
    <3>3. QED
      BY <1>7, <3>1, <3>2
  <2>2. QED
    BY <1>1, <1>3, <1>7, <1>8, <2>1 DEF TypeOK
<1>10. \A q \in Procs :
          /\ Once(burst'[q])
          /\ \A x : On(burst'[q], x) <=> On(burst[q], x) /\ ~(q = p /\ x = m)
  BY <1>1, <1>3, <1>7 DEF OnePlace, Somewhere, FreeOrHeldOnly, OneRing, NoRepeats, TypeOK
<1>11. CASE ring' = [ring EXCEPT ![p] = [ring[p] EXCEPT ![t] = Append(s, m)]] /\ pool' = pool
  <2>1. \A q \in Procs, u \in AllTypes :
            ring'[q][u] = IF q = p /\ u = t THEN Append(s, m) ELSE ring[q][u]
    BY <1>1, <1>4, <1>6, <1>11, RingUpdated
  <2>2. \A q \in Procs, u \in AllTypes :
            /\ Once(ring'[q][u])
            /\ \A x : On(ring'[q][u], x) <=> On(ring[q][u], x) \/ (q = p /\ u = t /\ x = m)
    BY <1>1, <1>6, <2>1 DEF OnePlace, Somewhere, FreeOrHeldOnly, OneRing, NoRepeats
  <2>3. OnePlace'
    <3>1. Somewhere'
      BY ZenonT(60), <1>1, <1>3, <1>4, <1>7, <1>10, <1>11, <2>2 DEF OnePlace, Somewhere, FreeOrHeldOnly, OneRing, NoRepeats
    <3>2. FreeOrHeldOnly'
      <4>1. m \notin pool \cup held
        BY <1>1, <1>3 DEF OnePlace, FreeOrHeldOnly
      <4>2. FreeOrHeldOnly /\ pool' = pool /\ held' = held
        BY <1>1, <1>7, <1>11 DEF OnePlace
      <4>3. QED
        BY <1>10, <2>2, <4>1, <4>2 DEF FreeOrHeldOnly
    <3>3. OneRing'
      <4>1. \A q \in Procs, u \in AllTypes : (On(burst[q], m) => q = p) /\ ~On(ring[q][u], m)
        BY <1>1, <1>3 DEF OnePlace, OneRing
      <4>2. OneRing
        BY <1>1 DEF OnePlace
      <4>3. ASSUME NEW x \in Msgs, NEW q \in Procs, NEW r \in Procs
            PROVE  /\ On(burst'[q], x) /\ On(burst'[r], x) => q = r
                   /\ \A u \in AllTypes : ~(On(burst'[q], x) /\ On(ring'[r][u], x))
                   /\ \A u, v \in AllTypes : On(ring'[q][u], x) /\ On(ring'[r][v], x) => q = r /\ u = v
        <5>1. CASE x = m
          <6>1. ~On(burst'[q], m) /\ ~On(burst'[r], m)
            BY <1>10, <4>1, TypesInAll
          <6>2. \A u \in AllTypes : /\ On(ring'[q][u], m) <=> q = p /\ u = t
                                    /\ On(ring'[r][u], m) <=> r = p /\ u = t
            BY <2>2, <4>1
          <6>3. QED
            BY <5>1, <6>1, <6>2
        <5>2. CASE x # m
          <6>1. (On(burst'[q], x) <=> On(burst[q], x)) /\ (On(burst'[r], x) <=> On(burst[r], x))
            BY <1>10, <5>2
          <6>2. \A u \in AllTypes : /\ On(ring'[q][u], x) <=> On(ring[q][u], x)
                                    /\ On(ring'[r][u], x) <=> On(ring[r][u], x)
            BY <2>2, <5>2
          <6>3. QED
            BY <4>2, <6>1, <6>2 DEF OneRing
        <5>3. QED
          BY <5>1, <5>2
      <4>4. QED
        BY <4>3 DEF OneRing
    <3>4. NoRepeats'
      BY <1>1, <1>3, <1>4, <1>7, <1>10, <1>11, <2>2 DEF OnePlace, Somewhere, FreeOrHeldOnly, OneRing, NoRepeats
    <3>5. QED
      BY <3>1, <3>2, <3>3, <3>4 DEF OnePlace
  <2>4. QED
    BY <1>9, <2>3 DEF MsgInvariant
<1>12. CASE ring' = ring /\ pool' = pool \cup {m}
  <2>1. OnePlace'
    BY <1>1, <1>3, <1>7, <1>10, <1>12 DEF OnePlace, Somewhere, FreeOrHeldOnly, OneRing, NoRepeats
  <2>2. QED
    BY <1>9, <2>1 DEF MsgInvariant
<1>13. QED
  BY <1>7, <1>11, <1>12

(* Every step of an lcore or a tool keeps the invariant. *)
LEMMA StepPreserves == MsgInvariant /\ [Next]_vars => MsgInvariant'
<1> SUFFICES ASSUME MsgInvariant, [Next]_vars PROVE MsgInvariant'
  OBVIOUS
<1>1. CASE UNCHANGED vars
  <2>1. /\ pool' = pool /\ held' = held /\ ring' = ring /\ burst' = burst
        /\ msg_type' = msg_type /\ big' = big /\ answered' = answered
    BY <1>1 DEF vars
  <2>2. TypeOK' /\ OnePlace'
    BY <2>1 DEF MsgInvariant, TypeOK, OnePlace, Somewhere, FreeOrHeldOnly, OneRing, NoRepeats
  <2>3. QED
    BY <2>2 DEF MsgInvariant
<1>2. QED
  BY <1>1, AllocPreserves, SendPreserves, RecvPreserves, DequeuePreserves, HandlePreserves
  DEF Next, Tool, Lcore

(* No control message is lost, duplicated or in two hands: across full     *)
(* answer rings, tools that never read their answers and messages without  *)
(* a type, every message is in the pool, with a tool, on one ring or in    *)
(* one burst.                                                              *)
THEOREM MessagesConserved == SafeSpec => []MsgInvariant
<1>1. QED
  BY InitEstablishes, StepPreserves, PTL DEF SafeSpec

(* The places where a message is with the lcores: no tool holds it and it  *)
(* is not free.                                                            *)
LEMMA BurstHeadIsTaken ==
    ASSUME MsgInvariant, NEW p \in Procs, burst[p] # << >>
    PROVE  LET m == Head(burst[p]) IN m \in Msgs /\ On(burst[p], m) /\ m \notin pool \cup held
<1> DEFINE s == burst[p]
<1>1. s \in Seq(Msgs) /\ Len(s) > 0 /\ Once(s)
  BY DEF MsgInvariant, TypeOK, OnePlace, NoRepeats
<1>2. Head(s) \in Msgs /\ On(s, Head(s))
  BY <1>1, TailPlaces
<1>3. QED
  BY <1>2 DEF MsgInvariant, OnePlace, FreeOrHeldOnly

(* Every step keeps the buffers of the messages in the pool. *)
LEMMA OwnBuffersStep ==
    ASSUME MsgInvariant, PoolHasOwnBuffers, [Next]_vars
    PROVE  PoolHasOwnBuffers'
<1> USE DEF PoolHasOwnBuffers
<1>1. /\ pool \subseteq Msgs /\ held \subseteq Msgs /\ pool \cap held = {}
      /\ big \in [Msgs -> BOOLEAN]
  BY DEF MsgInvariant, TypeOK, OnePlace, FreeOrHeldOnly
<1>2. ASSUME NEW m \in Msgs, tool_alloc(m) PROVE PoolHasOwnBuffers'
  BY <1>1, <1>2 DEF tool_alloc
<1>3. ASSUME NEW m \in Msgs, tool_free(m) PROVE PoolHasOwnBuffers'
  BY <1>1, <1>3 DEF tool_free
<1>4. ASSUME NEW m \in Msgs, NEW p \in Procs, NEW t \in AllTypes, tool_send(m, p, t)
      PROVE  PoolHasOwnBuffers'
  <2>1. m \in held /\ pool' = pool /\ \E b \in BOOLEAN : big' = [big EXCEPT ![m] = b]
    BY <1>4 DEF tool_send
  <2>2. \A x \in pool : big'[x] = big[x]
    BY <1>1, <2>1
  <2>3. QED
    BY <2>1, <2>2
<1>5. ASSUME NEW p \in Procs, NEW t \in Types, tool_recv(p, t) PROVE PoolHasOwnBuffers'
  BY <1>1, <1>5 DEF tool_recv
<1>6. ASSUME NEW p \in Procs, process_msg_ring(p) PROVE PoolHasOwnBuffers'
  BY <1>1, <1>6 DEF process_msg_ring
<1>7. ASSUME NEW p \in Procs, handle_msg(p) PROVE PoolHasOwnBuffers'
  <2> DEFINE m == Head(burst[p])
  <2>1. /\ m \in Msgs
        /\ (pool' = pool /\ big' = big) \/ (pool' = pool \cup {m} /\ big' = [big EXCEPT ![m] = FALSE])
    BY <1>7, BurstHeadIsTaken DEF handle_msg, Recycle
  <2> HIDE DEF m
  <2>2. QED
    BY <1>1, <2>1
<1>8. CASE UNCHANGED vars
  BY <1>8 DEF vars
<1>9. QED
  BY <1>2, <1>3, <1>4, <1>5, <1>6, <1>7, <1>8 DEF Next, Tool, Lcore

(* Whatever ring is full and whoever frees a message, it returns to the    *)
(* pool with the buffer it was created with: handle_msg and the tools undo *)
(* the replacement of the buffer on every way back.                        *)
THEOREM BuffersReturned == SafeSpec => []PoolHasOwnBuffers
<1>1. Init => PoolHasOwnBuffers
  BY DEF Init, PoolHasOwnBuffers
<1>2. MsgInvariant /\ PoolHasOwnBuffers /\ [Next]_vars => PoolHasOwnBuffers'
  BY OwnBuffersStep
<1>3. QED
  BY <1>1, <1>2, MessagesConserved, PTL DEF SafeSpec

(* When every tool sets the type, no message on its way to handle_msg is   *)
(* without one.                                                            *)
TypedRequests ==
    \A p \in Procs, m \in Msgs :
        On(ring[p][0], m) \/ On(burst[p], m) => msg_type[m] # LAZYBSD_UNKNOWN

(* Every step keeps answers off the request rings. *)
LEMMA RequestsStep ==
    ASSUME ~Unknown, MsgInvariant, TypedRequests, RequestsFromOthers, [Next]_vars
    PROVE  TypedRequests' /\ RequestsFromOthers'
<1> USE DEF TypedRequests, RequestsFromOthers, LAZYBSD_UNKNOWN
<1>1. TypeOK /\ OnePlace
  BY DEF MsgInvariant
<1>2. ASSUME NEW m \in Msgs, tool_alloc(m) \/ tool_free(m) PROVE TypedRequests' /\ RequestsFromOthers'
  BY <1>1, <1>2 DEF TypeOK, tool_alloc, tool_free
<1>3. ASSUME NEW m \in Msgs, NEW p \in Procs, NEW t \in AllTypes, tool_send(m, p, t)
      PROVE  TypedRequests' /\ RequestsFromOthers'
  <2>1. /\ t # 0 /\ ~answered[m] /\ m \in held /\ burst' = burst /\ answered' = answered
        /\ \A x \in Msgs : msg_type'[x] = IF x = m THEN t ELSE msg_type[x]
    BY <1>1, <1>3 DEF tool_send, TypeOK
  <2>2. ring[p][0] \in Seq(Msgs)
    BY <1>1, TypesInAll DEF TypeOK
  <2>3. /\ Append(ring[p][0], m) \in Seq(Msgs)
        /\ \A x : On(Append(ring[p][0], m), x) <=> On(ring[p][0], x) \/ x = m
    BY <2>2, AppendPlaces
  <2>4. ring' = [ring EXCEPT ![p] = [ring[p] EXCEPT ![0] = Append(ring[p][0], m)]]
    BY <1>3 DEF tool_send
  <2>5. \A q \in Procs : ring'[q][0] = IF q = p THEN Append(ring[p][0], m) ELSE ring[q][0]
    BY <1>1, <2>3, <2>4, TypesInAll, RingUpdated
  <2>6. \A q \in Procs, x \in Msgs : On(ring'[q][0], x) => On(ring[q][0], x) \/ x = m
    BY <2>3, <2>5
  <2>7. QED
    BY <2>1, <2>6
<1>4. ASSUME NEW p \in Procs, NEW t \in Types, tool_recv(p, t)
      PROVE  TypedRequests' /\ RequestsFromOthers'
  <2>1. /\ ring[p][t] \in Seq(Msgs) /\ ring[p][t] # << >> /\ t \in AllTypes /\ t # 0
        /\ ring' = [ring EXCEPT ![p] = [ring[p] EXCEPT ![t] = Tail(ring[p][t])]]
    BY <1>1, <1>4, TypesInAll, TypesAssumption DEF TypeOK, tool_recv
  <2>2. Tail(ring[p][t]) \in Seq(Msgs)
    BY <2>1
  <2>3. \A q \in Procs : ring'[q][0] = ring[q][0]
    BY <1>1, <2>1, <2>2, TypesInAll, RingUpdated
  <2>4. QED
    BY <1>4, <2>3 DEF tool_recv
<1>5. ASSUME NEW p \in Procs, process_msg_ring(p) PROVE TypedRequests' /\ RequestsFromOthers'
  <2> DEFINE s == ring[p][0]
             n == Lesser(MaxBurst, Len(s))
             a == SubSeq(s, 1, n)
             b == SubSeq(s, n + 1, Len(s))
  <2>1. s \in Seq(Msgs) /\ Once(s) /\ n \in 0 .. Len(s)
    BY <1>1, CapAssumption, TypesInAll DEF TypeOK, OnePlace, NoRepeats, Lesser
  <2>2. /\ b \in Seq(Msgs)
        /\ \A x : On(s, x) <=> On(a, x) \/ On(b, x)
    BY <2>1, SplitPlaces
  <2>3. /\ ring' = [ring EXCEPT ![p] = [ring[p] EXCEPT ![0] = b]]
        /\ burst' = [burst EXCEPT ![p] = a]
        /\ msg_type' = msg_type /\ answered' = answered
    BY <1>5 DEF process_msg_ring
  <2> HIDE DEF a, b
  <2>4. \A q \in Procs : ring'[q][0] = IF q = p THEN b ELSE ring[q][0]
    BY <1>1, <2>2, <2>3, TypesInAll, RingUpdated
  <2>5. \A q \in Procs : burst'[q] = IF q = p THEN a ELSE burst[q]
    BY <1>1, <2>3 DEF TypeOK
  <2>6. QED
    BY <2>2, <2>3, <2>4, <2>5
<1>6. ASSUME NEW p \in Procs, handle_msg(p) PROVE TypedRequests' /\ RequestsFromOthers'
  <2> DEFINE m == Head(burst[p])
             t == msg_type[m]
  <2>1. m \in Msgs /\ On(burst[p], m) /\ t \in AllTypes /\ t # 0
    BY <1>1, <1>6, BurstHeadIsTaken DEF handle_msg, TypeOK
  <2>2. burst[p] \in Seq(Msgs) /\ Len(burst[p]) > 0 /\ Once(burst[p])
    BY <1>1, <1>6 DEF handle_msg, TypeOK, OnePlace, NoRepeats
  <2>3. /\ Tail(burst[p]) \in Seq(Msgs)
        /\ \A x : On(Tail(burst[p]), x) => On(burst[p], x)
    BY <2>2, TailPlaces
  <2>4. /\ burst' = [burst EXCEPT ![p] = Tail(burst[p])]
        /\ msg_type' = msg_type /\ answered' = [answered EXCEPT ![m] = TRUE]
        /\ \/ ring' = ring
           \/ ring' = [ring EXCEPT ![p] = [ring[p] EXCEPT ![t] = Append(ring[p][t], m)]]
    BY <1>6 DEF handle_msg
  <2> HIDE DEF m, t
  <2>5. \A q \in Procs : ring'[q][0] = ring[q][0]
    <3>1. CASE ring' = ring
      BY <3>1
    <3>2. CASE ring' = [ring EXCEPT ![p] = [ring[p] EXCEPT ![t] = Append(ring[p][t], m)]]
      <4>1. Append(ring[p][t], m) \in Seq(Msgs)
        BY <1>1, <2>1 DEF TypeOK
      <4>2. QED
        BY <1>1, <2>1, <3>2, <4>1, TypesInAll, RingUpdated
    <3>3. QED
      BY <2>4, <3>1, <3>2
  <2>6. \A q \in Procs : ~On(ring[q][0], m)
    BY <1>1, <2>1, TypesInAll DEF OnePlace, OneRing
  <2>7. \A q \in Procs, x \in Msgs : On(burst'[q], x) => On(burst[q], x)
    BY <1>1, <2>3, <2>4 DEF TypeOK
  <2>8. \A x \in Msgs : x # m => answered'[x] = answered[x]
    BY <1>1, <2>4 DEF TypeOK
  <2>9. QED
    BY <2>4, <2>5, <2>6, <2>7, <2>8
<1>7. CASE UNCHANGED vars
  BY <1>7 DEF vars
<1>8. QED
  BY <1>2, <1>3, <1>4, <1>5, <1>6, <1>7 DEF Next, Tool, Lcore

(* As long as the tools set the type of what they send, the ring of        *)
(* requests holds requests only: no answer of handle_msg comes back to an  *)
(* lcore.  The run with Unknown shows that the condition is needed.        *)
THEOREM AnswersLeave == ~Unknown /\ SafeSpec => []RequestsFromOthers
<1>1. SUFFICES ASSUME ~Unknown PROVE SafeSpec => []RequestsFromOthers
  OBVIOUS
<1>2. Init => TypedRequests /\ RequestsFromOthers
  BY TypesInAll DEF Init, TypedRequests, RequestsFromOthers, On
<1>3. MsgInvariant /\ TypedRequests /\ RequestsFromOthers /\ [Next]_vars
          => TypedRequests' /\ RequestsFromOthers'
  BY <1>1, RequestsStep
<1>4. QED
  BY <1>2, <1>3, MessagesConserved, PTL DEF SafeSpec
=============================================================================
