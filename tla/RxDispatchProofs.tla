-------------------------- MODULE RxDispatchProofs --------------------------
(* Mbufs are conserved on the receive side, for every number of processes, *)
(* mbufs and frames, every ring and burst size, and any dispatcher.        *)
EXTENDS RxDispatch, DataLemmas

(* What a step may do to an mbuf: leave it where it is, free it, or put it *)
(* in one place.                                                           *)
Kept(x) ==
    /\ x \in pool' <=> x \in pool
    /\ \A p \in Places, q \in Queues : Holds(p, q, x)' <=> Holds(p, q, x)

NowFree(x) ==
    /\ x \in pool'
    /\ \A p \in Places, q \in Queues : ~Holds(p, q, x)'

NowAt(x, p, q) ==
    /\ x \notin pool'
    /\ \A o \in Places, r \in Queues : Holds(o, r, x)' <=> o = p /\ r = q

(* A step that keeps, frees or moves each mbuf keeps one holder for each. *)
LEMMA MovesConserve ==
    ASSUME OneHolder, NoRepeats', pool' \subseteq Mbufs,
           \A x \in Mbufs : Kept(x) \/ NowFree(x) \/ \E p \in Places, q \in Queues : NowAt(x, p, q)
    PROVE  OneHolder'
<1>1. NotLost'
  <2> SUFFICES ASSUME NEW x \in Mbufs \ pool'
               PROVE  \E p \in Places, q \in Queues : Holds(p, q, x)'
    BY DEF NotLost
  <2>1. CASE Kept(x)
    BY <2>1 DEF Kept, OneHolder, NotLost
  <2>2. CASE \E p \in Places, q \in Queues : NowAt(x, p, q)
    BY <2>2 DEF NowAt
  <2>3. QED
    BY <2>1, <2>2 DEF NowFree
<1>2. FreeNotHeld'
  <2> SUFFICES ASSUME NEW x \in pool', NEW p \in Places, NEW q \in Queues
               PROVE  ~Holds(p, q, x)'
    BY DEF FreeNotHeld
  <2>1. x \in Mbufs /\ ~\E o \in Places, r \in Queues : NowAt(x, o, r)
    BY DEF NowAt
  <2>2. CASE Kept(x)
    BY <2>2 DEF Kept, OneHolder, FreeNotHeld
  <2>3. QED
    BY <2>1, <2>2 DEF NowFree
<1>3. SingleHolder'
  <2> SUFFICES ASSUME NEW x \in Mbufs, NEW p \in Places, NEW o \in Places,
                      NEW q \in Queues, NEW r \in Queues, Holds(p, q, x)', Holds(o, r, x)'
               PROVE  p = o /\ q = r
    BY DEF SingleHolder
  <2>1. CASE Kept(x)
    BY <2>1 DEF Kept, OneHolder, SingleHolder
  <2>2. CASE \E a \in Places, b \in Queues : NowAt(x, a, b)
    BY <2>2 DEF NowAt
  <2>3. QED
    BY <2>1, <2>2 DEF NowFree
<1>4. QED
  BY <1>1, <1>2, <1>3 DEF OneHolder

(* An mbuf that is somewhere is nowhere else. *)
LEMMA OnlyThere ==
    ASSUME OneHolder, NEW m \in Mbufs, NEW p \in Places, NEW q \in Queues, Holds(p, q, m)
    PROVE  /\ m \notin pool
           /\ \A o \in Places, r \in Queues : Holds(o, r, m) <=> o = p /\ r = q
BY DEF OneHolder, FreeNotHeld, SingleHolder

(* The same, place by place. *)
LEMMA OnlyInBurst ==
    ASSUME OneHolder, NEW m \in Mbufs, NEW q \in Queues, On(burst[q], m)
    PROVE  /\ m \notin pool
           /\ \A r \in Queues : /\ ~On(nicq[r], m) /\ ~On(ring[r], m) /\ (On(burst[r], m) <=> r = q)
                                /\ m \notin stack[r] /\ m \notin tx[r]
<1>1. Holds("burst", q, m)
  BY DEF Holds
<1>2. QED
  BY <1>1, OnlyThere DEF Places, Holds

(* A free mbuf is in none of the places. *)
LEMMA OnlyInPool ==
    ASSUME OneHolder, NEW m \in pool, NEW r \in Queues
    PROVE  ~On(nicq[r], m) /\ ~On(ring[r], m) /\ ~On(burst[r], m) /\ m \notin stack[r] /\ m \notin tx[r]
BY DEF OneHolder, FreeNotHeld, Places, Holds

(* An mbuf that no place gains or loses is kept. *)
LEMMA KeptByPlace ==
    ASSUME NEW x \in Mbufs, x \in pool' <=> x \in pool,
           \A q \in Queues :
               /\ On(nicq'[q], x) <=> On(nicq[q], x)
               /\ On(ring'[q], x) <=> On(ring[q], x)
               /\ On(burst'[q], x) <=> On(burst[q], x)
               /\ x \in stack'[q] <=> x \in stack[q]
               /\ x \in tx'[q] <=> x \in tx[q]
    PROVE  Kept(x)
BY DEF Kept, Holds

(* An mbuf that is in the pool and in no place is free. *)
LEMMA FreeByPlace ==
    ASSUME NEW x \in Mbufs, x \in pool',
           \A q \in Queues : /\ ~On(nicq'[q], x) /\ ~On(ring'[q], x) /\ ~On(burst'[q], x)
                             /\ x \notin stack'[q] /\ x \notin tx'[q]
    PROVE  NowFree(x)
BY DEF NowFree, Holds

(* An mbuf that one place alone has is there. *)
LEMMA AtByPlace ==
    ASSUME NEW x \in Mbufs, x \notin pool', NEW p \in Places, NEW r \in Queues,
           \A q \in Queues :
               /\ On(nicq'[q], x) <=> p = "nic" /\ q = r
               /\ On(ring'[q], x) <=> p = "ring" /\ q = r
               /\ On(burst'[q], x) <=> p = "burst" /\ q = r
               /\ x \in stack'[q] <=> p = "stack" /\ q = r
               /\ x \in tx'[q] <=> p = "tx" /\ q = r
    PROVE  NowAt(x, p, r)
BY DEF NowAt, Holds, Places

(* The first packet of the burst leaves it. *)
LEMMA RtemTaken ==
    ASSUME RxInvariant, NEW q \in Queues, pc[q] \in {"work", "copy", "input"}, NextPacket(q)
    PROVE  /\ rtem(q) \in Mbufs /\ frame(q) \in 0 .. MaxFrames /\ On(burst[q], rtem(q))
           /\ burst' \in [Queues -> Seq(Mbufs)]
           /\ pc' \in [Queues -> {"ring", "rx", "work", "copy", "input"}]
           /\ BurstInStep'
           /\ \A r \in Queues :
                 /\ Once(burst'[r])
                 /\ \A x : On(burst'[r], x) <=> On(burst[r], x) /\ x # rtem(q)
<1> DEFINE s == burst[q]
<1>1. TypeOK /\ BurstInStep /\ OneHolder
  BY DEF RxInvariant
<1>2. s \in Seq(Mbufs) /\ Len(s) > 0 /\ Once(s)
  BY <1>1 DEF TypeOK, BurstInStep, OneHolder, NoRepeats
<1>3. /\ Tail(s) \in Seq(Mbufs) /\ Len(Tail(s)) = Len(s) - 1 /\ Len(s) \in Nat
      /\ s[1] \in Mbufs /\ On(s, s[1])
      /\ Once(Tail(s))
      /\ \A x : On(Tail(s), x) <=> On(s, x) /\ x # s[1]
  BY <1>2, TailPlaces
<1>4. burst' = [burst EXCEPT ![q] = Tail(s)]
  BY DEF NextPacket
<1>5. /\ burst' \in [Queues -> Seq(Mbufs)]
      /\ \A r \in Queues : burst'[r] = IF r = q THEN Tail(s) ELSE burst[r]
  BY <1>1, <1>3, <1>4 DEF TypeOK
<1>6. /\ pc' \in [Queues -> {"ring", "rx", "work", "copy", "input"}]
      /\ \A r \in Queues : pc'[r] = IF r # q THEN pc[r]
                                    ELSE IF Len(s) > 1 THEN "work"
                                    ELSE IF from_ring[q] THEN "rx" ELSE "ring"
  BY <1>1 DEF TypeOK, NextPacket
<1>7. BurstInStep'
  BY SMTT(30), <1>1, <1>3, <1>5, <1>6 DEF BurstInStep
<1>8. \A r \in Queues : r # q => ~On(burst[r], s[1])
  BY <1>1, <1>3, OnlyInBurst
<1>9. ASSUME NEW r \in Queues
      PROVE  Once(burst'[r]) /\ \A x : On(burst'[r], x) <=> On(burst[r], x) /\ x # s[1]
  BY <1>1, <1>3, <1>5, <1>8 DEF OneHolder, NoRepeats
<1>10. frame(q) \in 0 .. MaxFrames
  BY <1>1, <1>3 DEF TypeOK, frame, rtem
<1>11. QED
  BY <1>3, <1>5, <1>6, <1>7, <1>9, <1>10 DEF rtem

(* It is freed, ... *)
LEMMA RtemFreed ==
    ASSUME RxInvariant, NEW q \in Queues, pc[q] \in {"work", "copy", "input"}, NextPacket(q),
           pool' = pool \cup {rtem(q)}, nicq' = nicq, ring' = ring, stack' = stack, tx' = tx
    PROVE  OneHolder'
<1> DEFINE m == rtem(q)
<1>1. TypeOK /\ OneHolder
  BY DEF RxInvariant
<1>2. /\ m \in Mbufs /\ On(burst[q], m)
      /\ \A r \in Queues : Once(burst'[r]) /\ \A x : On(burst'[r], x) <=> On(burst[r], x) /\ x # m
  BY RtemTaken
<1> HIDE DEF m
<1>3. NoRepeats'
  BY <1>1, <1>2 DEF OneHolder, NoRepeats
<1>4. NowFree(m)
  BY <1>1, <1>2, OnlyInBurst, FreeByPlace DEF m
<1>5. ASSUME NEW x \in Mbufs, x # m PROVE Kept(x)
  BY <1>2, <1>5, KeptByPlace DEF m
<1>6. pool' \subseteq Mbufs
  BY <1>1, <1>2 DEF TypeOK, m
<1>7. QED
  BY <1>1, <1>3, <1>4, <1>5, <1>6, MovesConserve

(* ... handed to the stack, ... *)
LEMMA RtemToStack ==
    ASSUME RxInvariant, NEW q \in Queues, pc[q] \in {"work", "copy", "input"}, NextPacket(q),
           stack' = [stack EXCEPT ![q] = @ \cup {rtem(q)}],
           pool' = pool, nicq' = nicq, ring' = ring, tx' = tx
    PROVE  OneHolder'
<1> DEFINE m == rtem(q)
<1>1. TypeOK /\ OneHolder
  BY DEF RxInvariant
<1>2. /\ m \in Mbufs /\ On(burst[q], m)
      /\ \A r \in Queues : Once(burst'[r]) /\ \A x : On(burst'[r], x) <=> On(burst[r], x) /\ x # m
  BY RtemTaken
<1>3. \A r \in Queues, x \in Mbufs : x \in stack'[r] <=> x \in stack[r] \/ (r = q /\ x = m)
  BY <1>1 DEF TypeOK
<1> HIDE DEF m
<1>4. NoRepeats'
  BY <1>1, <1>2 DEF OneHolder, NoRepeats
<1>5. NowAt(m, "stack", q)
  <2>1. m \notin pool /\ \A r \in Queues : /\ ~On(nicq[r], m) /\ ~On(ring[r], m) /\ ~On(burst'[r], m)
                                           /\ (m \in stack'[r] <=> r = q) /\ m \notin tx[r]
    BY <1>1, <1>2, <1>3, OnlyInBurst
  <2>2. QED
    BY <1>2, <2>1, AtByPlace DEF Places
<1>6. ASSUME NEW x \in Mbufs, x # m PROVE Kept(x)
  BY <1>2, <1>3, <1>6, KeptByPlace
<1>7. QED
  BY <1>1, <1>4, <1>5, <1>6, MovesConserve DEF TypeOK, Places

(* ... sent as a response, ... *)
LEMMA RtemToTx ==
    ASSUME RxInvariant, NEW q \in Queues, pc[q] \in {"work", "copy", "input"}, NextPacket(q),
           tx' = [tx EXCEPT ![q] = @ \cup {rtem(q)}],
           pool' = pool, nicq' = nicq, ring' = ring, stack' = stack
    PROVE  OneHolder'
<1> DEFINE m == rtem(q)
<1>1. TypeOK /\ OneHolder
  BY DEF RxInvariant
<1>2. /\ m \in Mbufs /\ On(burst[q], m)
      /\ \A r \in Queues : Once(burst'[r]) /\ \A x : On(burst'[r], x) <=> On(burst[r], x) /\ x # m
  BY RtemTaken
<1>3. \A r \in Queues, x \in Mbufs : x \in tx'[r] <=> x \in tx[r] \/ (r = q /\ x = m)
  BY <1>1 DEF TypeOK
<1> HIDE DEF m
<1>4. NoRepeats'
  BY <1>1, <1>2 DEF OneHolder, NoRepeats
<1>5. NowAt(m, "tx", q)
  <2>1. m \notin pool /\ \A r \in Queues : /\ ~On(nicq[r], m) /\ ~On(ring[r], m) /\ ~On(burst'[r], m)
                                           /\ m \notin stack[r] /\ (m \in tx'[r] <=> r = q)
    BY <1>1, <1>2, <1>3, OnlyInBurst
  <2>2. QED
    BY <1>2, <2>1, AtByPlace DEF Places
<1>6. ASSUME NEW x \in Mbufs, x # m PROVE Kept(x)
  BY <1>2, <1>3, <1>6, KeptByPlace
<1>7. QED
  BY <1>1, <1>4, <1>5, <1>6, MovesConserve DEF TypeOK, Places

(* ... or put on another lcore's ring. *)
LEMMA RtemToRing ==
    ASSUME RxInvariant, NEW q \in Queues, pc[q] \in {"work", "copy", "input"}, NextPacket(q),
           NEW ret \in Queues, ring' = [ring EXCEPT ![ret] = Append(@, rtem(q))],
           pool' = pool, nicq' = nicq, stack' = stack, tx' = tx
    PROVE  ring' \in [Queues -> Seq(Mbufs)] /\ OneHolder'
<1> DEFINE m == rtem(q)
           s == Append(ring[ret], m)
<1>1. TypeOK /\ OneHolder
  BY DEF RxInvariant
<1>2. /\ m \in Mbufs /\ On(burst[q], m)
      /\ \A r \in Queues : Once(burst'[r]) /\ \A x : On(burst'[r], x) <=> On(burst[r], x) /\ x # m
  BY RtemTaken
<1>3. /\ m \notin pool
      /\ \A r \in Queues : /\ ~On(nicq[r], m) /\ ~On(ring[r], m) /\ ~On(burst'[r], m)
                           /\ m \notin stack[r] /\ m \notin tx[r]
  BY <1>1, <1>2, OnlyInBurst
<1>4. s \in Seq(Mbufs) /\ Once(s) /\ \A x : On(s, x) <=> On(ring[ret], x) \/ x = m
  BY <1>1, <1>2, <1>3, AppendPlaces DEF TypeOK, OneHolder, NoRepeats
<1>5. ring' = [ring EXCEPT ![ret] = s]
  OBVIOUS
<1> HIDE DEF m, s
<1>6. ring' \in [Queues -> Seq(Mbufs)] /\ \A r \in Queues : ring'[r] = IF r = ret THEN s ELSE ring[r]
  BY ZenonT(60), <1>1, <1>4, <1>5 DEF TypeOK
<1>7. NoRepeats'
  BY <1>1, <1>2, <1>4, <1>6 DEF OneHolder, NoRepeats
<1>8. NowAt(m, "ring", ret)
  <2>1. \A r \in Queues : On(ring'[r], m) <=> r = ret
    BY <1>3, <1>4, <1>6
  <2>2. QED
    BY <1>2, <1>3, <2>1, AtByPlace DEF Places
<1>9. ASSUME NEW x \in Mbufs, x # m PROVE Kept(x)
  <2>1. \A r \in Queues : On(ring'[r], x) <=> On(ring[r], x)
    BY <1>4, <1>6, <1>9
  <2>2. QED
    BY <1>2, <1>9, <2>1, KeptByPlace
<1>10. QED
  BY <1>1, <1>6, <1>7, <1>8, <1>9, MovesConserve DEF TypeOK, Places


(* A burst is dequeued from the dispatch ring, ... *)
LEMMA BurstFromRing ==
    ASSUME RxInvariant, NEW q \in Queues, pc[q] \in {"ring", "rx"}, NEW n \in 0 .. Len(ring[q]),
           burst' = [burst EXCEPT ![q] = SubSeq(ring[q], 1, n)],
           ring' = [ring EXCEPT ![q] = SubSeq(ring[q], n + 1, Len(ring[q]))],
           pool' = pool, nicq' = nicq, stack' = stack, tx' = tx
    PROVE  /\ burst' \in [Queues -> Seq(Mbufs)] /\ ring' \in [Queues -> Seq(Mbufs)]
           /\ \A r \in Queues : Len(burst'[r]) = IF r = q THEN n ELSE Len(burst[r])
           /\ OneHolder'
<1> DEFINE s == ring[q]
           a == SubSeq(s, 1, n)
           b == SubSeq(s, n + 1, Len(s))
<1>1. TypeOK /\ BurstInStep /\ OneHolder
  BY DEF RxInvariant
<1>2. s \in Seq(Mbufs) /\ Once(s) /\ n \in 0 .. Len(s)
  BY <1>1 DEF TypeOK, OneHolder, NoRepeats
<1>3. /\ a \in Seq(Mbufs) /\ b \in Seq(Mbufs) /\ Len(a) = n /\ Once(a) /\ Once(b)
      /\ \A x : On(s, x) <=> On(a, x) \/ On(b, x)
      /\ \A x : ~(On(a, x) /\ On(b, x))
  BY <1>2, SplitPlaces
<1>4. burst' = [burst EXCEPT ![q] = a] /\ ring' = [ring EXCEPT ![q] = b]
  OBVIOUS
<1> HIDE DEF a, b
<1>5. /\ burst' \in [Queues -> Seq(Mbufs)] /\ ring' \in [Queues -> Seq(Mbufs)]
      /\ \A r \in Queues : /\ burst'[r] = IF r = q THEN a ELSE burst[r]
                           /\ ring'[r] = IF r = q THEN b ELSE ring[r]
  <2>1. burst \in [Queues -> Seq(Mbufs)] /\ ring \in [Queues -> Seq(Mbufs)]
    BY <1>1 DEF TypeOK
  <2>2. /\ burst' \in [Queues -> Seq(Mbufs)]
        /\ \A r \in Queues : burst'[r] = IF r = q THEN a ELSE burst[r]
    BY <1>3, <1>4, <2>1
  <2>3. /\ ring' \in [Queues -> Seq(Mbufs)]
        /\ \A r \in Queues : ring'[r] = IF r = q THEN b ELSE ring[r]
    BY <1>3, <1>4, <2>1
  <2>4. QED
    BY <2>2, <2>3
<1>6. \A x : ~On(burst[q], x)
  <2>1. burst[q] \in Seq(Mbufs) /\ ~(Len(burst[q]) > 0)
    BY <1>1 DEF BurstInStep, TypeOK
  <2>2. Len(burst[q]) = 0
    BY <2>1
  <2>3. QED
    BY <2>2 DEF On
<1>7. \A r \in Queues, x \in Mbufs :
          /\ On(burst'[r], x) <=> On(burst[r], x) \/ (r = q /\ On(a, x))
          /\ On(ring'[r], x) <=> On(ring[r], x) /\ ~(r = q /\ On(a, x))
  BY <1>3, <1>5, <1>6
<1>8. NoRepeats'
  BY <1>1, <1>3, <1>5 DEF OneHolder, NoRepeats
<1>9. ASSUME NEW x \in Mbufs, On(a, x) PROVE NowAt(x, "burst", q)
  <2>1. Holds("ring", q, x)
    BY <1>3, <1>9 DEF Holds
  <2>2. /\ x \notin pool
        /\ \A r \in Queues : /\ ~On(nicq[r], x) /\ (On(ring[r], x) <=> r = q) /\ ~On(burst[r], x)
                             /\ x \notin stack[r] /\ x \notin tx[r]
    BY <1>1, <2>1, OnlyThere DEF Places, Holds
  <2>3. \A r \in Queues : ~On(ring'[r], x) /\ (On(burst'[r], x) <=> r = q)
    BY <1>7, <1>9, <2>2
  <2>4. QED
    BY <2>2, <2>3, AtByPlace DEF Places
<1>10. ASSUME NEW x \in Mbufs, ~On(a, x) PROVE Kept(x)
  <2>1. \A r \in Queues : /\ On(ring'[r], x) <=> On(ring[r], x)
                          /\ On(burst'[r], x) <=> On(burst[r], x)
    BY <1>7, <1>10
  <2>2. QED
    BY <2>1, KeptByPlace
<1>11. OneHolder'
  BY <1>1, <1>8, <1>9, <1>10, MovesConserve DEF TypeOK, Places
<1>12. QED
  BY <1>3, <1>5, <1>11

(* ... or received from the NIC. *)
LEMMA BurstFromNic ==
    ASSUME RxInvariant, NEW q \in Queues, pc[q] \in {"ring", "rx"}, NEW n \in 0 .. Len(nicq[q]),
           burst' = [burst EXCEPT ![q] = SubSeq(nicq[q], 1, n)],
           nicq' = [nicq EXCEPT ![q] = SubSeq(nicq[q], n + 1, Len(nicq[q]))],
           pool' = pool, ring' = ring, stack' = stack, tx' = tx
    PROVE  /\ burst' \in [Queues -> Seq(Mbufs)] /\ nicq' \in [Queues -> Seq(Mbufs)]
           /\ \A r \in Queues : Len(burst'[r]) = IF r = q THEN n ELSE Len(burst[r])
           /\ OneHolder'
<1> DEFINE s == nicq[q]
           a == SubSeq(s, 1, n)
           b == SubSeq(s, n + 1, Len(s))
<1>1. TypeOK /\ BurstInStep /\ OneHolder
  BY DEF RxInvariant
<1>2. s \in Seq(Mbufs) /\ Once(s) /\ n \in 0 .. Len(s)
  BY <1>1 DEF TypeOK, OneHolder, NoRepeats
<1>3. /\ a \in Seq(Mbufs) /\ b \in Seq(Mbufs) /\ Len(a) = n /\ Once(a) /\ Once(b)
      /\ \A x : On(s, x) <=> On(a, x) \/ On(b, x)
      /\ \A x : ~(On(a, x) /\ On(b, x))
  BY <1>2, SplitPlaces
<1>4. burst' = [burst EXCEPT ![q] = a] /\ nicq' = [nicq EXCEPT ![q] = b]
  OBVIOUS
<1> HIDE DEF a, b
<1>5. /\ burst' \in [Queues -> Seq(Mbufs)] /\ nicq' \in [Queues -> Seq(Mbufs)]
      /\ \A r \in Queues : /\ burst'[r] = IF r = q THEN a ELSE burst[r]
                           /\ nicq'[r] = IF r = q THEN b ELSE nicq[r]
  <2>1. burst \in [Queues -> Seq(Mbufs)] /\ nicq \in [Queues -> Seq(Mbufs)]
    BY <1>1 DEF TypeOK
  <2>2. /\ burst' \in [Queues -> Seq(Mbufs)]
        /\ \A r \in Queues : burst'[r] = IF r = q THEN a ELSE burst[r]
    BY <1>3, <1>4, <2>1
  <2>3. /\ nicq' \in [Queues -> Seq(Mbufs)]
        /\ \A r \in Queues : nicq'[r] = IF r = q THEN b ELSE nicq[r]
    BY <1>3, <1>4, <2>1
  <2>4. QED
    BY <2>2, <2>3
<1>6. \A x : ~On(burst[q], x)
  <2>1. burst[q] \in Seq(Mbufs) /\ ~(Len(burst[q]) > 0)
    BY <1>1 DEF BurstInStep, TypeOK
  <2>2. Len(burst[q]) = 0
    BY <2>1
  <2>3. QED
    BY <2>2 DEF On
<1>7. \A r \in Queues, x \in Mbufs :
          /\ On(burst'[r], x) <=> On(burst[r], x) \/ (r = q /\ On(a, x))
          /\ On(nicq'[r], x) <=> On(nicq[r], x) /\ ~(r = q /\ On(a, x))
  BY <1>3, <1>5, <1>6
<1>8. NoRepeats'
  BY <1>1, <1>3, <1>5 DEF OneHolder, NoRepeats
<1>9. ASSUME NEW x \in Mbufs, On(a, x) PROVE NowAt(x, "burst", q)
  <2>1. Holds("nic", q, x)
    BY <1>3, <1>9 DEF Holds
  <2>2. /\ x \notin pool
        /\ \A r \in Queues : /\ ~On(ring[r], x) /\ (On(nicq[r], x) <=> r = q) /\ ~On(burst[r], x)
                             /\ x \notin stack[r] /\ x \notin tx[r]
    BY <1>1, <2>1, OnlyThere DEF Places, Holds
  <2>3. \A r \in Queues : ~On(nicq'[r], x) /\ (On(burst'[r], x) <=> r = q)
    BY <1>7, <1>9, <2>2
  <2>4. QED
    BY <2>2, <2>3, AtByPlace DEF Places
<1>10. ASSUME NEW x \in Mbufs, ~On(a, x) PROVE Kept(x)
  <2>1. \A r \in Queues : /\ On(nicq'[r], x) <=> On(nicq[r], x)
                          /\ On(burst'[r], x) <=> On(burst[r], x)
    BY <1>7, <1>10
  <2>2. QED
    BY <2>1, KeptByPlace
<1>11. OneHolder'
  BY <1>1, <1>8, <1>9, <1>10, MovesConserve DEF TypeOK, Places
<1>12. QED
  BY <1>3, <1>5, <1>11

(* The NIC fills a free mbuf, ... *)
LEMMA PoolToNic ==
    ASSUME RxInvariant, NEW q \in Queues, NEW m \in pool, pool' = pool \ {m},
           nicq' = [nicq EXCEPT ![q] = Append(nicq[q], m)],
           ring' = ring, burst' = burst, stack' = stack, tx' = tx
    PROVE  nicq' \in [Queues -> Seq(Mbufs)] /\ OneHolder'
<1> DEFINE s == Append(nicq[q], m)
<1>1. TypeOK /\ OneHolder /\ m \in Mbufs
  BY DEF RxInvariant, TypeOK
<1>2. \A r \in Queues : /\ ~On(nicq[r], m) /\ ~On(ring[r], m) /\ ~On(burst[r], m)
                        /\ m \notin stack[r] /\ m \notin tx[r]
  BY <1>1, OnlyInPool
<1>3. s \in Seq(Mbufs) /\ Once(s) /\ \A x : On(s, x) <=> On(nicq[q], x) \/ x = m
  BY <1>1, <1>2, AppendPlaces DEF TypeOK, OneHolder, NoRepeats
<1>4. nicq' = [nicq EXCEPT ![q] = s]
  OBVIOUS
<1> HIDE DEF s
<1>5. nicq' \in [Queues -> Seq(Mbufs)] /\ \A r \in Queues : nicq'[r] = IF r = q THEN s ELSE nicq[r]
  BY ZenonT(60), <1>1, <1>3, <1>4 DEF TypeOK
<1>6. NoRepeats'
  BY <1>1, <1>3, <1>5 DEF OneHolder, NoRepeats
<1>7. NowAt(m, "nic", q)
  <2>1. \A r \in Queues : On(nicq'[r], m) <=> r = q
    BY <1>2, <1>3, <1>5
  <2>2. QED
    BY <1>1, <1>2, <2>1, AtByPlace DEF Places
<1>8. ASSUME NEW x \in Mbufs, x # m PROVE Kept(x)
  <2>1. \A r \in Queues : On(nicq'[r], x) <=> On(nicq[r], x)
    BY <1>3, <1>5, <1>8
  <2>2. QED
    BY <1>8, <2>1, KeptByPlace
<1>9. QED
  BY <1>1, <1>5, <1>6, <1>7, <1>8, MovesConserve DEF TypeOK, Places

(* ... or a copy goes from the pool to a ring. *)
LEMMA PoolToRing ==
    ASSUME RxInvariant, NEW q \in Queues, NEW m \in pool, pool' = pool \ {m},
           ring' = [ring EXCEPT ![q] = Append(ring[q], m)],
           nicq' = nicq, burst' = burst, stack' = stack, tx' = tx
    PROVE  ring' \in [Queues -> Seq(Mbufs)] /\ OneHolder'
<1> DEFINE s == Append(ring[q], m)
<1>1. TypeOK /\ OneHolder /\ m \in Mbufs
  BY DEF RxInvariant, TypeOK
<1>2. \A r \in Queues : /\ ~On(nicq[r], m) /\ ~On(ring[r], m) /\ ~On(burst[r], m)
                        /\ m \notin stack[r] /\ m \notin tx[r]
  BY <1>1, OnlyInPool
<1>3. s \in Seq(Mbufs) /\ Once(s) /\ \A x : On(s, x) <=> On(ring[q], x) \/ x = m
  BY <1>1, <1>2, AppendPlaces DEF TypeOK, OneHolder, NoRepeats
<1>4. ring' = [ring EXCEPT ![q] = s]
  OBVIOUS
<1> HIDE DEF s
<1>5. ring' \in [Queues -> Seq(Mbufs)] /\ \A r \in Queues : ring'[r] = IF r = q THEN s ELSE ring[r]
  BY ZenonT(60), <1>1, <1>3, <1>4 DEF TypeOK
<1>6. NoRepeats'
  BY <1>1, <1>3, <1>5 DEF OneHolder, NoRepeats
<1>7. NowAt(m, "ring", q)
  <2>1. \A r \in Queues : On(ring'[r], m) <=> r = q
    BY <1>2, <1>3, <1>5
  <2>2. QED
    BY <1>1, <1>2, <2>1, AtByPlace DEF Places
<1>8. ASSUME NEW x \in Mbufs, x # m PROVE Kept(x)
  <2>1. \A r \in Queues : On(ring'[r], x) <=> On(ring[r], x)
    BY <1>3, <1>5, <1>8
  <2>2. QED
    BY <1>8, <2>1, KeptByPlace
<1>9. QED
  BY <1>1, <1>5, <1>6, <1>7, <1>8, MovesConserve DEF TypeOK, Places

(* The stack frees an mbuf, ... *)
LEMMA StackFrees ==
    ASSUME RxInvariant, NEW q \in Queues, NEW m \in stack[q],
           stack' = [stack EXCEPT ![q] = stack[q] \ {m}], pool' = pool \cup {m},
           nicq' = nicq, ring' = ring, burst' = burst, tx' = tx
    PROVE  m \in Mbufs /\ stack' \in [Queues -> SUBSET Mbufs] /\ OneHolder'
<1>1. TypeOK /\ OneHolder /\ m \in Mbufs
  BY DEF RxInvariant, TypeOK
<1>2. /\ stack' \in [Queues -> SUBSET Mbufs]
      /\ \A r \in Queues, x \in Mbufs : x \in stack'[r] <=> x \in stack[r] /\ ~(r = q /\ x = m)
  BY <1>1 DEF TypeOK
<1>3. NoRepeats'
  BY <1>1 DEF OneHolder, NoRepeats
<1>4. NowFree(m)
  <2>1. Holds("stack", q, m)
    BY DEF Holds
  <2>2. \A r \in Queues : /\ ~On(nicq[r], m) /\ ~On(ring[r], m) /\ ~On(burst[r], m)
                          /\ (m \in stack[r] <=> r = q) /\ m \notin tx[r]
    BY <1>1, <2>1, OnlyThere DEF Places, Holds
  <2>3. \A r \in Queues : m \notin stack'[r]
    BY <1>1, <1>2, <2>2
  <2>4. QED
    BY <1>1, <2>2, <2>3, FreeByPlace
<1>5. ASSUME NEW x \in Mbufs, x # m PROVE Kept(x)
  BY <1>2, <1>5, KeptByPlace
<1>6. pool' \subseteq Mbufs
  BY <1>1 DEF TypeOK
<1>7. QED
  BY <1>1, <1>2, <1>3, <1>4, <1>5, <1>6, MovesConserve

(* ... or the driver frees one. *)
LEMMA TxFrees ==
    ASSUME RxInvariant, NEW q \in Queues, NEW m \in tx[q],
           tx' = [tx EXCEPT ![q] = tx[q] \ {m}], pool' = pool \cup {m},
           nicq' = nicq, ring' = ring, burst' = burst, stack' = stack
    PROVE  m \in Mbufs /\ tx' \in [Queues -> SUBSET Mbufs] /\ OneHolder'
<1>1. TypeOK /\ OneHolder /\ m \in Mbufs
  BY DEF RxInvariant, TypeOK
<1>2. /\ tx' \in [Queues -> SUBSET Mbufs]
      /\ \A r \in Queues, x \in Mbufs : x \in tx'[r] <=> x \in tx[r] /\ ~(r = q /\ x = m)
  BY <1>1 DEF TypeOK
<1>3. NoRepeats'
  BY <1>1 DEF OneHolder, NoRepeats
<1>4. NowFree(m)
  <2>1. Holds("tx", q, m)
    BY DEF Holds
  <2>2. \A r \in Queues : /\ ~On(nicq[r], m) /\ ~On(ring[r], m) /\ ~On(burst[r], m)
                          /\ (m \in tx[r] <=> r = q) /\ m \notin stack[r]
    BY <1>1, <2>1, OnlyThere DEF Places, Holds
  <2>3. \A r \in Queues : m \notin tx'[r]
    BY <1>1, <1>2, <2>2
  <2>4. QED
    BY <1>1, <2>2, <2>3, FreeByPlace
<1>5. ASSUME NEW x \in Mbufs, x # m PROVE Kept(x)
  BY <1>2, <1>5, KeptByPlace
<1>6. pool' \subseteq Mbufs
  BY <1>1 DEF TypeOK
<1>7. QED
  BY <1>1, <1>2, <1>3, <1>4, <1>5, <1>6, MovesConserve


(* At the start every mbuf is free. *)
LEMMA InitEstablishes == Init => RxInvariant
<1> SUFFICES ASSUME Init PROVE RxInvariant
  OBVIOUS
<1>1. (\A x : ~On(<< >>, x)) /\ Once(<< >>)
  BY DEF On, Once
<1>2. TypeOK
  BY FrameAssumption, QueueAssumption DEF Init, TypeOK
<1>3. BurstInStep
  BY DEF Init, BurstInStep
<1>4. OneHolder
  BY <1>1 DEF Init, OneHolder, NotLost, FreeNotHeld, SingleHolder, NoRepeats, Holds
<1>5. QED
  BY <1>2, <1>3, <1>4 DEF RxInvariant

(* The NIC receives a frame. *)
LEMMA ReceivePreserves ==
    ASSUME RxInvariant, NEW q \in Queues, NEW m \in Mbufs, nic_receive(q, m)
    PROVE  RxInvariant'
<1>1. TypeOK /\ BurstInStep
  BY DEF RxInvariant
<1>2. nicq' \in [Queues -> Seq(Mbufs)] /\ OneHolder'
  BY PoolToNic DEF nic_receive
<1>3. data' \in [Mbufs -> 0 .. MaxFrames] /\ src' \in Seq(Queues) /\ Len(src') <= MaxFrames
  <2>1. src \in Seq(Queues) /\ Len(src) \in Nat /\ data \in [Mbufs -> 0 .. MaxFrames]
    BY <1>1 DEF TypeOK
  <2>2. Len(src) + 1 \in 0 .. MaxFrames
    BY <2>1, FrameAssumption DEF nic_receive
  <2>3. src' \in Seq(Queues) /\ Len(src') = Len(src) + 1
    BY <2>1 DEF nic_receive
  <2>4. data' \in [Mbufs -> 0 .. MaxFrames]
    BY <2>1, <2>2 DEF nic_receive
  <2>5. QED
    BY <2>2, <2>3, <2>4, FrameAssumption
<1>4. TypeOK'
  BY <1>1, <1>2, <1>3 DEF TypeOK, nic_receive
<1>5. BurstInStep'
  BY <1>1 DEF BurstInStep, nic_receive
<1>6. QED
  BY <1>2, <1>4, <1>5 DEF RxInvariant

(* A burst is taken off the dispatch ring. *)
LEMMA RingPreserves ==
    ASSUME RxInvariant, NEW q \in Queues, process_dispatch_ring(q)
    PROVE  RxInvariant'
<1> DEFINE n == Lesser(MaxBurst, Len(ring[q]))
<1>1. TypeOK /\ BurstInStep
  BY DEF RxInvariant
<1>2. n \in 0 .. Len(ring[q])
  BY <1>1, BurstAssumption DEF TypeOK, Lesser
<1>3. /\ pc[q] = "ring"
      /\ burst' = [burst EXCEPT ![q] = SubSeq(ring[q], 1, n)]
      /\ ring' = [ring EXCEPT ![q] = SubSeq(ring[q], n + 1, Len(ring[q]))]
      /\ from_ring' = [from_ring EXCEPT ![q] = TRUE]
      /\ pc' = [pc EXCEPT ![q] = IF n > 0 THEN "work" ELSE "rx"]
      /\ UNCHANGED <<pool, data, nicq, j, stack, tx, src, delivered, missed, shared>>
  BY DEF process_dispatch_ring
<1> HIDE DEF n
<1>4. /\ burst' \in [Queues -> Seq(Mbufs)] /\ ring' \in [Queues -> Seq(Mbufs)]
      /\ \A r \in Queues : Len(burst'[r]) = IF r = q THEN n ELSE Len(burst[r])
      /\ OneHolder'
  BY <1>2, <1>3, BurstFromRing
<1>5. /\ pc' \in [Queues -> {"ring", "rx", "work", "copy", "input"}]
      /\ \A r \in Queues : pc'[r] = IF r # q THEN pc[r] ELSE IF n > 0 THEN "work" ELSE "rx"
  BY <1>1, <1>3 DEF TypeOK
<1>6. from_ring' \in [Queues -> BOOLEAN]
  BY <1>1, <1>3 DEF TypeOK
<1>7. TypeOK'
  BY <1>1, <1>3, <1>4, <1>5, <1>6 DEF TypeOK
<1>8. BurstInStep'
  BY <1>1, <1>4, <1>5 DEF BurstInStep
<1>9. QED
  BY <1>4, <1>7, <1>8 DEF RxInvariant

(* A burst is taken from the NIC. *)
LEMMA RxBurstPreserves ==
    ASSUME RxInvariant, NEW q \in Queues, rte_eth_rx_burst(q)
    PROVE  RxInvariant'
<1>1. TypeOK /\ BurstInStep
  BY DEF RxInvariant
<1>2. PICK n \in 0 .. Lesser(MaxBurst, Len(nicq[q])) :
          /\ burst' = [burst EXCEPT ![q] = SubSeq(nicq[q], 1, n)]
          /\ nicq' = [nicq EXCEPT ![q] = SubSeq(nicq[q], n + 1, Len(nicq[q]))]
          /\ pc' = [pc EXCEPT ![q] = IF n > 0 THEN "work" ELSE "ring"]
  BY DEF rte_eth_rx_burst
<1>3. /\ pc[q] = "rx"
      /\ from_ring' = [from_ring EXCEPT ![q] = FALSE]
      /\ UNCHANGED <<pool, data, ring, j, stack, tx, src, delivered, missed, shared>>
  BY DEF rte_eth_rx_burst
<1>4. n \in 0 .. Len(nicq[q])
  BY <1>1, BurstAssumption DEF TypeOK, Lesser
<1>5. /\ burst' \in [Queues -> Seq(Mbufs)] /\ nicq' \in [Queues -> Seq(Mbufs)]
      /\ \A r \in Queues : Len(burst'[r]) = IF r = q THEN n ELSE Len(burst[r])
      /\ OneHolder'
  BY <1>2, <1>3, <1>4, BurstFromNic
<1>6. /\ pc' \in [Queues -> {"ring", "rx", "work", "copy", "input"}]
      /\ \A r \in Queues : pc'[r] = IF r # q THEN pc[r] ELSE IF n > 0 THEN "work" ELSE "ring"
  BY <1>1, <1>2 DEF TypeOK
<1>7. from_ring' \in [Queues -> BOOLEAN]
  BY <1>1, <1>3 DEF TypeOK
<1>8. TypeOK'
  BY <1>1, <1>3, <1>5, <1>6, <1>7 DEF TypeOK
<1>9. BurstInStep'
  BY <1>1, <1>5, <1>6 DEF BurstInStep
<1>10. QED
  BY <1>5, <1>8, <1>9 DEF RxInvariant

(* The steps that only decide what to do next with a packet. *)
LEMMA DecidePreserves ==
    ASSUME RxInvariant, NEW q \in Queues, undispatched(q) \/ dispatch_here(q) \/ copies_done(q)
    PROVE  RxInvariant'
<1>1. TypeOK /\ BurstInStep /\ OneHolder
  BY DEF RxInvariant
<1>2. /\ UNCHANGED <<pool, data, nicq, ring, burst, from_ring, stack, tx, src, delivered, missed>>
      /\ pc[q] \in {"work", "copy"}
      /\ pc' = [pc EXCEPT ![q] = "copy"] \/ pc' = [pc EXCEPT ![q] = "input"]
      /\ j' = [j EXCEPT ![q] = 0] \/ j' = j
      /\ shared' = shared \/ shared' = shared \cup {frame(q)}
  BY DEF undispatched, dispatch_here, copies_done, Filter
<1>3. frame(q) \in 0 .. MaxFrames
  <2>1. burst[q] \in Seq(Mbufs) /\ Len(burst[q]) > 0
    BY <1>1, <1>2 DEF TypeOK, BurstInStep
  <2>2. rtem(q) \in Mbufs
    BY <2>1 DEF rtem
  <2>3. QED
    BY <1>1, <2>2 DEF TypeOK, frame
<1>4. j' \in [Queues -> 0 .. NbQueues]
  <2>1. j \in [Queues -> 0 .. NbQueues] /\ 0 \in 0 .. NbQueues
    BY <1>1, QueueAssumption DEF TypeOK
  <2>2. CASE j' = [j EXCEPT ![q] = 0]
    BY <2>1, <2>2
  <2>3. CASE j' = j
    BY <2>1, <2>3
  <2>4. QED
    BY <1>2, <2>2, <2>3
<1>5. /\ pc' \in [Queues -> {"ring", "rx", "work", "copy", "input"}]
      /\ \A r \in Queues : r # q => pc'[r] = pc[r]
      /\ pc'[q] \in {"copy", "input"}
  BY <1>1, <1>2 DEF TypeOK
<1>6. TypeOK'
  BY <1>1, <1>2, <1>3, <1>4, <1>5 DEF TypeOK
<1>7. BurstInStep'
  BY <1>1, <1>2, <1>5 DEF BurstInStep
<1>8. OneHolder'
  BY <1>1, <1>2 DEF OneHolder, NotLost, FreeNotHeld, SingleHolder, NoRepeats, Holds
<1>9. QED
  BY <1>6, <1>7, <1>8 DEF RxInvariant


(* The dispatcher sends a packet away, frees it or answers it. *)
LEMMA DispatchPreserves ==
    ASSUME RxInvariant, NEW q \in Queues, NEW ret \in -2 .. NbQueues, dispatch(q, ret)
    PROVE  RxInvariant'
<1>1. TypeOK
  BY DEF RxInvariant
<1>2. /\ pc[q] = "work" /\ NextPacket(q)
      /\ UNCHANGED <<data, nicq, from_ring, j, stack, src, delivered, shared>>
  BY DEF dispatch
<1>3. /\ rtem(q) \in Mbufs /\ frame(q) \in 0 .. MaxFrames
      /\ burst' \in [Queues -> Seq(Mbufs)]
      /\ pc' \in [Queues -> {"ring", "rx", "work", "copy", "input"}]
      /\ BurstInStep'
  BY <1>2, RtemTaken
<1>4. /\ pool' \subseteq Mbufs /\ ring' \in [Queues -> Seq(Mbufs)] /\ tx' \in [Queues -> SUBSET Mbufs]
      /\ missed' \in [Queues -> SUBSET (0 .. MaxFrames)]
      /\ OneHolder'
  <2>1. CASE tx' = [tx EXCEPT ![q] = @ \cup {rtem(q)}] /\ UNCHANGED <<pool, ring, missed>>
    <3>1. OneHolder'
      BY <1>2, <2>1, RtemToTx
    <3>2. QED
      BY <1>1, <1>3, <2>1, <3>1 DEF TypeOK
  <2>2. CASE pool' = pool \cup {rtem(q)} /\ UNCHANGED <<tx, ring, missed>>
    <3>1. OneHolder'
      BY <1>2, <2>2, RtemFreed
    <3>2. QED
      BY <1>1, <1>3, <2>2, <3>1 DEF TypeOK
  <2>3. CASE /\ ret \in Queues
             /\ ring' = [ring EXCEPT ![ret] = Append(@, rtem(q))]
             /\ UNCHANGED <<pool, missed, tx>>
    <3>1. ring' \in [Queues -> Seq(Mbufs)] /\ OneHolder'
      BY <1>2, <2>3, RtemToRing
    <3>2. QED
      BY <1>1, <2>3, <3>1 DEF TypeOK
  <2>4. CASE /\ ret \in Queues
             /\ pool' = pool \cup {rtem(q)}
             /\ missed' = [missed EXCEPT ![ret] = @ \cup {frame(q)}]
             /\ UNCHANGED <<ring, tx>>
    <3>1. OneHolder'
      BY <1>2, <2>4, RtemFreed
    <3>2. missed' \in [Queues -> SUBSET (0 .. MaxFrames)]
      BY <1>1, <1>3, <2>4 DEF TypeOK
    <3>3. QED
      BY <1>1, <1>3, <2>4, <3>1, <3>2 DEF TypeOK
  <2>5. QED
    BY <2>1, <2>2, <2>3, <2>4 DEF dispatch
<1>5. TypeOK'
  BY <1>1, <1>2, <1>3, <1>4 DEF TypeOK
<1>6. QED
  BY <1>3, <1>4, <1>5 DEF RxInvariant

(* One copy of an ARP packet, made or failed. *)
LEMMA CopyPreserves ==
    ASSUME RxInvariant, NEW q \in Queues, copy(q)
    PROVE  RxInvariant'
<1>1. TypeOK /\ BurstInStep /\ OneHolder
  BY DEF RxInvariant
<1>2. /\ pc[q] = "copy" /\ j[q] < NbQueues /\ j' = [j EXCEPT ![q] = j[q] + 1]
      /\ UNCHANGED <<nicq, burst, from_ring, pc, stack, tx, src, delivered, shared>>
  BY DEF copy
<1>3. j[q] \in Queues /\ j' \in [Queues -> 0 .. NbQueues]
  <2>1. j[q] \in 0 .. NbQueues /\ j \in [Queues -> 0 .. NbQueues]
    BY <1>1 DEF TypeOK
  <2>2. j[q] \in 0 .. NbQueues - 1 /\ j[q] + 1 \in 0 .. NbQueues
    BY <1>2, <2>1, QueueAssumption
  <2>3. j' \in [Queues -> 0 .. NbQueues]
    BY <1>2, <2>1, <2>2
  <2>4. QED
    BY <2>2, <2>3 DEF Queues
<1>4. frame(q) \in 0 .. MaxFrames
  <2>1. burst[q] \in Seq(Mbufs) /\ Len(burst[q]) > 0
    BY <1>1, <1>2 DEF TypeOK, BurstInStep
  <2>2. rtem(q) \in Mbufs
    BY <2>1 DEF rtem
  <2>3. QED
    BY <1>1, <2>2 DEF TypeOK, frame
<1>5. /\ pool' \subseteq Mbufs /\ data' \in [Mbufs -> 0 .. MaxFrames]
      /\ ring' \in [Queues -> Seq(Mbufs)] /\ missed' \in [Queues -> SUBSET (0 .. MaxFrames)]
      /\ OneHolder'
  <2>1. CASE UNCHANGED <<pool, data, ring>> /\
             (missed' = missed \/ missed' = [missed EXCEPT ![j[q]] = @ \cup {frame(q)}])
    <3>1. OneHolder'
      BY <1>1, <1>2, <2>1 DEF OneHolder, NotLost, FreeNotHeld, SingleHolder, NoRepeats, Holds
    <3>2. missed' \in [Queues -> SUBSET (0 .. MaxFrames)]
      <4>1. missed \in [Queues -> SUBSET (0 .. MaxFrames)]
        BY <1>1 DEF TypeOK
      <4>2. missed[j[q]] \cup {frame(q)} \in SUBSET (0 .. MaxFrames)
        BY <1>3, <1>4, <4>1
      <4>3. CASE missed' = [missed EXCEPT ![j[q]] = missed[j[q]] \cup {frame(q)}]
        BY <4>1, <4>2, <4>3
      <4>4. QED
        BY <2>1, <4>1, <4>3
    <3>3. QED
      BY <1>1, <2>1, <3>1, <3>2 DEF TypeOK
  <2>2. CASE missed' = missed /\
             \E m \in pool : /\ pool' = pool \ {m}
                             /\ data' = [data EXCEPT ![m] = frame(q)]
                             /\ ring' = [ring EXCEPT ![j[q]] = Append(@, m)]
    <3>1. PICK m \in pool : /\ pool' = pool \ {m}
                            /\ data' = [data EXCEPT ![m] = frame(q)]
                            /\ ring' = [ring EXCEPT ![j[q]] = Append(@, m)]
      BY <2>2
    <3>2. ring' \in [Queues -> Seq(Mbufs)] /\ OneHolder'
      BY <1>2, <1>3, <3>1, PoolToRing
    <3>3. QED
      BY <1>1, <1>4, <2>2, <3>1, <3>2 DEF TypeOK
  <2>3. QED
    BY <2>1, <2>2 DEF copy
<1>6. TypeOK'
  BY <1>1, <1>2, <1>3, <1>5 DEF TypeOK
<1>7. BurstInStep'
  BY <1>1, <1>2 DEF BurstInStep
<1>8. QED
  BY <1>5, <1>6, <1>7 DEF RxInvariant

(* A packet reaches the stack, or is dropped at its door. *)
LEMMA InputPreserves ==
    ASSUME RxInvariant, NEW q \in Queues, lazybsd_veth_input(q) \/ veth_input_drop(q)
    PROVE  RxInvariant'
<1>1. TypeOK
  BY DEF RxInvariant
<1>2. /\ pc[q] = "input" /\ NextPacket(q)
      /\ UNCHANGED <<data, nicq, ring, from_ring, j, tx, src, shared>>
  BY DEF lazybsd_veth_input, veth_input_drop
<1>3. /\ rtem(q) \in Mbufs /\ frame(q) \in 0 .. MaxFrames
      /\ burst' \in [Queues -> Seq(Mbufs)]
      /\ pc' \in [Queues -> {"ring", "rx", "work", "copy", "input"}]
      /\ BurstInStep'
  BY <1>2, RtemTaken
<1>4. CASE lazybsd_veth_input(q)
  <2>1. OneHolder'
    BY <1>2, <1>4, RtemToStack DEF lazybsd_veth_input
  <2>2. stack' \in [Queues -> SUBSET Mbufs]
    BY <1>1, <1>3, <1>4 DEF TypeOK, lazybsd_veth_input
  <2>3. delivered' \in [Queues -> Seq(0 .. MaxFrames)]
    <3>1. Append(delivered[q], frame(q)) \in Seq(0 .. MaxFrames)
      BY <1>1, <1>3 DEF TypeOK
    <3>2. delivered' = [delivered EXCEPT ![q] = Append(delivered[q], frame(q))]
      BY <1>4 DEF lazybsd_veth_input
    <3>3. QED
      BY <1>1, <3>1, <3>2 DEF TypeOK
  <2>4. pool' = pool /\ missed' = missed
    BY <1>4 DEF lazybsd_veth_input
  <2>5. TypeOK'
    BY <1>1, <1>2, <1>3, <2>2, <2>3, <2>4 DEF TypeOK
  <2>6. QED
    BY <1>3, <2>1, <2>5 DEF RxInvariant
<1>5. CASE veth_input_drop(q)
  <2>1. OneHolder'
    BY <1>2, <1>5, RtemFreed DEF veth_input_drop
  <2>2. missed' \in [Queues -> SUBSET (0 .. MaxFrames)]
    BY <1>1, <1>3, <1>5 DEF TypeOK, veth_input_drop
  <2>3. pool' = pool \cup {rtem(q)} /\ stack' = stack /\ delivered' = delivered
    BY <1>5 DEF veth_input_drop
  <2>4. TypeOK'
    BY <1>1, <1>2, <1>3, <2>2, <2>3 DEF TypeOK
  <2>5. QED
    BY <1>3, <2>1, <2>4 DEF RxInvariant
<1>6. QED
  BY <1>4, <1>5

(* The stack or the NIC frees an mbuf. *)
LEMMA FreePreserves ==
    ASSUME RxInvariant, NEW q \in Queues, NEW m \in Mbufs,
           lazybsd_mbuf_ext_free(q, m) \/ tx_free(q, m)
    PROVE  RxInvariant'
<1>1. TypeOK /\ BurstInStep
  BY DEF RxInvariant
<1>2. CASE lazybsd_mbuf_ext_free(q, m)
  <2>1. stack' \in [Queues -> SUBSET Mbufs] /\ OneHolder'
    BY <1>2, StackFrees DEF lazybsd_mbuf_ext_free
  <2>2. TypeOK' /\ BurstInStep'
    BY <1>1, <1>2, <2>1 DEF TypeOK, BurstInStep, lazybsd_mbuf_ext_free
  <2>3. QED
    BY <2>1, <2>2 DEF RxInvariant
<1>3. CASE tx_free(q, m)
  <2>1. tx' \in [Queues -> SUBSET Mbufs] /\ OneHolder'
    BY <1>3, TxFrees DEF tx_free
  <2>2. TypeOK' /\ BurstInStep'
    BY <1>1, <1>3, <2>1 DEF TypeOK, BurstInStep, tx_free
  <2>3. QED
    BY <2>1, <2>2 DEF RxInvariant
<1>4. QED
  BY <1>2, <1>3

(* Every step keeps the invariant of the mbufs. *)
LEMMA StepPreserves == RxInvariant /\ [Next]_vars => RxInvariant'
<1> SUFFICES ASSUME RxInvariant, [Next]_vars PROVE RxInvariant'
  OBVIOUS
<1>1. CASE UNCHANGED vars
  <2>1. /\ pool' = pool /\ data' = data /\ nicq' = nicq /\ ring' = ring /\ burst' = burst
        /\ from_ring' = from_ring /\ j' = j /\ pc' = pc /\ stack' = stack /\ tx' = tx
        /\ src' = src /\ delivered' = delivered /\ missed' = missed /\ shared' = shared
    BY <1>1 DEF vars
  <2>2. TypeOK' /\ BurstInStep'
    BY <2>1 DEF RxInvariant, TypeOK, BurstInStep
  <2>3. OneHolder'
    BY <2>1 DEF RxInvariant, OneHolder, NotLost, FreeNotHeld, SingleHolder, NoRepeats, Holds
  <2>4. QED
    BY <2>2, <2>3 DEF RxInvariant
<1>2. ASSUME NEW q \in Queues, Lcore(q) PROVE RxInvariant'
  BY <1>2, RingPreserves, RxBurstPreserves, DecidePreserves, DispatchPreserves, CopyPreserves,
     InputPreserves DEF Lcore
<1>3. ASSUME NEW q \in Queues, Environment(q) PROVE RxInvariant'
  BY <1>3, ReceivePreserves, FreePreserves DEF Environment
<1>4. QED
  BY <1>1, <1>2, <1>3 DEF Next

(* No rte mbuf is lost, freed while in use or owned twice on the receive   *)
(* side: across full dispatch rings, an empty pool, failed copies, dropped *)
(* packets and hand-overs between processes, whatever the dispatcher says. *)
THEOREM MbufsConserved == SafeSpec => []RxInvariant
<1>1. QED
  BY InitEstablishes, StepPreserves, PTL DEF SafeSpec

-----------------------------------------------------------------------------
(* The order of frames.  All frames of one queue pass through the burst of *)
(* its lcore, and from there each goes to a stack by one way only: that    *)
(* lcore's own by the burst, every other by its ring.                      *)

Arrived == 1 .. Len(src)

(* Where frames are: with the NIC, in a burst, on a ring, in a stack. *)
InNic(q, f)   == Carried(nicq[q], data, f)
InBurst(q, f) == Carried(burst[q], data, f)
InRing(q, f)  == Carried(ring[q], data, f)
Got(q, f)     == On(delivered[q], f)

AtLcore(q, f) == Got(q, f) \/ InBurst(q, f) \/ InRing(q, f)

HasArrived ==
    /\ \A q \in Queues, f \in 0 .. MaxFrames : AtLcore(q, f) \/ InNic(q, f) => f \in Arrived
    /\ shared \subseteq Arrived

(* Frames leave the NIC and pass each place in order, ... *)
EachSorted ==
    \A q \in Queues : /\ Sorted(nicq[q], data, src)
                      /\ Sorted(burst[q], data, src)
                      /\ Sorted(ring[q], data, src)

(* ... the places of one lcore follow each other, ... *)
PlacesSorted ==
    \A q \in Queues, f, g \in Arrived :
        /\ Got(q, f) /\ (InBurst(q, g) \/ InRing(q, g)) => Ahead(src, f, g)
        /\ InBurst(q, f) /\ InRing(q, g) => Ahead(src, f, g)

(* ... by the one way a frame can come, ... *)
OneWay ==
    \A q \in Queues, f \in Arrived :
        /\ InNic(q, f) => src[f] = q
        /\ InBurst(q, f) => (src[f] = q <=> ~from_ring[q])
        /\ InRing(q, f) => src[f] # q

(* ... ahead of what is still with the NIC, ... *)
NicBehind ==
    \A s \in Queues, f, g \in Arrived :
        /\ src[f] = s /\ InNic(s, g)
        /\ f \in shared \/ \E q \in Queues : AtLcore(q, f)
        => f < g

CopySent(s, q) == pc[s] = "input" \/ (pc[s] = "copy" /\ q < j[s])

(* ... and of what lcore s has still to dispatch.  Only the packet it is   *)
(* copying may be elsewhere already, at the queues its loop has passed.    *)
BurstBehind ==
    \A s \in Queues, f \in Arrived :
        ~from_ring[s] /\ Len(burst[s]) > 0 /\ src[f] = s =>
            /\ \A q \in Queues \ {s} :
                  AtLcore(q, f) => f < frame(s) \/ (f = frame(s) /\ CopySent(s, q))
            /\ f \in shared => f < frame(s) \/ (f = frame(s) /\ pc[s] = "input")

(* Only what the NIC has received is copied. *)
CopiedFromNic == \A s \in Queues : pc[s] = "copy" => ~from_ring[s]

OrderInvariant ==
    /\ HasArrived
    /\ EachSorted
    /\ PlacesSorted
    /\ OneWay
    /\ NicBehind
    /\ BurstBehind
    /\ CopiedFromNic
    /\ InOrder

(* A frame is on its way to stack q, there, or was dropped on that way. *)
Reaches(f, q) == InTransit(f, q) \/ On(delivered[q], f) \/ f \in missed[q]

(* The copies of a packet reach the queues the loop has passed. *)
CopiesReach ==
    \A s, q \in Queues : pc[s] = "copy" /\ q < j[s] => Reaches(frame(s), q)

(* At the start no frame has arrived. *)
LEMMA OrderInit == Init => OrderInvariant
<1> SUFFICES ASSUME Init PROVE OrderInvariant
  OBVIOUS
<1>1. \A f : ~Carried(<< >>, data, f) /\ ~On(<< >>, f)
  BY DEF Carried, On
<1>2. Sorted(<< >>, data, src)
  BY DEF Sorted
<1>3. \A q \in Queues : \A f : ~InNic(q, f) /\ ~InBurst(q, f) /\ ~InRing(q, f) /\ ~Got(q, f)
  BY <1>1 DEF Init, InNic, InBurst, InRing, Got
<1>4. /\ Len(src) = 0 /\ shared = {}
      /\ \A q \in Queues : Len(delivered[q]) = 0 /\ Len(burst[q]) = 0 /\ pc[q] = "ring"
  BY DEF Init
<1>5. EachSorted
  BY <1>2 DEF Init, EachSorted
<1>6. QED
  BY <1>3, <1>4, <1>5
  DEF OrderInvariant, HasArrived, PlacesSorted, OneWay, NicBehind, BurstBehind, CopiedFromNic, InOrder, AtLcore, Arrived

(* Every frame that is somewhere has arrived. *)
LEMMA FramesArrived ==
    ASSUME TypeOK, HasArrived
    PROVE  /\ Arrived \subseteq Nat
           /\ \A q \in Queues : \A f : AtLcore(q, f) \/ InNic(q, f) => f \in Arrived
<1>1. ASSUME NEW s \in Seq(Mbufs), NEW f, Carried(s, data, f) PROVE f \in 0 .. MaxFrames
  BY <1>1 DEF Carried, TypeOK
<1>2. ASSUME NEW q \in Queues, NEW f, AtLcore(q, f) \/ InNic(q, f) PROVE f \in 0 .. MaxFrames
  <2>1. nicq[q] \in Seq(Mbufs) /\ burst[q] \in Seq(Mbufs) /\ ring[q] \in Seq(Mbufs)
    BY DEF TypeOK
  <2>2. CASE Got(q, f)
    <3>1. delivered[q] \in Seq(0 .. MaxFrames)
      BY DEF TypeOK
    <3>2. PICK i \in 1 .. Len(delivered[q]) : delivered[q][i] = f
      BY <2>2 DEF Got, On
    <3>3. \A T : \A s \in Seq(T) : \A k \in 1 .. Len(s) : s[k] \in T
      OBVIOUS
    <3>4. QED
      BY <3>1, <3>2, <3>3
  <2>3. QED
    BY <1>1, <1>2, <2>1, <2>2 DEF AtLcore, InNic, InBurst, InRing
<1>3. Arrived \subseteq Nat
  BY DEF Arrived, TypeOK
<1>4. QED
  BY <1>2, <1>3 DEF HasArrived

(* The packet an lcore works on is the first of its burst. *)
LEMMA FrameInBurst ==
    ASSUME NEW s \in Queues, Len(burst[s]) > 0, burst[s] \in Seq(Mbufs)
    PROVE  InBurst(s, frame(s))
BY DEF InBurst, Carried, frame, rtem

(* NextPacket, as frames: the rest of the burst follows the frame that has *)
(* left it.                                                                *)
LEMMA RtemFrames ==
    ASSUME RxInvariant, EachSorted, NEW q \in Queues, pc[q] \in {"work", "copy", "input"},
           NextPacket(q), data' = data, src' = src
    PROVE  /\ InBurst(q, frame(q)) /\ Len(burst[q]) > 0
           /\ \A r \in Queues : Sorted(burst'[r], data', src')
           /\ \A f : InBurst(q, f) <=> f = frame(q) \/ InBurst(q, f)'
           /\ \A f : InBurst(q, f)' => Ahead(src, frame(q), f)
           /\ Len(burst'[q]) > 0 => InBurst(q, frame(q))'
           /\ pc'[q] \notin {"copy", "input"}
           /\ \A r \in Queues \ {q} : /\ burst'[r] = burst[r] /\ pc'[r] = pc[r]
                                      /\ frame(r)' = frame(r)
                                      /\ \A f : InBurst(r, f)' <=> InBurst(r, f)
<1> DEFINE s == burst[q]
<1>1. TypeOK /\ BurstInStep
  BY DEF RxInvariant
<1>2. s \in Seq(Mbufs) /\ Len(s) > 0 /\ Tail(s) \in Seq(Mbufs)
  BY <1>1 DEF TypeOK, BurstInStep
<1>3. \A r \in Queues : burst'[r] = IF r = q THEN Tail(s) ELSE burst[r]
  BY <1>1 DEF TypeOK, NextPacket
<1>4. /\ pc'[q] \notin {"copy", "input"}
      /\ \A r \in Queues \ {q} : pc'[r] = pc[r]
  BY <1>1 DEF TypeOK, NextPacket
<1>5. Sorted(s, data, src)
  BY DEF EachSorted
<1>6. /\ \A f : Carried(s, data, f) <=> f = data[s[1]] \/ Carried(Tail(s), data, f)
      /\ Sorted(Tail(s), data, src)
      /\ \A f : Carried(Tail(s), data, f) => Ahead(src, data[s[1]], f)
  BY <1>2, <1>5, TailFrames
<1>7. frame(q) = data[s[1]]
  BY DEF frame, rtem
<1>8. \A f : (InBurst(q, f) <=> Carried(s, data, f)) /\ (InBurst(q, f)' <=> Carried(Tail(s), data, f))
  BY <1>3 DEF InBurst
<1>9. Len(burst'[q]) > 0 => InBurst(q, frame(q))'
  <2>1. burst'[q] \in Seq(Mbufs) /\ frame(q)' = data[burst'[q][1]]
    BY <1>2, <1>3 DEF frame, rtem
  <2>2. Len(burst'[q]) > 0 => Carried(burst'[q], data, data[burst'[q][1]])
    BY <2>1 DEF Carried
  <2>3. QED
    BY <2>1, <2>2 DEF InBurst
<1>10. \A r \in Queues \ {q} : frame(r)' = frame(r) /\ \A f : InBurst(r, f)' <=> InBurst(r, f)
  BY <1>3 DEF frame, rtem, InBurst
<1>11. \A r \in Queues : Sorted(burst'[r], data', src')
  BY <1>3, <1>6 DEF EachSorted
<1> HIDE DEF s
<1>12. QED
  BY <1>2, <1>3, <1>4, <1>6, <1>7, <1>8, <1>9, <1>10, <1>11 DEF s

(* The dispatcher takes a frame from the burst, and perhaps puts it on     *)
(* another ring.                                                           *)
LEMMA DispatchOrder ==
    ASSUME RxInvariant, OrderInvariant, NEW q \in Queues, NEW ret \in -2 .. NbQueues,
           dispatch(q, ret)
    PROVE  OrderInvariant'
<1>1. TypeOK /\ BurstInStep
  BY DEF RxInvariant
<1>2. /\ HasArrived /\ EachSorted /\ PlacesSorted /\ OneWay /\ NicBehind /\ BurstBehind
      /\ CopiedFromNic /\ InOrder
  BY DEF OrderInvariant
<1>3. /\ pc[q] = "work" /\ ~from_ring[q] /\ ret # q /\ NextPacket(q)
      /\ data' = data /\ nicq' = nicq /\ from_ring' = from_ring /\ j' = j /\ src' = src
      /\ delivered' = delivered /\ shared' = shared
  BY DEF dispatch
<1> DEFINE f0 == frame(q)
<1>4. /\ InBurst(q, f0) /\ Len(burst[q]) > 0
      /\ \A r \in Queues : Sorted(burst'[r], data', src')
      /\ \A f : InBurst(q, f) <=> f = f0 \/ InBurst(q, f)'
      /\ \A f : InBurst(q, f)' => Ahead(src, f0, f)
      /\ Len(burst'[q]) > 0 => InBurst(q, frame(q))'
      /\ pc'[q] \notin {"copy", "input"}
      /\ \A r \in Queues \ {q} : /\ burst'[r] = burst[r] /\ pc'[r] = pc[r] /\ frame(r)' = frame(r)
                                 /\ \A f : InBurst(r, f)' <=> InBurst(r, f)
  BY <1>2, <1>3, RtemFrames
<1>5. /\ Arrived \subseteq Nat /\ Arrived' = Arrived /\ f0 \in Arrived /\ src[f0] = q
      /\ \A r \in Queues : \A f : AtLcore(r, f) \/ InNic(r, f) => f \in Arrived
  <2>1. /\ Arrived \subseteq Nat /\ Arrived' = Arrived
        /\ \A r \in Queues : \A f : AtLcore(r, f) \/ InNic(r, f) => f \in Arrived
    BY <1>1, <1>2, <1>3, FramesArrived DEF Arrived
  <2>2. f0 \in Arrived
    BY <1>4, <2>1 DEF AtLcore
  <2>3. QED
    BY <1>2, <1>3, <1>4, <2>1, <2>2 DEF OneWay
<1>6. \A r \in Queues : \A f : (InNic(r, f)' <=> InNic(r, f)) /\ (Got(r, f)' <=> Got(r, f))
  BY <1>3 DEF InNic, Got
<1>7. ASSUME NEW r \in Queues \ {q}, NEW f, AtLcore(r, f), src[f] = q
      PROVE  f < f0
  BY <1>2, <1>3, <1>4, <1>5, <1>7 DEF BurstBehind, CopySent
<1>8. \A r \in Queues :
          /\ Sorted(ring'[r], data', src')
          /\ \A f : InRing(r, f)' => InRing(r, f) \/ (f = f0 /\ r # q)
  <2>1. CASE ring' = ring
    BY <1>2, <1>3, <2>1 DEF EachSorted, InRing
  <2>2. CASE ret \in Queues /\ ring' = [ring EXCEPT ![ret] = Append(ring[ret], rtem(q))]
    <3> DEFINE s == ring[ret]
               a == Append(s, rtem(q))
    <3>1. s \in Seq(Mbufs) /\ rtem(q) \in Mbufs /\ data[rtem(q)] = f0
      BY <1>1, <1>3, <2>2, RtemTaken DEF TypeOK, frame
    <3>2. Sorted(s, data, src)
      BY <1>2, <2>2 DEF EachSorted
    <3>3. \A f : Carried(s, data, f) => Ahead(src, f, f0)
      BY <1>3, <1>5, <1>7, <2>2 DEF Ahead, AtLcore, InRing
    <3>4. /\ Sorted(a, data, src)
          /\ \A f : Carried(a, data, f) <=> Carried(s, data, f) \/ f = f0
      BY <3>1, <3>2, <3>3, AppendFrames
    <3> HIDE DEF a
    <3>5. \A r \in Queues : ring'[r] = IF r = ret THEN a ELSE ring[r]
      BY <1>1, <2>2 DEF TypeOK, a
    <3>6. QED
      BY <1>2, <1>3, <2>2, <3>4, <3>5 DEF EachSorted, InRing
  <2>3. QED
    BY <2>1, <2>2 DEF dispatch
<1> HIDE DEF f0
<1>9. \A r \in Queues : \A f : AtLcore(r, f)' => AtLcore(r, f) \/ (f = f0 /\ r # q)
  BY <1>4, <1>6, <1>8 DEF AtLcore
<1>10. HasArrived'
  BY <1>2, <1>3, <1>5, <1>6, <1>9 DEF HasArrived
<1>11. EachSorted'
  BY <1>2, <1>3, <1>4, <1>8 DEF EachSorted
<1>12. OneWay'
  BY <1>2, <1>3, <1>4, <1>5, <1>6, <1>8 DEF OneWay
<1>13. PlacesSorted'
  <2> SUFFICES ASSUME NEW r \in Queues, NEW f \in Arrived, NEW g \in Arrived
               PROVE  /\ Got(r, f) /\ (InBurst(r, g)' \/ InRing(r, g)') => Ahead(src, f, g)
                      /\ InBurst(r, f)' /\ InRing(r, g)' => Ahead(src, f, g)
    BY <1>3, <1>5, <1>6 DEF PlacesSorted
  <2>1. InBurst(r, f)' => InBurst(r, f)
    BY <1>4
  <2>2. InBurst(r, g)' => InBurst(r, g)
    BY <1>4
  <2>3. CASE r # q /\ g = f0
    <3>1. AtLcore(r, f) => Ahead(src, f, f0)
      BY <1>5, <1>7, <2>3 DEF Ahead
    <3>2. QED
      BY <2>1, <2>3, <3>1 DEF AtLcore
  <2>4. CASE ~(r # q /\ g = f0)
    <3>1. InRing(r, g)' => InRing(r, g)
      BY <1>8, <2>4
    <3>2. QED
      BY <1>2, <2>1, <2>2, <3>1 DEF PlacesSorted
  <2>5. QED
    BY <2>3, <2>4
<1>14. NicBehind'
  <2> SUFFICES ASSUME NEW s \in Queues, NEW f \in Arrived, NEW g \in Arrived, src[f] = s, InNic(s, g),
                      f \in shared \/ \E r \in Queues : AtLcore(r, f)'
               PROVE  f < g
    BY <1>3, <1>5, <1>6 DEF NicBehind
  <2>1. f \in shared \/ \E r \in Queues : AtLcore(r, f)
    BY <1>4, <1>9 DEF AtLcore
  <2>2. QED
    BY <1>2, <2>1 DEF NicBehind
<1>15. BurstBehind'
  <2> SUFFICES ASSUME NEW s \in Queues, NEW f \in Arrived,
                      ~from_ring[s], Len(burst'[s]) > 0, src[f] = s
               PROVE  /\ \A r \in Queues \ {s} : AtLcore(r, f)' =>
                            f < frame(s)' \/ (f = frame(s)' /\ CopySent(s, r)')
                      /\ f \in shared => f < frame(s)' \/ (f = frame(s)' /\ pc'[s] = "input")
    BY <1>3, <1>5 DEF BurstBehind
  <2>1. CASE s = q
    <3>1. frame(q)' \in Arrived /\ src[frame(q)'] = q /\ f0 < frame(q)'
      <4>1. InBurst(q, frame(q)') /\ Ahead(src, f0, frame(q)')
        BY <1>4, <2>1
      <4>2. frame(q)' \in Arrived
        BY <1>5, <4>1 DEF AtLcore
      <4>3. src[frame(q)'] = q
        BY <1>2, <1>3, <4>1, <4>2 DEF OneWay
      <4>4. QED
        BY <1>5, <4>1, <4>2, <4>3 DEF Ahead
    <3>2. ASSUME NEW r \in Queues \ {s}, AtLcore(r, f)' PROVE f < frame(q)'
      <4>1. f = f0 \/ f < f0
        BY <1>7, <1>9, <2>1, <3>2
      <4>2. f \in Nat /\ f0 \in Nat /\ frame(q)' \in Nat
        BY <1>5, <3>1
      <4>3. QED
        BY <3>1, <4>1, <4>2
    <3>3. ASSUME f \in shared PROVE f < frame(q)'
      <4>1. f < f0
        BY <1>2, <1>3, <1>4, <2>1, <3>3 DEF BurstBehind, f0
      <4>2. f \in Nat /\ f0 \in Nat /\ frame(q)' \in Nat
        BY <1>5, <3>1
      <4>3. QED
        BY <3>1, <4>1, <4>2
    <3>4. QED
      BY <2>1, <3>2, <3>3
  <2>2. CASE s # q
    <3>1. burst'[s] = burst[s] /\ frame(s)' = frame(s) /\ pc'[s] = pc[s] /\ j' = j
      BY <1>3, <1>4, <2>2
    <3>2. \A r \in Queues : AtLcore(r, f)' => AtLcore(r, f)
      BY <1>5, <1>9, <2>2
    <3>3. QED
      BY <1>2, <3>1, <3>2 DEF BurstBehind, CopySent
  <2>3. QED
    BY <2>1, <2>2
<1>16. InOrder'
  BY <1>2, <1>3 DEF InOrder
<1>17. CopiedFromNic'
  BY <1>2, <1>3, <1>4 DEF CopiedFromNic
<1>18. QED
  BY <1>10, <1>11, <1>12, <1>13, <1>14, <1>15, <1>16, <1>17 DEF OrderInvariant

(* The stack takes a frame over, or it is dropped. *)
LEMMA InputOrder ==
    ASSUME RxInvariant, OrderInvariant, NEW q \in Queues,
           lazybsd_veth_input(q) \/ veth_input_drop(q)
    PROVE  OrderInvariant'
<1>1. TypeOK /\ BurstInStep
  BY DEF RxInvariant
<1>2. /\ HasArrived /\ EachSorted /\ PlacesSorted /\ OneWay /\ NicBehind /\ BurstBehind
      /\ CopiedFromNic /\ InOrder
  BY DEF OrderInvariant
<1> DEFINE f0 == frame(q)
<1>3. /\ pc[q] = "input" /\ NextPacket(q)
      /\ data' = data /\ nicq' = nicq /\ ring' = ring /\ from_ring' = from_ring /\ j' = j
      /\ src' = src /\ shared' = shared
      /\ delivered' = delivered \/ delivered' = [delivered EXCEPT ![q] = Append(delivered[q], f0)]
  BY DEF lazybsd_veth_input, veth_input_drop
<1>4. /\ InBurst(q, f0) /\ Len(burst[q]) > 0
      /\ \A r \in Queues : Sorted(burst'[r], data', src')
      /\ \A f : InBurst(q, f) <=> f = f0 \/ InBurst(q, f)'
      /\ \A f : InBurst(q, f)' => Ahead(src, f0, f)
      /\ Len(burst'[q]) > 0 => InBurst(q, frame(q))'
      /\ pc'[q] \notin {"copy", "input"}
      /\ \A r \in Queues \ {q} : /\ burst'[r] = burst[r] /\ pc'[r] = pc[r] /\ frame(r)' = frame(r)
                                 /\ \A f : InBurst(r, f)' <=> InBurst(r, f)
  BY <1>2, <1>3, RtemFrames
<1>5. /\ Arrived \subseteq Nat /\ Arrived' = Arrived /\ f0 \in Arrived
      /\ \A r \in Queues : \A f : AtLcore(r, f) \/ InNic(r, f) => f \in Arrived
  BY <1>1, <1>2, <1>3, <1>4, FramesArrived DEF Arrived, AtLcore
<1> HIDE DEF f0
<1>6. \A r \in Queues : \A f : (InNic(r, f)' <=> InNic(r, f)) /\ (InRing(r, f)' <=> InRing(r, f))
  BY <1>3 DEF InNic, InRing
<1>7. /\ InOrder'
      /\ \A r \in Queues : \A f : Got(r, f)' => Got(r, f) \/ (r = q /\ f = f0)
  <2>1. CASE delivered' = delivered
    BY <1>2, <1>3, <2>1 DEF InOrder, Got
  <2>2. CASE delivered' = [delivered EXCEPT ![q] = Append(delivered[q], f0)]
    <3> DEFINE s == delivered[q]
               a == Append(s, f0)
    <3>1. s \in Seq(0 .. MaxFrames) /\ f0 \in 0 .. MaxFrames
      BY <1>1, <1>3, RtemTaken DEF TypeOK, f0
    <3>2. /\ Len(a) = Len(s) + 1 /\ Len(s) \in Nat
          /\ a[Len(s) + 1] = f0 /\ \A i \in 1 .. Len(s) : a[i] = s[i]
      BY <3>1
    <3>3. \A x : On(a, x) <=> On(s, x) \/ x = f0
      BY <3>1, AppendPlaces
    <3> HIDE DEF a
    <3>4. \A r \in Queues : delivered'[r] = IF r = q THEN a ELSE delivered[r]
      BY <1>1, <2>2 DEF TypeOK, a
    <3>5. ASSUME NEW i \in 1 .. Len(a), NEW k \in 1 .. Len(a), i < k, src[a[i]] = src[a[k]]
          PROVE  a[i] < a[k]
      <4>1. i \in 1 .. Len(s) /\ a[i] = s[i]
        BY <3>2, <3>5
      <4>2. CASE k \in 1 .. Len(s)
        BY <1>2, <3>2, <3>5, <4>1, <4>2 DEF InOrder
      <4>3. CASE k = Len(s) + 1
        <5>1. Got(q, s[i])
          BY <4>1 DEF Got, On
        <5>2. s[i] \in Arrived
          BY <1>5, <5>1 DEF AtLcore
        <5>3. Ahead(src, s[i], f0)
          BY <1>2, <1>4, <1>5, <5>1, <5>2 DEF PlacesSorted
        <5>4. QED
          BY <3>2, <3>5, <4>1, <4>3, <5>3 DEF Ahead
      <4>4. QED
        BY <3>2, <4>2, <4>3
    <3>6. InOrder'
      BY <1>2, <1>3, <3>4, <3>5 DEF InOrder
    <3>7. QED
      BY <3>3, <3>4, <3>6 DEF Got
  <2>3. QED
    BY <1>3, <2>1, <2>2
<1>8. \A r \in Queues : \A f : AtLcore(r, f)' => AtLcore(r, f)
  BY <1>4, <1>6, <1>7 DEF AtLcore
<1>9. HasArrived'
  BY <1>2, <1>3, <1>5, <1>6, <1>8 DEF HasArrived
<1>10. EachSorted'
  BY <1>2, <1>3, <1>4 DEF EachSorted
<1>11. OneWay'
  BY <1>2, <1>3, <1>4, <1>5, <1>6 DEF OneWay
<1>12. PlacesSorted'
  <2> SUFFICES ASSUME NEW r \in Queues, NEW f \in Arrived, NEW g \in Arrived
               PROVE  /\ Got(r, f)' /\ (InBurst(r, g)' \/ InRing(r, g)) => Ahead(src, f, g)
                      /\ InBurst(r, f)' /\ InRing(r, g) => Ahead(src, f, g)
    BY <1>3, <1>5, <1>6 DEF PlacesSorted
  <2>1. InBurst(r, f)' => InBurst(r, f)
    BY <1>4
  <2>2. InBurst(r, g)' => InBurst(r, g)
    BY <1>4
  <2>3. CASE r = q /\ f = f0
    BY <1>2, <1>4, <1>5, <2>3 DEF PlacesSorted
  <2>4. CASE ~(r = q /\ f = f0)
    <3>1. Got(r, f)' => Got(r, f)
      BY <1>7, <2>4
    <3>2. QED
      BY <1>2, <2>1, <2>2, <3>1 DEF PlacesSorted
  <2>5. QED
    BY <2>1, <2>3, <2>4, <1>2 DEF PlacesSorted
<1>13. NicBehind'
  BY <1>2, <1>3, <1>5, <1>6, <1>8 DEF NicBehind
<1>14. BurstBehind'
  <2> SUFFICES ASSUME NEW s \in Queues, NEW f \in Arrived,
                      ~from_ring[s], Len(burst'[s]) > 0, src[f] = s
               PROVE  /\ \A r \in Queues \ {s} : AtLcore(r, f)' =>
                            f < frame(s)' \/ (f = frame(s)' /\ CopySent(s, r)')
                      /\ f \in shared => f < frame(s)' \/ (f = frame(s)' /\ pc'[s] = "input")
    BY <1>3, <1>5 DEF BurstBehind
  <2>1. CASE s = q
    <3>1. frame(q)' \in Arrived /\ f0 < frame(q)'
      <4>1. InBurst(q, frame(q)') /\ Ahead(src, f0, frame(q)')
        BY <1>4, <2>1
      <4>2. frame(q)' \in Arrived
        BY <1>5, <4>1 DEF AtLcore
      <4>3. src[frame(q)'] = q /\ src[f0] = q
        <5>1. ~from_ring[q]
          BY <2>1
        <5>2. QED
          BY <1>2, <1>4, <1>5, <4>1, <4>2, <5>1 DEF OneWay
      <4>4. QED
        BY <4>1, <4>2, <4>3 DEF Ahead
    <3>2. ASSUME f \in shared \/ \E r \in Queues \ {s} : AtLcore(r, f)'
          PROVE  f < frame(q)'
      <4>1. f \in shared \/ \E r \in Queues \ {s} : AtLcore(r, f)
        BY <1>8, <3>2
      <4>2. f = f0 \/ f < f0
        <5>1. ~from_ring[q] /\ Len(burst[q]) > 0 /\ src[f] = q
          BY <1>4, <2>1
        <5>2. CASE f \in shared
          BY <1>2, <5>1, <5>2 DEF BurstBehind, f0
        <5>3. CASE \E r \in Queues \ {q} : AtLcore(r, f)
          BY <1>2, <5>1, <5>3 DEF BurstBehind, f0
        <5>4. QED
          BY <2>1, <4>1, <5>2, <5>3
      <4>3. f \in Nat /\ f0 \in Nat /\ frame(q)' \in Nat
        BY <1>5, <3>1
      <4>4. QED
        BY <3>1, <4>2, <4>3
    <3>3. QED
      BY <2>1, <3>2
  <2>2. CASE s # q
    <3>1. burst'[s] = burst[s] /\ frame(s)' = frame(s) /\ pc'[s] = pc[s] /\ j' = j
      BY <1>3, <1>4, <2>2
    <3>2. QED
      BY <1>2, <1>8, <3>1 DEF BurstBehind, CopySent
  <2>3. QED
    BY <2>1, <2>2
<1>15. CopiedFromNic'
  BY <1>2, <1>3, <1>4 DEF CopiedFromNic
<1>16. QED
  BY <1>7, <1>9, <1>10, <1>11, <1>12, <1>13, <1>14, <1>15 DEF OrderInvariant

(* A free mbuf is filled: no frame that is somewhere is disturbed. *)
LEMMA OthersStay ==
    ASSUME RxInvariant, HasArrived, NEW m \in pool, NEW v, data' = [data EXCEPT ![m] = v],
           \A f \in Arrived : src'[f] = src[f], NEW r \in Queues
    PROVE  /\ \A x : On(nicq[r], x) \/ On(ring[r], x) \/ On(burst[r], x) => data'[x] = data[x]
           /\ \A f : Carried(nicq[r], data', f) <=> InNic(r, f)
           /\ \A f : Carried(ring[r], data', f) <=> InRing(r, f)
           /\ \A f : Carried(burst[r], data', f) <=> InBurst(r, f)
           /\ Sorted(nicq[r], data, src) => Sorted(nicq[r], data', src')
           /\ Sorted(ring[r], data, src) => Sorted(ring[r], data', src')
           /\ Sorted(burst[r], data, src) => Sorted(burst[r], data', src')
<1>1. TypeOK /\ OneHolder
  BY DEF RxInvariant
<1>2. ~On(nicq[r], m) /\ ~On(ring[r], m) /\ ~On(burst[r], m)
  BY <1>1, OnlyInPool
<1>3. nicq[r] \in Seq(Mbufs) /\ ring[r] \in Seq(Mbufs) /\ burst[r] \in Seq(Mbufs)
  BY <1>1 DEF TypeOK
<1>4. ASSUME NEW s \in Seq(Mbufs), NEW x, On(s, x), x # m PROVE data'[x] = data[x]
  BY <1>1, <1>4 DEF On, TypeOK
<1>5. \A x : On(nicq[r], x) \/ On(ring[r], x) \/ On(burst[r], x) => data'[x] = data[x]
  BY <1>2, <1>3, <1>4
<1>6. \A f : Carried(nicq[r], data, f) \/ Carried(ring[r], data, f) \/ Carried(burst[r], data, f)
          => f \in Arrived
  BY <1>1, FramesArrived DEF AtLcore, InNic, InRing, InBurst
<1>7. /\ \A f : Carried(nicq[r], data', f) <=> Carried(nicq[r], data, f)
      /\ Sorted(nicq[r], data, src) => Sorted(nicq[r], data', src')
  BY <1>5, <1>6, SameFrames
<1>8. /\ \A f : Carried(ring[r], data', f) <=> Carried(ring[r], data, f)
      /\ Sorted(ring[r], data, src) => Sorted(ring[r], data', src')
  BY <1>5, <1>6, SameFrames
<1>9. /\ \A f : Carried(burst[r], data', f) <=> Carried(burst[r], data, f)
      /\ Sorted(burst[r], data, src) => Sorted(burst[r], data', src')
  BY <1>5, <1>6, SameFrames
<1>10. QED
  BY <1>5, <1>7, <1>8, <1>9 DEF InNic, InRing, InBurst

(* Steps that move no frame.  An lcore may go on with the packet it has,   *)
(* and ends by noting that the packet was shared.                          *)
LEMMA StillOrder ==
    ASSUME RxInvariant, OrderInvariant,
           data' = data, nicq' = nicq, ring' = ring, burst' = burst, from_ring' = from_ring,
           src' = src, delivered' = delivered,
           \A s, r \in Queues : CopySent(s, r) => CopySent(s, r)',
           \A s \in Queues : pc[s] = "input" => pc'[s] = "input",
           CopiedFromNic',
           \/ shared' = shared
           \/ \E s \in Queues : /\ shared' = shared \cup {frame(s)} /\ pc[s] = "copy"
                                /\ pc'[s] = "input"
    PROVE  OrderInvariant'
<1>1. TypeOK /\ BurstInStep
  BY DEF RxInvariant
<1>2. /\ HasArrived /\ EachSorted /\ PlacesSorted /\ OneWay /\ NicBehind /\ BurstBehind
      /\ CopiedFromNic /\ InOrder
  BY DEF OrderInvariant
<1>3. \A r \in Queues : \A f :
          /\ (InNic(r, f)' <=> InNic(r, f)) /\ (InBurst(r, f)' <=> InBurst(r, f))
          /\ (InRing(r, f)' <=> InRing(r, f)) /\ (Got(r, f)' <=> Got(r, f))
          /\ (AtLcore(r, f)' <=> AtLcore(r, f))
  BY DEF InNic, InBurst, InRing, Got, AtLcore
<1>4. Arrived' = Arrived /\ \A s \in Queues : frame(s)' = frame(s)
  BY DEF Arrived, frame, rtem
<1>5. \A f \in shared' : \/ f \in shared
                          \/ \E s \in Queues : /\ f = frame(s) /\ pc'[s] = "input" /\ Len(burst[s]) > 0
                                               /\ InBurst(s, f) /\ f \in Arrived /\ src[f] = s
  <2>1. CASE shared' = shared
    BY <2>1
  <2>2. ASSUME NEW s \in Queues, shared' = shared \cup {frame(s)}, pc[s] = "copy", pc'[s] = "input",
               NEW f \in shared', f \notin shared
        PROVE  /\ f = frame(s) /\ pc'[s] = "input" /\ Len(burst[s]) > 0
               /\ InBurst(s, f) /\ f \in Arrived /\ src[f] = s
    <3>1. f = frame(s) /\ Len(burst[s]) > 0 /\ burst[s] \in Seq(Mbufs) /\ ~from_ring[s]
      BY <1>1, <1>2, <2>2 DEF BurstInStep, CopiedFromNic, TypeOK
    <3>2. InBurst(s, f)
      BY <3>1, FrameInBurst
    <3>3. f \in Arrived
      BY <1>1, <1>2, <3>2, FramesArrived DEF AtLcore
    <3>4. src[f] = s
      BY <1>2, <3>1, <3>2, <3>3 DEF OneWay
    <3>5. QED
      BY <2>2, <3>1, <3>2, <3>3, <3>4
  <2>3. QED
    BY <2>1, <2>2
<1>6. HasArrived'
  BY <1>2, <1>3, <1>4, <1>5 DEF HasArrived
<1>7. EachSorted' /\ InOrder'
  BY <1>2 DEF EachSorted, InOrder
<1>8. PlacesSorted' /\ OneWay'
  BY <1>2, <1>3, <1>4 DEF PlacesSorted, OneWay
<1>9. NicBehind'
  <2> SUFFICES ASSUME NEW s \in Queues, NEW f \in Arrived, NEW g \in Arrived, src[f] = s, InNic(s, g),
                      f \in shared' \/ \E r \in Queues : AtLcore(r, f)
               PROVE  f < g
    BY <1>3, <1>4 DEF NicBehind
  <2>1. f \in shared \/ \E r \in Queues : AtLcore(r, f)
    BY <1>5 DEF AtLcore
  <2>2. QED
    BY <1>2, <2>1 DEF NicBehind
<1>10. BurstBehind'
  <2> SUFFICES ASSUME NEW s \in Queues, NEW f \in Arrived,
                      ~from_ring[s], Len(burst[s]) > 0, src[f] = s
               PROVE  /\ \A r \in Queues \ {s} : AtLcore(r, f) =>
                            f < frame(s) \/ (f = frame(s) /\ CopySent(s, r)')
                      /\ f \in shared' => f < frame(s) \/ (f = frame(s) /\ pc'[s] = "input")
    BY <1>3, <1>4 DEF BurstBehind
  <2>1. \A r \in Queues \ {s} : AtLcore(r, f) =>
            f < frame(s) \/ (f = frame(s) /\ CopySent(s, r)')
    BY <1>2 DEF BurstBehind
  <2>2. CASE f \in shared
    BY <1>2, <2>1, <2>2 DEF BurstBehind
  <2>3. CASE f \in shared' /\ f \notin shared
    BY <1>5, <2>1, <2>3
  <2>4. QED
    BY <2>1, <2>2, <2>3
<1>11. QED
  BY <1>6, <1>7, <1>8, <1>9, <1>10 DEF OrderInvariant

(* Deciding where a packet goes moves no frame. *)
LEMMA DecideOrder ==
    ASSUME RxInvariant, OrderInvariant, NEW q \in Queues,
           undispatched(q) \/ dispatch_here(q) \/ copies_done(q)
    PROVE  OrderInvariant'
<1>1. TypeOK /\ CopiedFromNic
  BY DEF RxInvariant, OrderInvariant
<1>2. UNCHANGED <<data, nicq, ring, burst, from_ring, src, delivered>>
  BY DEF undispatched, dispatch_here, copies_done, Filter
<1>3. CASE undispatched(q) \/ dispatch_here(q)
  <2>1. /\ pc[q] = "work" /\ shared' = shared
        /\ \A s \in Queues \ {q} : pc'[s] = pc[s] /\ j'[s] = j[s]
        /\ pc'[q] = "copy" => ~from_ring[q]
    BY <1>1, <1>3 DEF undispatched, dispatch_here, Filter, TypeOK
  <2>2. \A s, r \in Queues : CopySent(s, r) => CopySent(s, r)'
    BY <2>1 DEF CopySent
  <2>3. CopiedFromNic' /\ \A s \in Queues : pc[s] = "input" => pc'[s] = "input"
    BY <1>1, <1>2, <2>1 DEF CopiedFromNic
  <2>4. QED
    BY <1>2, <2>1, <2>2, <2>3, StillOrder
<1>4. CASE copies_done(q)
  <2>1. /\ pc[q] = "copy" /\ pc'[q] = "input" /\ shared' = shared \cup {frame(q)} /\ j' = j
        /\ \A s \in Queues \ {q} : pc'[s] = pc[s]
    BY <1>1, <1>4 DEF copies_done, TypeOK
  <2>2. \A s, r \in Queues : CopySent(s, r) => CopySent(s, r)'
    BY <2>1 DEF CopySent
  <2>3. CopiedFromNic' /\ \A s \in Queues : pc[s] = "input" => pc'[s] = "input"
    BY <1>1, <1>2, <2>1 DEF CopiedFromNic
  <2>4. QED
    BY <1>2, <2>1, <2>2, <2>3, StillOrder
<1>5. QED
  BY <1>3, <1>4

(* Freeing an mbuf moves no frame. *)
LEMMA FreeOrder ==
    ASSUME RxInvariant, OrderInvariant,
           \/ \E q \in Queues, m \in Mbufs : lazybsd_mbuf_ext_free(q, m) \/ tx_free(q, m)
           \/ UNCHANGED vars
    PROVE  OrderInvariant'
<1>1. UNCHANGED <<data, nicq, ring, burst, from_ring, j, pc, src, delivered, shared>>
  BY DEF lazybsd_mbuf_ext_free, tx_free, vars
<1>2. CopiedFromNic
  BY DEF OrderInvariant
<1>3. \A s, r \in Queues : CopySent(s, r) => CopySent(s, r)'
  BY <1>1 DEF CopySent
<1>4. CopiedFromNic'
  BY <1>1, <1>2 DEF CopiedFromNic
<1>5. QED
  BY <1>1, <1>3, <1>4, StillOrder

(* A copy is put on a ring its packet has not been on. *)
LEMMA CopyOrder ==
    ASSUME RxInvariant, OrderInvariant, NEW q \in Queues, copy(q)
    PROVE  OrderInvariant'
<1>1. TypeOK /\ BurstInStep
  BY DEF RxInvariant
<1>2. /\ HasArrived /\ EachSorted /\ PlacesSorted /\ OneWay /\ NicBehind /\ BurstBehind
      /\ CopiedFromNic /\ InOrder
  BY DEF OrderInvariant
<1> DEFINE f0 == frame(q)
           t  == j[q]
<1>3. /\ pc[q] = "copy" /\ t < NbQueues /\ j' = [j EXCEPT ![q] = t + 1]
      /\ nicq' = nicq /\ burst' = burst /\ from_ring' = from_ring /\ pc' = pc /\ src' = src
      /\ delivered' = delivered /\ shared' = shared
  BY DEF copy
<1>4. t \in Queues /\ t \in Nat /\ ~from_ring[q] /\ Len(burst[q]) > 0 /\ burst[q] \in Seq(Mbufs)
  <2>1. t \in 0 .. NbQueues /\ burst[q] \in Seq(Mbufs)
    BY <1>1 DEF TypeOK
  <2>2. t \in 0 .. NbQueues - 1
    BY <1>3, <2>1, QueueAssumption
  <2>3. QED
    BY <1>1, <1>2, <1>3, <2>1, <2>2 DEF Queues, BurstInStep, CopiedFromNic
<1>5. \A s, r \in Queues : CopySent(s, r) => CopySent(s, r)'
  <2>1. \A s \in Queues : j'[s] = IF s = q THEN t + 1 ELSE j[s]
    BY <1>1, <1>3 DEF TypeOK
  <2>2. \A r \in Queues : r \in Int
    BY QueueAssumption DEF Queues
  <2>3. \A r \in Queues : r < t => r < t + 1
    BY <1>4, <2>2
  <2>4. QED
    BY <1>3, <2>1, <2>3 DEF CopySent
<1>6. CopiedFromNic'
  BY <1>2, <1>3 DEF CopiedFromNic
<1>7. CASE data' = data /\ ring' = ring
  BY <1>3, <1>5, <1>6, <1>7, StillOrder
<1>8. ASSUME t # q, NEW m \in pool, data' = [data EXCEPT ![m] = f0],
             ring' = [ring EXCEPT ![t] = Append(ring[t], m)]
      PROVE  OrderInvariant'
  <2>1. /\ InBurst(q, f0) /\ f0 \in Arrived /\ src[f0] = q
        /\ Arrived \subseteq Nat /\ Arrived' = Arrived
        /\ \A r \in Queues : \A f : AtLcore(r, f) \/ InNic(r, f) => f \in Arrived
    <3>1. InBurst(q, f0)
      BY <1>4, FrameInBurst
    <3>2. /\ Arrived \subseteq Nat /\ Arrived' = Arrived
          /\ \A r \in Queues : \A f : AtLcore(r, f) \/ InNic(r, f) => f \in Arrived
      BY <1>1, <1>2, <1>3, FramesArrived DEF Arrived
    <3>3. f0 \in Arrived
      BY <3>1, <3>2 DEF AtLcore
    <3>4. QED
      BY <1>2, <1>4, <3>1, <3>2, <3>3 DEF OneWay
  <2>2. ASSUME NEW f, AtLcore(t, f), src[f] = q PROVE f < f0
    <3>1. ~CopySent(q, t)
      BY <1>3, <1>4 DEF CopySent
    <3>2. QED
      BY <1>2, <1>4, <1>8, <2>1, <2>2, <3>1 DEF BurstBehind
  <2>3. \A r \in Queues :
            /\ \A x : On(nicq[r], x) \/ On(ring[r], x) \/ On(burst[r], x) => data'[x] = data[x]
            /\ \A f : Carried(nicq[r], data', f) <=> InNic(r, f)
            /\ \A f : Carried(ring[r], data', f) <=> InRing(r, f)
            /\ \A f : Carried(burst[r], data', f) <=> InBurst(r, f)
            /\ Sorted(nicq[r], data', src')
            /\ Sorted(ring[r], data', src')
            /\ Sorted(burst[r], data', src')
    BY <1>2, <1>3, <1>8, OthersStay DEF EachSorted
  <2>4. \A s \in Queues : Len(burst[s]) > 0 => frame(s)' = frame(s)
    <3>1. \A s \in Queues : Len(burst[s]) > 0 => On(burst[s], burst[s][1])
      BY <1>1 DEF On, TypeOK
    <3>2. QED
      BY <1>3, <2>3, <3>1 DEF frame, rtem
  <2> DEFINE a == Append(ring[t], m)
  <2>5. /\ Sorted(a, data', src')
        /\ \A f : Carried(a, data', f) <=> InRing(t, f) \/ f = f0
    <3>1. ring[t] \in Seq(Mbufs) /\ m \in Mbufs /\ data'[m] = f0
      BY <1>1, <1>4, <1>8 DEF TypeOK
    <3>2. \A f : Carried(ring[t], data', f) => Ahead(src', f, f0)
      BY <1>3, <1>4, <2>1, <2>2, <2>3 DEF Ahead, AtLcore
    <3>3. QED
      BY <1>4, <2>3, <3>1, <3>2, AppendFrames
  <2>6. \A r \in Queues : ring'[r] = IF r = t THEN a ELSE ring[r]
    BY <1>1, <1>8 DEF TypeOK
  <2> HIDE DEF a, f0, t
  <2>7. \A r \in Queues : \A f :
            /\ (InNic(r, f)' <=> InNic(r, f)) /\ (InBurst(r, f)' <=> InBurst(r, f))
            /\ (Got(r, f)' <=> Got(r, f))
            /\ (InRing(r, f)' <=> InRing(r, f) \/ (r = t /\ f = f0))
    <3>1. \A r \in Queues : \A f : /\ (InNic(r, f)' <=> InNic(r, f)) /\ (InBurst(r, f)' <=> InBurst(r, f))
                               /\ (Got(r, f)' <=> Got(r, f))
      BY <1>3, <2>3 DEF InNic, InBurst, Got
    <3>2. \A r \in Queues : \A f : InRing(r, f)' <=> Carried(ring'[r], data', f)
      BY DEF InRing
    <3>3. QED
      BY <2>3, <2>5, <2>6, <3>1, <3>2
  <2>8. \A r \in Queues : \A f : AtLcore(r, f)' <=> AtLcore(r, f) \/ (r = t /\ f = f0)
    BY <2>7 DEF AtLcore
  <2>9. HasArrived'
    BY <1>2, <1>3, <2>1, <2>7, <2>8 DEF HasArrived
  <2>10. EachSorted'
    BY <1>3, <2>3, <2>5, <2>6 DEF EachSorted
  <2>11. PlacesSorted'
    <3> SUFFICES ASSUME NEW r \in Queues, NEW f \in Arrived, NEW g \in Arrived
                 PROVE  /\ Got(r, f) /\ (InBurst(r, g) \/ InRing(r, g)') => Ahead(src, f, g)
                        /\ InBurst(r, f) /\ InRing(r, g)' => Ahead(src, f, g)
      BY <1>3, <2>1, <2>7 DEF PlacesSorted
    <3>1. CASE r = t /\ g = f0
      <4>1. AtLcore(r, f) => Ahead(src, f, g)
        BY <2>1, <2>2, <3>1 DEF Ahead
      <4>2. QED
        BY <4>1 DEF AtLcore
    <3>2. CASE ~(r = t /\ g = f0)
      BY <1>2, <2>7, <3>2 DEF PlacesSorted
    <3>3. QED
      BY <3>1, <3>2
  <2>12. OneWay'
    BY <1>2, <1>3, <1>8, <2>1, <2>7 DEF OneWay
  <2>13. NicBehind'
    <3> SUFFICES ASSUME NEW s \in Queues, NEW f \in Arrived, NEW g \in Arrived, src[f] = s, InNic(s, g),
                        f \in shared \/ \E r \in Queues : AtLcore(r, f)'
                 PROVE  f < g
      BY <1>3, <2>1, <2>7 DEF NicBehind
    <3>1. f \in shared \/ \E r \in Queues : AtLcore(r, f)
      BY <2>1, <2>8 DEF AtLcore
    <3>2. QED
      BY <1>2, <3>1 DEF NicBehind
  <2>14. BurstBehind'
    <3> SUFFICES ASSUME NEW s \in Queues, NEW f \in Arrived,
                        ~from_ring[s], Len(burst[s]) > 0, src[f] = s
                 PROVE  /\ \A r \in Queues \ {s} : AtLcore(r, f)' =>
                              f < frame(s) \/ (f = frame(s) /\ CopySent(s, r)')
                        /\ f \in shared => f < frame(s) \/ (f = frame(s) /\ pc[s] = "input")
      BY <1>3, <2>1, <2>4 DEF BurstBehind
    <3>1. ASSUME NEW r \in Queues \ {s}, AtLcore(r, f)'
          PROVE  f < frame(s) \/ (f = frame(s) /\ CopySent(s, r)')
      <4>1. CASE AtLcore(r, f)
        BY <1>2, <1>5, <4>1 DEF BurstBehind
      <4>2. CASE r = t /\ f = f0
        <5>1. s = q /\ f = frame(s)
          BY <2>1, <4>2 DEF f0
        <5>2. pc'[q] = "copy" /\ j'[q] = t + 1 /\ t < t + 1
          BY <1>1, <1>3, <1>4 DEF TypeOK, t
        <5>3. QED
          BY <4>2, <5>1, <5>2 DEF CopySent
      <4>3. QED
        BY <2>8, <3>1, <4>1, <4>2
    <3>2. QED
      BY <1>2, <3>1 DEF BurstBehind
  <2>15. InOrder'
    BY <1>2, <1>3 DEF InOrder
  <2>16. QED
    BY <1>6, <2>9, <2>10, <2>11, <2>12, <2>13, <2>14, <2>15 DEF OrderInvariant
<1>9. QED
  <2>1. \/ data' = data /\ ring' = ring
        \/ /\ t # q
           /\ \E m \in pool : /\ data' = [data EXCEPT ![m] = f0]
                               /\ ring' = [ring EXCEPT ![t] = Append(ring[t], m)]
    BY DEF copy
  <2>2. QED
    BY <1>7, <1>8, <2>1

(* A frame arrives: it is the newest. *)
LEMMA ReceiveOrder ==
    ASSUME RxInvariant, OrderInvariant, NEW q \in Queues, NEW m \in Mbufs, nic_receive(q, m)
    PROVE  OrderInvariant'
<1>1. TypeOK /\ BurstInStep
  BY DEF RxInvariant
<1>2. /\ HasArrived /\ EachSorted /\ PlacesSorted /\ OneWay /\ NicBehind /\ BurstBehind
      /\ CopiedFromNic /\ InOrder
  BY DEF OrderInvariant
<1> DEFINE n == Len(src) + 1
<1>3. /\ m \in pool /\ src' = Append(src, q) /\ data' = [data EXCEPT ![m] = n]
      /\ nicq' = [nicq EXCEPT ![q] = Append(nicq[q], m)]
      /\ ring' = ring /\ burst' = burst /\ from_ring' = from_ring /\ j' = j /\ pc' = pc
      /\ delivered' = delivered /\ shared' = shared
  BY DEF nic_receive
<1>4. /\ Arrived \subseteq Nat
      /\ \A r \in Queues : \A f : AtLcore(r, f) \/ InNic(r, f) => f \in Arrived
  BY <1>1, <1>2, FramesArrived
<1>5. /\ \A f \in Arrived : src'[f] = src[f] /\ f < n
      /\ src'[n] = q /\ n \notin Arrived
      /\ \A f : f \in Arrived' <=> f \in Arrived \/ f = n
  <2>1. src \in Seq(Queues) /\ Len(src) \in Nat
    BY <1>1 DEF TypeOK
  <2>2. Len(src') = n /\ src'[n] = q /\ \A f \in 1 .. Len(src) : src'[f] = src[f]
    BY <1>3, <2>1
  <2>3. \A f : f \in 1 .. n <=> f \in 1 .. Len(src) \/ f = n
    BY <2>1
  <2>4. QED
    BY <2>1, <2>2, <2>3 DEF Arrived
<1> HIDE DEF n
<1>6. \A r \in Queues :
          /\ \A x : On(nicq[r], x) \/ On(ring[r], x) \/ On(burst[r], x) => data'[x] = data[x]
          /\ \A f : Carried(nicq[r], data', f) <=> InNic(r, f)
          /\ \A f : Carried(ring[r], data', f) <=> InRing(r, f)
          /\ \A f : Carried(burst[r], data', f) <=> InBurst(r, f)
          /\ Sorted(nicq[r], data', src')
          /\ Sorted(ring[r], data', src')
          /\ Sorted(burst[r], data', src')
  BY <1>2, <1>3, <1>5, OthersStay DEF EachSorted
<1>7. \A s \in Queues : Len(burst[s]) > 0 => frame(s)' = frame(s)
  <2>1. \A s \in Queues : Len(burst[s]) > 0 => On(burst[s], burst[s][1])
    BY <1>1 DEF On, TypeOK
  <2>2. QED
    BY <1>3, <1>6, <2>1 DEF frame, rtem
<1> DEFINE a == Append(nicq[q], m)
<1>8. /\ Sorted(a, data', src')
      /\ \A f : Carried(a, data', f) <=> InNic(q, f) \/ f = n
  <2>1. nicq[q] \in Seq(Mbufs) /\ data'[m] = n
    BY <1>1, <1>3 DEF TypeOK
  <2>2. \A f : Carried(nicq[q], data', f) => Ahead(src', f, n)
    BY <1>4, <1>5, <1>6 DEF Ahead
  <2>3. QED
    BY <1>6, <2>1, <2>2, AppendFrames
<1>9. \A r \in Queues : nicq'[r] = IF r = q THEN a ELSE nicq[r]
  BY <1>1, <1>3 DEF TypeOK
<1> HIDE DEF a
<1>10. \A r \in Queues : \A f :
          /\ (InNic(r, f)' <=> InNic(r, f) \/ (r = q /\ f = n))
          /\ (InBurst(r, f)' <=> InBurst(r, f)) /\ (InRing(r, f)' <=> InRing(r, f))
          /\ (Got(r, f)' <=> Got(r, f))
  <2>1. \A r \in Queues : \A f : /\ (InBurst(r, f)' <=> InBurst(r, f)) /\ (InRing(r, f)' <=> InRing(r, f))
                             /\ (Got(r, f)' <=> Got(r, f))
    BY <1>3, <1>6 DEF InRing, InBurst, Got
  <2>2. \A r \in Queues : \A f : InNic(r, f)' <=> Carried(nicq'[r], data', f)
    BY DEF InNic
  <2>3. QED
    BY <1>6, <1>8, <1>9, <2>1, <2>2
<1>11. \A r \in Queues : \A f : AtLcore(r, f)' <=> AtLcore(r, f)
  BY <1>10 DEF AtLcore
<1>12. HasArrived'
  BY <1>2, <1>3, <1>4, <1>5, <1>10, <1>11 DEF HasArrived
<1>13. EachSorted'
  BY <1>3, <1>6, <1>8, <1>9 DEF EachSorted
<1>14. PlacesSorted'
  <2> SUFFICES ASSUME NEW r \in Queues, NEW f, NEW g
               PROVE  /\ Got(r, f) /\ (InBurst(r, g) \/ InRing(r, g)) => Ahead(src', f, g)
                      /\ InBurst(r, f) /\ InRing(r, g) => Ahead(src', f, g)
    BY <1>10 DEF PlacesSorted
  <2>1. CASE AtLcore(r, f) /\ AtLcore(r, g)
    <3>1. f \in Arrived /\ g \in Arrived
      BY <1>4, <2>1
    <3>2. Ahead(src, f, g) => Ahead(src', f, g)
      BY <1>5, <3>1 DEF Ahead
    <3>3. QED
      BY <1>2, <3>1, <3>2 DEF PlacesSorted
  <2>2. QED
    BY <2>1 DEF AtLcore
<1>15. OneWay'
  <2> SUFFICES ASSUME NEW r \in Queues, NEW f
               PROVE  /\ InNic(r, f)' => src'[f] = r
                      /\ InBurst(r, f) => (src'[f] = r <=> ~from_ring[r])
                      /\ InRing(r, f) => src'[f] # r
    BY <1>3, <1>10 DEF OneWay
  <2>1. InNic(r, f)' => src'[f] = r
    BY <1>2, <1>4, <1>5, <1>10 DEF OneWay
  <2>2. AtLcore(r, f) => f \in Arrived /\ src'[f] = src[f]
    BY <1>4, <1>5
  <2>3. QED
    BY <1>2, <2>1, <2>2 DEF OneWay, AtLcore
<1>16. NicBehind'
  <2> SUFFICES ASSUME NEW s \in Queues, NEW f, NEW g, src'[f] = s, InNic(s, g)',
                      f \in shared \/ \E r \in Queues : AtLcore(r, f)
               PROVE  f < g
    BY <1>3, <1>11 DEF NicBehind
  <2>1. f \in Arrived /\ src[f] = s
    BY <1>2, <1>4, <1>5 DEF HasArrived
  <2>2. CASE g = n
    BY <1>5, <2>1, <2>2
  <2>3. CASE InNic(s, g)
    BY <1>2, <1>4, <2>1, <2>3 DEF NicBehind
  <2>4. QED
    BY <1>10, <2>2, <2>3
<1>17. BurstBehind'
  <2> SUFFICES ASSUME NEW s \in Queues, NEW f,
                      ~from_ring[s], Len(burst[s]) > 0, src'[f] = s
               PROVE  /\ \A r \in Queues \ {s} : AtLcore(r, f) =>
                            f < frame(s) \/ (f = frame(s) /\ CopySent(s, r))
                      /\ f \in shared => f < frame(s) \/ (f = frame(s) /\ pc[s] = "input")
    BY <1>3, <1>7, <1>11 DEF BurstBehind, CopySent
  <2>1. (f \in shared \/ \E r \in Queues : AtLcore(r, f)) => f \in Arrived /\ src[f] = s
    BY <1>2, <1>4, <1>5 DEF HasArrived
  <2>2. QED
    BY <1>2, <2>1 DEF BurstBehind
<1>18. CopiedFromNic'
  BY <1>2, <1>3 DEF CopiedFromNic
<1>19. InOrder'
  <2>1. \A r \in Queues : \A i \in 1 .. Len(delivered[r]) : src'[delivered[r][i]] = src[delivered[r][i]]
    BY <1>4, <1>5 DEF AtLcore, Got, On
  <2>2. \A r \in Queues : delivered'[r] = delivered[r]
    BY <1>3
  <2> SUFFICES ASSUME NEW r \in Queues, NEW i \in 1 .. Len(delivered[r]),
                      NEW k \in 1 .. Len(delivered[r]), i < k,
                      src'[delivered[r][i]] = src'[delivered[r][k]]
               PROVE  delivered[r][i] < delivered[r][k]
    BY <2>2 DEF InOrder
  <2>3. src[delivered[r][i]] = src[delivered[r][k]]
    BY <2>1
  <2>4. QED
    BY <1>2, <2>3 DEF InOrder
<1>20. QED
  BY <1>12, <1>13, <1>14, <1>15, <1>16, <1>17, <1>18, <1>19 DEF OrderInvariant

(* A burst is dequeued from the dispatch ring. *)
LEMMA RingOrder ==
    ASSUME RxInvariant, OrderInvariant, NEW q \in Queues, process_dispatch_ring(q)
    PROVE  OrderInvariant'
<1>1. TypeOK /\ BurstInStep
  BY DEF RxInvariant
<1>2. /\ HasArrived /\ EachSorted /\ PlacesSorted /\ OneWay /\ NicBehind /\ BurstBehind
      /\ CopiedFromNic /\ InOrder
  BY DEF OrderInvariant
<1> DEFINE s == ring[q]
           n == Lesser(MaxBurst, Len(s))
           a == SubSeq(s, 1, n)
           b == SubSeq(s, n + 1, Len(s))
<1>3. /\ pc[q] = "ring" /\ burst' = [burst EXCEPT ![q] = a] /\ ring' = [ring EXCEPT ![q] = b]
      /\ from_ring' = [from_ring EXCEPT ![q] = TRUE]
      /\ pc' = [pc EXCEPT ![q] = IF n > 0 THEN "work" ELSE "rx"]
      /\ data' = data /\ nicq' = nicq /\ j' = j /\ src' = src /\ delivered' = delivered
      /\ shared' = shared
  BY DEF process_dispatch_ring
<1>4. s \in Seq(Mbufs) /\ n \in 0 .. Len(s) /\ Sorted(s, data, src)
  BY <1>1, <1>2, BurstAssumption DEF TypeOK, Lesser, EachSorted
<1>5. /\ \A f : Carried(s, data, f) <=> Carried(a, data, f) \/ Carried(b, data, f)
      /\ Sorted(a, data, src) /\ Sorted(b, data, src)
      /\ \A f, g : Carried(a, data, f) /\ Carried(b, data, g) => Ahead(src, f, g)
  BY <1>4, SplitFrames
<1> HIDE DEF a, b, n
<1>6. \A r \in Queues : /\ burst'[r] = IF r = q THEN a ELSE burst[r]
                        /\ ring'[r] = IF r = q THEN b ELSE ring[r]
                        /\ from_ring'[r] = IF r = q THEN TRUE ELSE from_ring[r]
                        /\ r # q => pc'[r] = pc[r]
  BY <1>1, <1>3 DEF TypeOK
<1>7. pc'[q] # "copy"
  BY <1>1, <1>3 DEF TypeOK
<1>8. Arrived' = Arrived
  BY <1>3 DEF Arrived
<1>9. \A r \in Queues : \A f :
          /\ (InNic(r, f)' <=> InNic(r, f)) /\ (Got(r, f)' <=> Got(r, f))
          /\ r # q => (InBurst(r, f)' <=> InBurst(r, f)) /\ (InRing(r, f)' <=> InRing(r, f))
  BY <1>3, <1>6 DEF InNic, InBurst, InRing, Got
<1>10. \A f : /\ InBurst(q, f)' <=> Carried(a, data, f)
              /\ InRing(q, f)' <=> Carried(b, data, f)
              /\ InRing(q, f) <=> Carried(a, data, f) \/ Carried(b, data, f)
  BY <1>3, <1>5, <1>6 DEF InBurst, InRing
<1>11. \A r \in Queues : \A f : AtLcore(r, f)' => AtLcore(r, f)
  BY <1>9, <1>10 DEF AtLcore
<1>12. HasArrived'
  BY <1>2, <1>3, <1>8, <1>9, <1>11 DEF HasArrived
<1>13. EachSorted'
  BY <1>2, <1>3, <1>5, <1>6 DEF EachSorted
<1>14. PlacesSorted'
  <2> SUFFICES ASSUME NEW r \in Queues, NEW f \in Arrived, NEW g \in Arrived
               PROVE  /\ Got(r, f) /\ (InBurst(r, g)' \/ InRing(r, g)') => Ahead(src, f, g)
                      /\ InBurst(r, f)' /\ InRing(r, g)' => Ahead(src, f, g)
    BY <1>3, <1>8, <1>9 DEF PlacesSorted
  <2>1. CASE r = q
    BY <1>2, <1>5, <1>10, <2>1 DEF PlacesSorted
  <2>2. CASE r # q
    BY <1>2, <1>9, <2>2 DEF PlacesSorted
  <2>3. QED
    BY <2>1, <2>2
<1>15. OneWay'
  <2> SUFFICES ASSUME NEW r \in Queues, NEW f \in Arrived
               PROVE  /\ InNic(r, f)' => src[f] = r
                      /\ InBurst(r, f)' => (src[f] = r <=> ~from_ring'[r])
                      /\ InRing(r, f)' => src[f] # r
    BY <1>3, <1>8 DEF OneWay
  <2>1. CASE r = q
    BY <1>2, <1>6, <1>9, <1>10, <2>1 DEF OneWay
  <2>2. CASE r # q
    BY <1>2, <1>6, <1>9, <2>2 DEF OneWay
  <2>3. QED
    BY <2>1, <2>2
<1>16. NicBehind'
  BY <1>2, <1>3, <1>8, <1>9, <1>11 DEF NicBehind
<1>17. BurstBehind'
  <2> SUFFICES ASSUME NEW t \in Queues, NEW f \in Arrived,
                      ~from_ring'[t], Len(burst'[t]) > 0, src[f] = t
               PROVE  /\ \A r \in Queues \ {t} : AtLcore(r, f)' =>
                            f < frame(t)' \/ (f = frame(t)' /\ CopySent(t, r)')
                      /\ f \in shared => f < frame(t)' \/ (f = frame(t)' /\ pc'[t] = "input")
    BY <1>3, <1>8 DEF BurstBehind
  <2>1. t # q /\ ~from_ring[t] /\ burst'[t] = burst[t] /\ pc'[t] = pc[t]
    BY <1>6
  <2>2. frame(t)' = frame(t) /\ \A r \in Queues : CopySent(t, r)' <=> CopySent(t, r)
    BY <1>3, <2>1 DEF frame, rtem, CopySent
  <2>3. QED
    BY <1>2, <1>11, <2>1, <2>2 DEF BurstBehind
<1>18. CopiedFromNic'
  BY <1>2, <1>6, <1>7 DEF CopiedFromNic
<1>19. InOrder'
  BY <1>2, <1>3 DEF InOrder
<1>20. QED
  BY <1>12, <1>13, <1>14, <1>15, <1>16, <1>17, <1>18, <1>19 DEF OrderInvariant

(* A burst is received from the NIC: it follows all frames of its queue    *)
(* that have left the NIC before.                                          *)
LEMMA RxBurstOrder ==
    ASSUME RxInvariant, OrderInvariant, NEW q \in Queues, rte_eth_rx_burst(q)
    PROVE  OrderInvariant'
<1>1. TypeOK /\ BurstInStep
  BY DEF RxInvariant
<1>2. /\ HasArrived /\ EachSorted /\ PlacesSorted /\ OneWay /\ NicBehind /\ BurstBehind
      /\ CopiedFromNic /\ InOrder
  BY DEF OrderInvariant
<1> DEFINE s == nicq[q]
<1>3. PICK n \in 0 .. Lesser(MaxBurst, Len(s)) :
          /\ burst' = [burst EXCEPT ![q] = SubSeq(s, 1, n)]
          /\ nicq' = [nicq EXCEPT ![q] = SubSeq(s, n + 1, Len(s))]
          /\ pc' = [pc EXCEPT ![q] = IF n > 0 THEN "work" ELSE "ring"]
  BY DEF rte_eth_rx_burst
<1> DEFINE a == SubSeq(s, 1, n)
           b == SubSeq(s, n + 1, Len(s))
<1>4. /\ pc[q] = "rx" /\ burst' = [burst EXCEPT ![q] = a] /\ nicq' = [nicq EXCEPT ![q] = b]
      /\ from_ring' = [from_ring EXCEPT ![q] = FALSE]
      /\ data' = data /\ ring' = ring /\ j' = j /\ src' = src /\ delivered' = delivered
      /\ shared' = shared
  BY <1>3 DEF rte_eth_rx_burst
<1>5. s \in Seq(Mbufs) /\ n \in 0 .. Len(s) /\ Sorted(s, data, src)
  BY <1>1, <1>2, BurstAssumption DEF TypeOK, Lesser, EachSorted
<1>6. /\ \A f : Carried(s, data, f) <=> Carried(a, data, f) \/ Carried(b, data, f)
      /\ Sorted(a, data, src) /\ Sorted(b, data, src)
      /\ \A f, g : Carried(a, data, f) /\ Carried(b, data, g) => Ahead(src, f, g)
  BY <1>5, SplitFrames
<1>7. a \in Seq(Mbufs)
  BY <1>5
<1> HIDE DEF a, b
<1>8. \A r \in Queues : /\ burst'[r] = IF r = q THEN a ELSE burst[r]
                        /\ nicq'[r] = IF r = q THEN b ELSE nicq[r]
                        /\ from_ring'[r] = IF r = q THEN FALSE ELSE from_ring[r]
                        /\ r # q => pc'[r] = pc[r]
  BY <1>1, <1>3, <1>4 DEF TypeOK
<1>9. pc'[q] # "copy"
  BY <1>1, <1>3 DEF TypeOK
<1>10. /\ Arrived' = Arrived /\ Arrived \subseteq Nat
       /\ \A r \in Queues : \A f : AtLcore(r, f) \/ InNic(r, f) => f \in Arrived
  BY <1>1, <1>2, <1>4, FramesArrived DEF Arrived
<1>11. \A r \in Queues : \A f :
          /\ (InRing(r, f)' <=> InRing(r, f)) /\ (Got(r, f)' <=> Got(r, f))
          /\ r # q => (InBurst(r, f)' <=> InBurst(r, f)) /\ (InNic(r, f)' <=> InNic(r, f))
  BY <1>4, <1>8 DEF InNic, InBurst, InRing, Got
<1>12. \A f : /\ InBurst(q, f)' <=> Carried(a, data, f)
              /\ InNic(q, f)' <=> Carried(b, data, f)
              /\ InNic(q, f) <=> Carried(a, data, f) \/ Carried(b, data, f)
  BY <1>4, <1>6, <1>8 DEF InBurst, InNic
<1>13. \A r \in Queues : \A f : AtLcore(r, f)' => AtLcore(r, f) \/ (r = q /\ InBurst(q, f)')
  BY <1>11 DEF AtLcore
<1>14. \A f : InBurst(q, f)' \/ InNic(q, f)' => f \in Arrived /\ src[f] = q /\ InNic(q, f)
  BY <1>2, <1>10, <1>12 DEF OneWay
<1>15. HasArrived'
  <2>1. \A r \in Queues : \A f : AtLcore(r, f)' \/ InNic(r, f)' => f \in Arrived
    BY <1>10, <1>11, <1>13, <1>14
  <2>2. QED
    BY <1>2, <1>4, <1>10, <2>1 DEF HasArrived
<1>16. EachSorted'
  BY <1>2, <1>4, <1>6, <1>8 DEF EachSorted
<1>17. PlacesSorted'
  <2> SUFFICES ASSUME NEW r \in Queues, NEW f \in Arrived, NEW g \in Arrived
               PROVE  /\ Got(r, f) /\ (InBurst(r, g)' \/ InRing(r, g)) => Ahead(src, f, g)
                      /\ InBurst(r, f)' /\ InRing(r, g) => Ahead(src, f, g)
    BY <1>4, <1>10, <1>11 DEF PlacesSorted
  <2>1. CASE r = q
    <3>1. Got(q, f) /\ InBurst(q, g)' => Ahead(src, f, g)
      BY <1>2, <1>14 DEF NicBehind, AtLcore, Ahead
    <3>2. InBurst(q, f)' /\ InRing(q, g) => Ahead(src, f, g)
      BY <1>2, <1>14 DEF OneWay, Ahead
    <3>3. QED
      BY <1>2, <2>1, <3>1, <3>2 DEF PlacesSorted
  <2>2. CASE r # q
    BY <1>2, <1>11, <2>2 DEF PlacesSorted
  <2>3. QED
    BY <2>1, <2>2
<1>18. OneWay'
  <2> SUFFICES ASSUME NEW r \in Queues, NEW f \in Arrived
               PROVE  /\ InNic(r, f)' => src[f] = r
                      /\ InBurst(r, f)' => (src[f] = r <=> ~from_ring'[r])
                      /\ InRing(r, f)' => src[f] # r
    BY <1>4, <1>10 DEF OneWay
  <2>1. CASE r = q
    BY <1>2, <1>8, <1>11, <1>14, <2>1 DEF OneWay
  <2>2. CASE r # q
    BY <1>2, <1>8, <1>11, <2>2 DEF OneWay
  <2>3. QED
    BY <2>1, <2>2
<1>19. NicBehind'
  <2> SUFFICES ASSUME NEW t \in Queues, NEW f \in Arrived, NEW g \in Arrived, src[f] = t, InNic(t, g)',
                      f \in shared \/ \E r \in Queues : AtLcore(r, f)'
               PROVE  f < g
    BY <1>4, <1>10 DEF NicBehind
  <2>1. InNic(t, g)
    BY <1>11, <1>12
  <2>2. CASE f \in shared \/ \E r \in Queues : AtLcore(r, f)
    BY <1>2, <2>1, <2>2 DEF NicBehind
  <2>3. CASE InBurst(q, f)'
    <3>1. t = q
      BY <1>14, <2>3
    <3>2. Ahead(src, f, g) /\ src[g] = q
      BY <1>6, <1>12, <1>14, <2>3, <3>1
    <3>3. QED
      BY <3>1, <3>2 DEF Ahead
  <2>4. QED
    BY <1>13, <2>2, <2>3
<1>20. BurstBehind'
  <2> SUFFICES ASSUME NEW t \in Queues, NEW f \in Arrived,
                      ~from_ring'[t], Len(burst'[t]) > 0, src[f] = t
               PROVE  /\ \A r \in Queues \ {t} : AtLcore(r, f)' =>
                            f < frame(t)' \/ (f = frame(t)' /\ CopySent(t, r)')
                      /\ f \in shared => f < frame(t)' \/ (f = frame(t)' /\ pc'[t] = "input")
    BY <1>4, <1>10 DEF BurstBehind
  <2>1. CASE t = q
    <3>1. burst'[q] = a /\ frame(q)' = data[a[1]] /\ Len(a) > 0
      BY <1>4, <1>8, <2>1 DEF frame, rtem
    <3>2. Carried(a, data, frame(q)')
      BY <1>7, <3>1 DEF Carried
    <3>3. InNic(q, frame(q)') /\ frame(q)' \in Arrived
      BY <1>10, <1>12, <3>2
    <3>4. \A r \in Queues \ {t} : AtLcore(r, f)' => AtLcore(r, f)
      BY <1>13, <2>1
    <3>5. (f \in shared \/ \E r \in Queues : AtLcore(r, f)) => f < frame(q)'
      BY <1>2, <2>1, <3>3 DEF NicBehind
    <3>6. QED
      BY <2>1, <3>4, <3>5
  <2>2. CASE t # q
    <3>1. ~from_ring[t] /\ burst'[t] = burst[t] /\ pc'[t] = pc[t]
      BY <1>8, <2>2
    <3>2. frame(t)' = frame(t) /\ \A r \in Queues : CopySent(t, r)' <=> CopySent(t, r)
      BY <1>4, <3>1 DEF frame, rtem, CopySent
    <3>3. \A r \in Queues : AtLcore(r, f)' => AtLcore(r, f)
      BY <1>13, <1>14, <2>2
    <3>4. QED
      BY <1>2, <3>1, <3>2, <3>3 DEF BurstBehind
  <2>3. QED
    BY <2>1, <2>2
<1>21. CopiedFromNic'
  BY <1>2, <1>8, <1>9 DEF CopiedFromNic
<1>22. InOrder'
  BY <1>2, <1>4 DEF InOrder
<1>23. QED
  BY <1>15, <1>16, <1>17, <1>18, <1>19, <1>20, <1>21, <1>22 DEF OrderInvariant

(* Every step keeps the order of the frames. *)
LEMMA OrderStep == RxInvariant /\ OrderInvariant /\ [Next]_vars => OrderInvariant'
<1> SUFFICES ASSUME RxInvariant, OrderInvariant, [Next]_vars PROVE OrderInvariant'
  OBVIOUS
<1>1. ASSUME NEW q \in Queues, Lcore(q) PROVE OrderInvariant'
  BY <1>1, RingOrder, RxBurstOrder, DecideOrder, DispatchOrder, CopyOrder, InputOrder DEF Lcore
<1>2. ASSUME NEW q \in Queues, Environment(q) PROVE OrderInvariant'
  BY <1>2, ReceiveOrder, FreeOrder DEF Environment
<1>3. QED
  BY <1>1, <1>2, FreeOrder DEF Next

(* Every stack is given the frames of one queue in the order in which they *)
(* arrived, and none of them twice: for every number of processes, ring    *)
(* and burst size, whatever the dispatcher answers, with ARP packets       *)
(* copied to all, and however the processes interleave.                    *)
THEOREM StacksInOrder == SafeSpec => []InOrder
<1>1. OrderInvariant => InOrder
  BY DEF OrderInvariant
<1>2. QED
  BY <1>1, OrderInit, OrderStep, MbufsConserved, PTL DEF SafeSpec

-----------------------------------------------------------------------------
(* No stack is left out.                                                   *)

(* A frame is carried by a sequence when an mbuf on it has it. *)
LEMMA CarriedOn ==
    \A d, f : \A s \in Seq(Mbufs) : Carried(s, d, f) <=> \E m \in Mbufs : d[m] = f /\ On(s, m)
BY DEF Carried, On

(* The ways to a stack, by the places of its lcore. *)
LEMMA ReachesPlaces ==
    ASSUME NEW q \in Queues, NEW f
    PROVE  /\ TypeOK => (Reaches(f, q) <=> AtLcore(q, f) \/ f \in missed[q])
           /\ TypeOK' => (Reaches(f, q)' <=> AtLcore(q, f)' \/ f \in missed'[q])
<1>1. ASSUME TypeOK PROVE Reaches(f, q) <=> AtLcore(q, f) \/ f \in missed[q]
  <2>1. ring[q] \in Seq(Mbufs) /\ burst[q] \in Seq(Mbufs)
    BY <1>1 DEF TypeOK
  <2>2. InTransit(f, q) <=> InBurst(q, f) \/ InRing(q, f)
    BY <2>1, CarriedOn DEF InTransit, InBurst, InRing
  <2>3. QED
    BY <2>2 DEF Reaches, AtLcore, Got
<1>2. ASSUME TypeOK' PROVE Reaches(f, q)' <=> AtLcore(q, f)' \/ f \in missed'[q]
  <2>1. ring'[q] \in Seq(Mbufs) /\ burst'[q] \in Seq(Mbufs)
    BY <1>2 DEF TypeOK
  <2>2. InTransit(f, q)' <=> InBurst(q, f)' \/ InRing(q, f)'
    BY <2>1, CarriedOn DEF InTransit, InBurst, InRing
  <2>3. QED
    BY <2>2 DEF Reaches, AtLcore, Got
<1>3. QED
  BY <1>1, <1>2

(* A burst of n frames is dequeued. *)
LEMMA DequeueKeeps ==
    ASSUME RxInvariant, NEW p \in Queues, process_dispatch_ring(p) \/ rte_eth_rx_burst(p),
           NEW q \in Queues, NEW f, AtLcore(q, f)
    PROVE  AtLcore(q, f)'
<1>1. TypeOK /\ BurstInStep
  BY DEF RxInvariant
<1>2. /\ pc[p] \in {"ring", "rx"} /\ data' = data /\ delivered' = delivered
  BY DEF process_dispatch_ring, rte_eth_rx_burst
<1>3. \A g : ~InBurst(p, g)
  <2>1. burst[p] \in Seq(Mbufs) /\ ~(Len(burst[p]) > 0)
    BY <1>1, <1>2 DEF BurstInStep, TypeOK
  <2>2. Len(burst[p]) = 0
    BY <2>1
  <2>3. QED
    BY <2>2 DEF InBurst, Carried
<1>4. \A r \in Queues \ {p} : burst'[r] = burst[r] /\ ring'[r] = ring[r]
  BY <1>1 DEF TypeOK, process_dispatch_ring, rte_eth_rx_burst
<1>5. CASE q # p
  BY <1>2, <1>4, <1>5 DEF AtLcore, Got, InBurst, InRing
<1>6. CASE q = p /\ rte_eth_rx_burst(p)
  <2>1. ring' = ring
    BY <1>6 DEF rte_eth_rx_burst
  <2>2. QED
    BY <1>2, <1>3, <1>6, <2>1 DEF AtLcore, Got, InRing
<1>7. CASE q = p /\ process_dispatch_ring(p)
  <2> DEFINE s == ring[p]
             n == Lesser(MaxBurst, Len(s))
             a == SubSeq(s, 1, n)
             b == SubSeq(s, n + 1, Len(s))
  <2>1. burst' = [burst EXCEPT ![p] = a] /\ ring' = [ring EXCEPT ![p] = b]
    BY <1>7 DEF process_dispatch_ring
  <2>2. s \in Seq(Mbufs) /\ n \in 0 .. Len(s)
    BY <1>1, BurstAssumption DEF TypeOK, Lesser
  <2>3. \A g : Carried(s, data, g) <=> Carried(a, data, g) \/ Carried(b, data, g)
    BY <2>2, SplitFrames
  <2> HIDE DEF a, b, n
  <2>4. burst'[p] = a /\ ring'[p] = b
    BY <1>1, <2>1 DEF TypeOK
  <2>5. QED
    BY <1>2, <1>3, <1>7, <2>3, <2>4 DEF AtLcore, Got, InBurst, InRing
<1>8. QED
  BY <1>5, <1>6, <1>7

(* A frame that is on its way to a stack, there, or was dropped, remains   *)
(* so, unless the dispatcher takes it from the burst of that very lcore.   *)
LEMMA ReachesStays ==
    ASSUME RxInvariant, OrderInvariant, [Next]_vars, NEW q \in Queues, NEW f, Reaches(f, q),
           \A ret \in -2 .. NbQueues : dispatch(q, ret) => f # frame(q)
    PROVE  Reaches(f, q)'
<1>1. TypeOK /\ BurstInStep /\ HasArrived /\ EachSorted
  BY DEF RxInvariant, OrderInvariant
<1>2. TypeOK'
  BY StepPreserves DEF RxInvariant
<1>3. AtLcore(q, f) \/ f \in missed[q]
  BY <1>1, ReachesPlaces
<1>4. Reaches(f, q)' <=> AtLcore(q, f)' \/ f \in missed'[q]
  BY <1>2, ReachesPlaces
<1>5. ASSUME NEW p \in Queues, process_dispatch_ring(p) \/ rte_eth_rx_burst(p)
      PROVE  Reaches(f, q)'
  <2>1. missed' = missed
    BY <1>5 DEF process_dispatch_ring, rte_eth_rx_burst
  <2>2. QED
    BY <1>3, <1>4, <1>5, <2>1, DequeueKeeps
<1>6. CASE UNCHANGED <<data, ring, burst, delivered, missed>>
  BY <1>3, <1>4, <1>6 DEF AtLcore, Got, InBurst, InRing
<1>7. ASSUME NEW p \in Queues, undispatched(p) \/ dispatch_here(p) \/ copies_done(p)
      PROVE  Reaches(f, q)'
  BY <1>6, <1>7 DEF undispatched, dispatch_here, copies_done, Filter
<1>8. ASSUME NEW p \in Queues, NEW m \in Mbufs, lazybsd_mbuf_ext_free(p, m) \/ tx_free(p, m)
      PROVE  Reaches(f, q)'
  BY <1>6, <1>8 DEF lazybsd_mbuf_ext_free, tx_free
<1>9. ASSUME NEW p \in Queues, NEW ret \in -2 .. NbQueues, dispatch(p, ret)
      PROVE  Reaches(f, q)'
  <2>1. /\ pc[p] = "work" /\ NextPacket(p) /\ data' = data /\ src' = src
        /\ delivered' = delivered
    BY <1>9 DEF dispatch
  <2>2. /\ \A g : InBurst(p, g) <=> g = frame(p) \/ InBurst(p, g)'
        /\ \A r \in Queues \ {p} : \A g : InBurst(r, g)' <=> InBurst(r, g)
    BY <1>1, <2>1, RtemFrames
  <2>3. InBurst(q, f) => InBurst(q, f)'
    BY <1>9, <2>2
  <2>4. f \in missed[q] => f \in missed'[q]
    BY <1>1, <1>9 DEF dispatch, TypeOK
  <2>5. InRing(q, f) => InRing(q, f)'
    <3>1. CASE ring' = ring
      BY <2>1, <3>1 DEF InRing
    <3>2. CASE ret \in Queues /\ ring' = [ring EXCEPT ![ret] = Append(ring[ret], rtem(p))]
      <4>1. ring[ret] \in Seq(Mbufs) /\ rtem(p) \in Mbufs
        BY <1>1, <2>1, <3>2, RtemTaken DEF TypeOK
      <4>2. Carried(ring[ret], data, f) => Carried(Append(ring[ret], rtem(p)), data, f)
        BY <4>1, AppendFrames
      <4>3. ring'[q] = IF q = ret THEN Append(ring[ret], rtem(p)) ELSE ring[q]
        BY <1>1, <3>2 DEF TypeOK
      <4>4. QED
        BY <2>1, <4>2, <4>3 DEF InRing
    <3>3. QED
      BY <1>9, <3>1, <3>2 DEF dispatch
  <2>6. QED
    BY <1>3, <1>4, <2>1, <2>3, <2>4, <2>5 DEF AtLcore, Got
<1>10. ASSUME NEW p \in Queues, copy(p) PROVE Reaches(f, q)'
  <2>1. j[p] \in Queues
    <3>1. j[p] \in 0 .. NbQueues /\ j[p] < NbQueues
      BY <1>1, <1>10 DEF TypeOK, copy
    <3>2. QED
      BY <3>1, QueueAssumption DEF Queues
  <2>2. /\ burst' = burst /\ delivered' = delivered /\ src' = src
        /\ f \in missed[q] => f \in missed'[q]
    BY <1>1, <1>10, <2>1 DEF copy, TypeOK
  <2>3. CASE data' = data /\ ring' = ring
    BY <1>3, <1>4, <2>2, <2>3 DEF AtLcore, Got, InBurst, InRing
  <2>4. ASSUME NEW m \in pool, data' = [data EXCEPT ![m] = frame(p)],
               ring' = [ring EXCEPT ![j[p]] = Append(ring[j[p]], m)]
        PROVE  Reaches(f, q)'
    <3>1. /\ Carried(ring[q], data', f) <=> InRing(q, f)
          /\ Carried(burst[q], data', f) <=> InBurst(q, f)
      BY <1>1, <2>2, <2>4, OthersStay
    <3>2. ring[q] \in Seq(Mbufs) /\ m \in Mbufs
      BY <1>1 DEF TypeOK
    <3>3. Carried(ring[q], data', f) => Carried(Append(ring[q], m), data', f)
      BY <3>2, AppendFrames
    <3>4. ring'[q] = ring[q] \/ ring'[q] = Append(ring[q], m)
      BY <1>1, <2>1, <2>4 DEF TypeOK
    <3>5. (InRing(q, f) => InRing(q, f)') /\ (InBurst(q, f) => InBurst(q, f)')
      BY <2>2, <3>1, <3>3, <3>4 DEF InRing, InBurst
    <3>6. QED
      BY <1>3, <1>4, <2>2, <3>5 DEF AtLcore, Got
  <2>5. QED
    BY <1>10, <2>3, <2>4 DEF copy
<1>11. ASSUME NEW p \in Queues, lazybsd_veth_input(p) \/ veth_input_drop(p) PROVE Reaches(f, q)'
  <2>1. /\ pc[p] = "input" /\ NextPacket(p) /\ data' = data /\ src' = src /\ ring' = ring
    BY <1>11 DEF lazybsd_veth_input, veth_input_drop
  <2>2. /\ \A g : InBurst(p, g) <=> g = frame(p) \/ InBurst(p, g)'
        /\ \A r \in Queues \ {p} : \A g : InBurst(r, g)' <=> InBurst(r, g)
    BY <1>1, <2>1, RtemFrames
  <2>3. InRing(q, f) => InRing(q, f)'
    BY <2>1 DEF InRing
  <2>4. CASE lazybsd_veth_input(p)
    <3>1. delivered' = [delivered EXCEPT ![p] = Append(delivered[p], frame(p))] /\ missed' = missed
      BY <2>4 DEF lazybsd_veth_input
    <3>2. delivered[p] \in Seq(0 .. MaxFrames) /\ frame(p) \in 0 .. MaxFrames
      BY <1>1, <2>1, RtemTaken DEF TypeOK
    <3>3. \A x : On(Append(delivered[p], frame(p)), x) <=> On(delivered[p], x) \/ x = frame(p)
      BY <3>2, AppendPlaces
    <3>4. delivered'[q] = IF q = p THEN Append(delivered[p], frame(p)) ELSE delivered[q]
      BY <1>1, <3>1 DEF TypeOK
    <3>5. (Got(q, f) => Got(q, f)') /\ (q = p /\ f = frame(p) => Got(q, f)')
      BY <3>3, <3>4 DEF Got
    <3>6. QED
      BY <1>3, <1>4, <2>2, <2>3, <3>1, <3>5 DEF AtLcore
  <2>5. CASE veth_input_drop(p)
    <3>1. delivered' = delivered /\ missed' = [missed EXCEPT ![p] = missed[p] \cup {frame(p)}]
      BY <2>5 DEF veth_input_drop
    <3>2. \A g : g \in missed'[q] <=> g \in missed[q] \/ (q = p /\ g = frame(p))
      BY <1>1, <3>1 DEF TypeOK
    <3>3. Got(q, f) => Got(q, f)'
      BY <3>1 DEF Got
    <3>4. QED
      BY <1>3, <1>4, <2>2, <2>3, <3>2, <3>3 DEF AtLcore
  <2>6. QED
    BY <1>11, <2>4, <2>5
<1>12. ASSUME NEW p \in Queues, NEW m \in Mbufs, nic_receive(p, m) PROVE Reaches(f, q)'
  <2>1. /\ m \in pool /\ ring' = ring /\ burst' = burst /\ delivered' = delivered /\ missed' = missed
        /\ data' = [data EXCEPT ![m] = Len(src) + 1] /\ src' = Append(src, p)
    BY <1>12 DEF nic_receive
  <2>2. \A g \in Arrived : src'[g] = src[g]
    BY <1>1, <2>1 DEF TypeOK, Arrived
  <2>3. /\ Carried(ring[q], data', f) <=> InRing(q, f)
        /\ Carried(burst[q], data', f) <=> InBurst(q, f)
    BY <1>1, <2>1, <2>2, OthersStay
  <2>4. QED
    BY <1>3, <1>4, <2>1, <2>3 DEF AtLcore, Got, InRing, InBurst
<1>13. CASE UNCHANGED vars
  BY <1>6, <1>13 DEF vars
<1>14. QED
  <2>1. ASSUME NEW p \in Queues, Lcore(p) PROVE Reaches(f, q)'
    BY <1>5, <1>7, <1>9, <1>10, <1>11, <2>1 DEF Lcore
  <2>2. ASSUME NEW p \in Queues, Environment(p) PROVE Reaches(f, q)'
    BY <1>8, <1>12, <2>2 DEF Environment
  <2>3. QED
    BY <1>13, <2>1, <2>2 DEF Next

(* What the dispatcher takes has come from the NIC. *)
LEMMA DispatchedFromNic ==
    ASSUME RxInvariant, OrderInvariant, NEW q \in Queues, pc[q] # "ring", pc[q] # "rx", ~from_ring[q]
    PROVE  /\ frame(q) \in Arrived /\ src[frame(q)] = q /\ InBurst(q, frame(q))
           /\ Len(burst[q]) > 0 /\ frame(q) \in Nat
<1>1. TypeOK /\ BurstInStep /\ HasArrived /\ OneWay
  BY DEF RxInvariant, OrderInvariant
<1>2. burst[q] \in Seq(Mbufs) /\ Len(burst[q]) > 0
  BY <1>1 DEF TypeOK, BurstInStep
<1>3. InBurst(q, frame(q))
  BY <1>2, FrameInBurst
<1>4. frame(q) \in Arrived /\ frame(q) \in Nat
  BY <1>1, <1>3, FramesArrived DEF AtLcore
<1>5. QED
  BY <1>1, <1>2, <1>3, <1>4 DEF OneWay

(* While an lcore copies a packet, only its loop variable moves. *)
LEMMA CopyLoop ==
    ASSUME RxInvariant, OrderInvariant, [Next]_vars, NEW s \in Queues, pc'[s] = "copy", j'[s] # 0
    PROVE  /\ pc[s] = "copy" /\ frame(s)' = frame(s)
           /\ j'[s] = j[s] \/ (copy(s) /\ j'[s] = j[s] + 1)
<1>1. TypeOK /\ BurstInStep /\ OneHolder /\ HasArrived
  BY DEF RxInvariant, OrderInvariant
<1> DEFINE Same == pc[s] = "copy" /\ burst'[s] = burst[s]
           Step == j'[s] = j[s] \/ (copy(s) /\ j'[s] = j[s] + 1)
           Data == data' = data \/ \E m \in pool : \E v : data' = [data EXCEPT ![m] = v]
<1>2. ASSUME NEW p \in Queues, process_dispatch_ring(p) PROVE Same /\ Step /\ Data
  BY <1>1, <1>2 DEF process_dispatch_ring, TypeOK
<1>3. ASSUME NEW p \in Queues, rte_eth_rx_burst(p) PROVE Same /\ Step /\ Data
  BY <1>1, <1>3 DEF rte_eth_rx_burst, TypeOK
<1>4. ASSUME NEW p \in Queues, undispatched(p) \/ dispatch_here(p) PROVE Same /\ Step /\ Data
  BY <1>1, <1>4 DEF undispatched, dispatch_here, Filter, TypeOK
<1>5. ASSUME NEW p \in Queues, NextPacket(p), j' = j, data' = data PROVE Same /\ Step /\ Data
  BY <1>1, <1>5 DEF NextPacket, TypeOK
<1>6. ASSUME NEW p \in Queues, copy(p) PROVE Same /\ Step /\ Data
  <2>1. pc' = pc /\ burst' = burst /\ j' = [j EXCEPT ![p] = j[p] + 1]
    BY <1>6 DEF copy
  <2>2. Data
    BY <1>6 DEF copy
  <2>3. p # s => j'[s] = j[s]
    BY <1>1, <2>1 DEF TypeOK
  <2>4. p = s => j'[s] = j[s] + 1
    BY <1>1, <2>1 DEF TypeOK
  <2>5. QED
    BY <1>6, <2>1, <2>2, <2>3, <2>4
<1>7. ASSUME NEW p \in Queues, copies_done(p) PROVE Same /\ Step /\ Data
  BY <1>1, <1>7 DEF copies_done, TypeOK
<1>8. ASSUME NEW p \in Queues, NEW m \in Mbufs, nic_receive(p, m) PROVE Same /\ Step /\ Data
  BY <1>8 DEF nic_receive
<1>9. ASSUME UNCHANGED <<pc, burst, j, data>> PROVE Same /\ Step /\ Data
  BY <1>9
<1>10. Same /\ Step /\ Data
  <2>1. ASSUME NEW p \in Queues, Lcore(p) PROVE Same /\ Step /\ Data
    <3>1. CASE \E ret \in -2 .. NbQueues : dispatch(p, ret)
      BY <1>5, <3>1 DEF dispatch
    <3>2. CASE lazybsd_veth_input(p) \/ veth_input_drop(p)
      BY <1>5, <3>2 DEF lazybsd_veth_input, veth_input_drop
    <3>3. QED
      BY <1>2, <1>3, <1>4, <1>6, <1>7, <2>1, <3>1, <3>2 DEF Lcore
  <2>2. ASSUME NEW p \in Queues, Environment(p) PROVE Same /\ Step /\ Data
    BY <1>8, <1>9, <2>2 DEF Environment, lazybsd_mbuf_ext_free, tx_free
  <2>3. CASE UNCHANGED vars
    BY <1>9, <2>3 DEF vars
  <2>4. QED
    BY <2>1, <2>2, <2>3 DEF Next
<1>11. frame(s)' = frame(s)
  <2>1. burst[s] \in Seq(Mbufs) /\ Len(burst[s]) > 0
    BY <1>1, <1>10 DEF TypeOK, BurstInStep
  <2>2. burst[s][1] \in Mbufs /\ On(burst[s], burst[s][1])
    BY <2>1 DEF On
  <2>3. burst[s][1] \notin pool
    BY <1>1, <2>2, OnlyInBurst
  <2>4. data'[burst[s][1]] = data[burst[s][1]]
    BY <1>1, <1>10, <2>2, <2>3 DEF TypeOK
  <2>5. QED
    BY <1>10, <2>4 DEF frame, rtem
<1>12. QED
  BY <1>10, <1>11

(* Every step keeps the copies made so far on their way. *)
LEMMA CopiesStep ==
    ASSUME RxInvariant, OrderInvariant, CopiesReach, [Next]_vars
    PROVE  CopiesReach'
<1> SUFFICES ASSUME NEW s \in Queues, NEW q \in Queues, pc'[s] = "copy", q < j'[s]
             PROVE  Reaches(frame(s), q)'
  BY DEF CopiesReach
<1>1. TypeOK /\ TypeOK' /\ CopiedFromNic
  BY StepPreserves DEF RxInvariant, OrderInvariant
<1>2. q \in Int /\ 0 <= q
  BY QueueAssumption DEF Queues
<1>3. /\ pc[s] = "copy" /\ frame(s)' = frame(s)
      /\ j'[s] = j[s] \/ (copy(s) /\ j'[s] = j[s] + 1)
  <2>1. j'[s] # 0
    BY <1>2
  <2>2. QED
    BY <2>1, CopyLoop
<1>4. src[frame(s)] = s /\ InBurst(s, frame(s))
  <2>1. ~from_ring[s] /\ pc[s] # "ring" /\ pc[s] # "rx"
    BY <1>1, <1>3 DEF CopiedFromNic
  <2>2. QED
    BY <2>1, DispatchedFromNic
<1>5. ASSUME NEW ret \in -2 .. NbQueues, dispatch(q, ret) PROVE frame(s) # frame(q)
  <2>1. pc[q] = "work" /\ ~from_ring[q]
    BY <1>5 DEF dispatch
  <2>2. src[frame(q)] = q
    BY <2>1, DispatchedFromNic
  <2>3. QED
    BY <1>3, <1>4, <2>1, <2>2
<1>6. CASE Reaches(frame(s), q)
  <2>1. ASSUME NEW f, f = frame(s) PROVE Reaches(f, q)'
    BY <1>5, <1>6, <2>1, ReachesStays
  <2>2. \A f : f = frame(s) => Reaches(f, q)'
    BY <2>1
  <2>3. QED
    BY <1>1, <1>3, <2>2 DEF Reaches, InTransit
<1>7. CASE q < j[s]
  BY <1>3, <1>6, <1>7 DEF CopiesReach
<1>8. CASE q = s
  BY <1>1, <1>4, <1>6, <1>8, ReachesPlaces DEF AtLcore
<1>9. CASE q # s /\ ~(q < j[s])
  <2>1. copy(s) /\ j[s] \in 0 .. NbQueues /\ j'[s] = j[s] + 1
    BY <1>1, <1>3, <1>9 DEF TypeOK
  <2>2. q = j[s]
    BY <1>2, <1>9, <2>1
  <2>3. CASE frame(s) \in missed'[q]
    BY <1>3, <2>3 DEF Reaches
  <2>4. ASSUME NEW m \in pool, data' = [data EXCEPT ![m] = frame(s)],
               ring' = [ring EXCEPT ![q] = Append(ring[q], m)]
        PROVE  Reaches(frame(s), q)'
    <3>1. ring[q] \in Seq(Mbufs) /\ m \in Mbufs /\ data'[m] = frame(s)
          /\ ring'[q] = Append(ring[q], m)
      BY <1>1, <2>4 DEF TypeOK
    <3>2. On(ring'[q], m)
      BY <3>1, AppendPlaces
    <3>3. QED
      BY <1>3, <3>1, <3>2 DEF Reaches, InTransit
  <2>5. \/ missed' = [missed EXCEPT ![q] = missed[q] \cup {frame(s)}]
        \/ \E m \in pool : /\ data' = [data EXCEPT ![m] = frame(s)]
                            /\ ring' = [ring EXCEPT ![q] = Append(ring[q], m)]
    BY <1>9, <2>1, <2>2 DEF copy
  <2>6. missed' = [missed EXCEPT ![q] = missed[q] \cup {frame(s)}] => frame(s) \in missed'[q]
    BY <1>1 DEF TypeOK
  <2>7. QED
    BY <2>3, <2>4, <2>5, <2>6
<1>10. QED
  BY <1>7, <1>8, <1>9

(* Every step keeps the ARP frames on their way to every stack. *)
LEMMA SharedStep ==
    ASSUME RxInvariant, OrderInvariant, CopiesReach, ArpShared, [Next]_vars
    PROVE  ArpShared'
<1> SUFFICES ASSUME NEW f \in shared', NEW q \in Queues PROVE Reaches(f, q)'
  BY DEF ArpShared, Reaches
<1>1. TypeOK /\ BurstInStep /\ HasArrived /\ BurstBehind /\ CopiedFromNic
  BY DEF RxInvariant, OrderInvariant
<1>2. CASE f \in shared
  <2>1. Reaches(f, q)
    BY <1>2 DEF ArpShared, Reaches
  <2>2. ASSUME NEW ret \in -2 .. NbQueues, dispatch(q, ret) PROVE f # frame(q)
    <3>1. pc[q] = "work" /\ ~from_ring[q]
      BY <2>2 DEF dispatch
    <3>2. src[frame(q)] = q /\ Len(burst[q]) > 0 /\ frame(q) \in Nat
      BY <3>1, DispatchedFromNic
    <3>3. f \in Arrived
      BY <1>1, <1>2 DEF HasArrived
    <3>4. src[f] = q => f < frame(q)
      BY <1>1, <1>2, <3>1, <3>2, <3>3 DEF BurstBehind
    <3>5. QED
      BY <3>2, <3>4
  <2>3. QED
    BY <2>1, <2>2, ReachesStays
<1>3. CASE f \notin shared
  <2>1. PICK s \in Queues : copies_done(s)
    <3>1. \/ shared' = shared
          \/ \E p \in Queues : copies_done(p)
      BY DEF Next, Lcore, Environment, process_dispatch_ring, rte_eth_rx_burst, undispatched,
             dispatch_here, Filter, dispatch, copy, lazybsd_veth_input, veth_input_drop,
             nic_receive, lazybsd_mbuf_ext_free, tx_free, vars
    <3>2. QED
      BY <1>3, <3>1
  <2>2. f = frame(s) /\ pc[s] = "copy" /\ j[s] = NbQueues
    BY <1>3, <2>1 DEF copies_done
  <2>3. Reaches(f, q)
    <3>1. q < j[s]
      BY <2>2, QueueAssumption DEF Queues
    <3>2. QED
      BY <2>2, <3>1 DEF CopiesReach
  <2>4. ~from_ring[s] /\ src[f] = s
    BY <1>1, <2>2, DispatchedFromNic DEF CopiedFromNic
  <2>5. ASSUME NEW ret \in -2 .. NbQueues, dispatch(q, ret) PROVE f # frame(q)
    <3>1. pc[q] = "work" /\ ~from_ring[q]
      BY <2>5 DEF dispatch
    <3>2. src[frame(q)] = q
      BY <3>1, DispatchedFromNic
    <3>3. QED
      BY <2>2, <2>4, <3>1, <3>2
  <2>6. QED
    BY <2>3, <2>5, ReachesStays
<1>4. QED
  BY <1>2, <1>3

(* An ARP packet that its lcore has copied is on its way to every stack,   *)
(* has reached it or was dropped on that way: for any number of processes  *)
(* the loop of copies leaves none out, and no later dispatch takes a       *)
(* packet back.                                                            *)
THEOREM ArpReachesAll == SafeSpec => []ArpShared
<1>1. Init => CopiesReach /\ ArpShared
  BY DEF Init, CopiesReach, ArpShared
<1>2. RxInvariant /\ OrderInvariant /\ CopiesReach /\ ArpShared /\ [Next]_vars
          => CopiesReach' /\ ArpShared'
  BY CopiesStep, SharedStep
<1>3. QED
  BY <1>1, <1>2, OrderInit, OrderStep, MbufsConserved, PTL DEF SafeSpec
=============================================================================
