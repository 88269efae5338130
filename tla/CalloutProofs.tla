--------------------------- MODULE CalloutProofs ---------------------------
(***************************************************************************)
(* The callout wheel keeps its invariant, and implements TimerService, for *)
(* every set of callouts, wheel size, tick width and set of delays.        *)
(***************************************************************************)
EXTENDS Callout, TLAPS

-----------------------------------------------------------------------------
(* The list macros, in terms of On and NotAfter.                           *)

(* IndexOf finds a callout that is on the list. *)
LEMMA IndexOfIsIndex ==
    ASSUME NEW s \in Seq(Callouts), NEW c, On(s, c)
    PROVE  IndexOf(s, c) \in 1 .. Len(s) /\ s[IndexOf(s, c)] = c
BY DEF On, IndexOf

(* LIST_FIRST is before everything on the list. *)
LEMMA FirstIsFirst ==
    ASSUME NEW s \in Seq(Callouts)
    PROVE  /\ LIST_FIRST(s) \in Callouts \cup {NULL}
           /\ LIST_FIRST(s) # NULL => On(s, LIST_FIRST(s))
           /\ \A y \in Callouts : On(s, y) => NotAfter(s, LIST_FIRST(s), y)
BY NullAssumption DEF LIST_FIRST, On, NotAfter

(* LIST_NEXT(c) is before everything that comes after c. *)
LEMMA NextIsNext ==
    ASSUME NEW s \in Seq(Callouts), NEW c \in Callouts, On(s, c), NoDuplicates(s)
    PROVE  /\ LIST_NEXT(s, c) \in Callouts \cup {NULL}
           /\ LIST_NEXT(s, c) # NULL => On(s, LIST_NEXT(s, c))
           /\ LIST_NEXT(s, c) # c
           /\ \A y \in Callouts : NotAfter(s, c, y) /\ y # c => NotAfter(s, LIST_NEXT(s, c), y)
<1> DEFINE i == IndexOf(s, c)
<1>1. i \in 1 .. Len(s) /\ s[i] = c
  BY IndexOfIsIndex
<1> HIDE DEF i
<1>2. LIST_NEXT(s, c) = IF i = Len(s) THEN NULL ELSE s[i + 1]
  BY DEF LIST_NEXT, i
<1>3. i # Len(s) => i + 1 \in 1 .. Len(s)
  BY <1>1
<1>4. /\ LIST_NEXT(s, c) \in Callouts \cup {NULL}
      /\ LIST_NEXT(s, c) # NULL => On(s, LIST_NEXT(s, c))
      /\ LIST_NEXT(s, c) # c
  BY <1>1, <1>2, <1>3, NullAssumption DEF On, NoDuplicates
<1>5. ASSUME NEW y \in Callouts, NotAfter(s, c, y), y # c
      PROVE  NotAfter(s, LIST_NEXT(s, c), y)
  <2>1. PICK k \in 1 .. Len(s), j \in 1 .. Len(s) : k <= j /\ s[k] = c /\ s[j] = y
    BY <1>5 DEF NotAfter
  <2>2. k = i
    BY <1>1, <2>1 DEF NoDuplicates
  <2>3. i < j
    BY <1>1, <1>5, <2>1, <2>2
  <2>4. QED
    BY <1>1, <1>2, <1>3, <2>1, <2>3 DEF NotAfter
<1>6. QED
  BY <1>4, <1>5

(* LIST_REMOVE takes off c and keeps the order of the others. *)
LEMMA RemoveRemoves ==
    ASSUME NEW s \in Seq(Callouts), NEW c \in Callouts, On(s, c), NoDuplicates(s)
    PROVE  /\ LIST_REMOVE(s, c) \in Seq(Callouts)
           /\ NoDuplicates(LIST_REMOVE(s, c))
           /\ \A x \in Callouts : On(LIST_REMOVE(s, c), x) <=> On(s, x) /\ x # c
           /\ \A x, y \in Callouts :
                 x # c /\ y # c /\ NotAfter(s, x, y) => NotAfter(LIST_REMOVE(s, c), x, y)
<1> DEFINE i == IndexOf(s, c)
           r == LIST_REMOVE(s, c)
<1>1. i \in 1 .. Len(s) /\ s[i] = c
  BY IndexOfIsIndex
<1>2. r = [j \in 1 .. Len(s) - 1 |-> IF j < i THEN s[j] ELSE s[j + 1]]
  BY DEF LIST_REMOVE
<1> HIDE DEF i, r
<1>3. Len(s) \in Nat /\ Len(s) - 1 \in Nat
  BY <1>1
<1>4. r \in Seq(Callouts) /\ Len(r) = Len(s) - 1
  BY <1>1, <1>2, <1>3
<1>5. \A j \in 1 .. Len(r) : r[j] = IF j < i THEN s[j] ELSE s[j + 1]
  BY <1>2, <1>4
<1>6. NoDuplicates(r)
  BY SMTT(30), <1>1, <1>3, <1>4, <1>5 DEF NoDuplicates
<1>7. ASSUME NEW j \in 1 .. Len(s), s[j] # c
      PROVE  LET m == IF j < i THEN j ELSE j - 1 IN m \in 1 .. Len(r) /\ r[m] = s[j]
  BY <1>1, <1>3, <1>4, <1>5, <1>7
<1>8. ASSUME NEW x \in Callouts
      PROVE  On(r, x) <=> On(s, x) /\ x # c
  <2>1. ASSUME On(r, x) PROVE On(s, x) /\ x # c
    BY <1>1, <1>3, <1>4, <1>5, <2>1 DEF On, NoDuplicates
  <2>2. ASSUME On(s, x), x # c PROVE On(r, x)
    BY <1>7, <2>2 DEF On
  <2>3. QED
    BY <2>1, <2>2
<1>9. ASSUME NEW x \in Callouts, NEW y \in Callouts, x # c, y # c, NotAfter(s, x, y)
      PROVE  NotAfter(r, x, y)
  <2>1. PICK k \in 1 .. Len(s), j \in 1 .. Len(s) : k <= j /\ s[k] = x /\ s[j] = y
    BY <1>9 DEF NotAfter
  <2> DEFINE mk == IF k < i THEN k ELSE k - 1
             mj == IF j < i THEN j ELSE j - 1
  <2>2. mk \in 1 .. Len(r) /\ r[mk] = x /\ mj \in 1 .. Len(r) /\ r[mj] = y
    BY <1>7, <1>9, <2>1
  <2>3. mk <= mj
    BY <1>1, <1>3, <2>1
  <2> HIDE DEF mk, mj
  <2>4. QED
    BY <2>2, <2>3 DEF NotAfter
<1>10. QED
  BY <1>4, <1>6, <1>8, <1>9 DEF r

(* LIST_INSERT_HEAD puts c before all the others and keeps their order. *)
LEMMA InsertInserts ==
    ASSUME NEW s \in Seq(Callouts), NEW c \in Callouts, ~On(s, c), NoDuplicates(s)
    PROVE  /\ LIST_INSERT_HEAD(s, c) \in Seq(Callouts)
           /\ NoDuplicates(LIST_INSERT_HEAD(s, c))
           /\ \A x \in Callouts : On(LIST_INSERT_HEAD(s, c), x) <=> On(s, x) \/ x = c
           /\ \A x \in Callouts :
                 On(LIST_INSERT_HEAD(s, c), x) => NotAfter(LIST_INSERT_HEAD(s, c), c, x)
           /\ \A x, y \in Callouts :
                 NotAfter(s, x, y) => NotAfter(LIST_INSERT_HEAD(s, c), x, y)
<1> DEFINE r == LIST_INSERT_HEAD(s, c)
<1>1. r = [j \in 1 .. Len(s) + 1 |-> IF j = 1 THEN c ELSE s[j - 1]]
  BY DEF LIST_INSERT_HEAD
<1> HIDE DEF r
<1>2. Len(s) \in Nat
  OBVIOUS
<1>3. r \in Seq(Callouts) /\ Len(r) = Len(s) + 1
  BY <1>1, <1>2
<1>4. \A j \in 1 .. Len(r) : r[j] = IF j = 1 THEN c ELSE s[j - 1]
  BY <1>1, <1>3
<1>5. r[1] = c /\ 1 \in 1 .. Len(r)
  BY <1>2, <1>3, <1>4
<1>6. \A j \in 1 .. Len(s) : j + 1 \in 1 .. Len(r) /\ r[j + 1] = s[j]
  BY <1>2, <1>3, <1>4
<1>7. \A j \in 1 .. Len(r) : j # 1 => j - 1 \in 1 .. Len(s) /\ r[j] = s[j - 1]
  BY <1>2, <1>3, <1>4
<1>8. NoDuplicates(r)
  <2>1. \A j \in 1 .. Len(s) : s[j] # c
    BY DEF On
  <2>2. ASSUME NEW j \in 1 .. Len(r), NEW k \in 1 .. Len(r), r[j] = r[k]
        PROVE  j = k
    <3>1. CASE j = 1 \/ k = 1
      BY <1>7, <1>5, <2>1, <2>2, <3>1
    <3>2. CASE j # 1 /\ k # 1
      <4>1. j - 1 = k - 1
        BY <1>7, <2>2, <3>2 DEF NoDuplicates
      <4>2. QED
        BY <4>1
    <3>3. QED
      BY <3>1, <3>2
  <2>3. QED
    BY <2>2 DEF NoDuplicates
<1>9. ASSUME NEW x \in Callouts
      PROVE  On(r, x) <=> On(s, x) \/ x = c
  <2>1. ASSUME On(r, x) PROVE On(s, x) \/ x = c
    BY <1>7, <1>5, <2>1 DEF On
  <2>2. ASSUME On(s, x) PROVE On(r, x)
    BY <1>6, <2>2 DEF On
  <2>3. ASSUME x = c PROVE On(r, x)
    BY <1>5, <2>3 DEF On
  <2>4. QED
    BY <2>1, <2>2, <2>3
<1>10. \A x \in Callouts : On(r, x) => NotAfter(r, c, x)
  BY <1>3, <1>5 DEF On, NotAfter
<1>11. ASSUME NEW x \in Callouts, NEW y \in Callouts, NotAfter(s, x, y)
       PROVE  NotAfter(r, x, y)
  <2>1. PICK k \in 1 .. Len(s), j \in 1 .. Len(s) : k <= j /\ s[k] = x /\ s[j] = y
    BY <1>11 DEF NotAfter
  <2>2. k + 1 \in 1 .. Len(r) /\ r[k + 1] = x /\ j + 1 \in 1 .. Len(r) /\ r[j + 1] = y
    BY <1>6, <2>1
  <2>3. k + 1 <= j + 1
    BY <2>1
  <2>4. QED
    BY <2>2, <2>3 DEF NotAfter
<1>12. QED
  BY <1>3, <1>8, <1>9, <1>10, <1>11 DEF r

-----------------------------------------------------------------------------
(* Tick arithmetic.                                                        *)

(* A tick a positive delay shorter than TickMod - 1 away is neither the    *)
(* present one nor the one before it.                                      *)
LEMMA TickArithmetic ==
    /\ \A a \in Tick : TickAdd(a, 1) \in Tick /\ TickAdd(a, 1) # a
    /\ \A a, b \in Tick : TickAdd(a, 1) = TickAdd(b, 1) => a = b
    /\ \A a \in Tick, n \in 1 .. TickMod - 2 :
          TickAdd(a, n) \in Tick /\ TickAdd(TickAdd(a, n), 1) # a
    /\ \A a \in Tick : ~TickBefore(a, a)
    /\ \A a \in Tick : TickBefore(a, TickAdd(a, 1))
BY TickAssumption DEF Tick, TickAdd, TickDiff, TickBefore

(* Every tick has a bucket. *)
LEMMA BucketOfTick == \A t \in Tick : callout_get_bucket(t) \in Buckets
BY WheelAssumption, TickAssumption DEF callout_get_bucket, Tick, Buckets

(* The delay callout_reset_tick_on uses is positive and short enough. *)
LEMMA DelayInRange ==
    \A to \in ToTicks : (IF to <= 0 THEN 1 ELSE to) \in 1 .. TickMod - 2
BY ToAssumption, TickAssumption

-----------------------------------------------------------------------------
(* The wheel and cc_next once callout_reset_tick_on or _callout_stop_safe  *)
(* has taken c off, if it was on a list.                                   *)

WheelOff(c) == IF pending[c] THEN WheelWithout(c) ELSE cc_callwheel
NextOff(c)  == IF pending[c] THEN NextWithout(c) ELSE cc_next

(* Taking c off leaves the others, in their order, and cc_next before all  *)
(* that it was before.                                                     *)
LEMMA TakenOff ==
    ASSUME TypeOK, WheelConsistent, NextOnList, NEW c \in Callouts
    PROVE  /\ WheelOff(c) \in [Buckets -> Seq(Callouts)]
           /\ \A b \in Buckets :
                 /\ NoDuplicates(WheelOff(c)[b])
                 /\ \A x \in Callouts : On(WheelOff(c)[b], x) <=> On(cc_callwheel[b], x) /\ x # c
           /\ NextOff(c) \in Callouts \cup {NULL}
           /\ NextOff(c) # NULL => On(WheelOff(c)[cc_bucket], NextOff(c))
           /\ \A y \in Callouts :
                 y # c /\ NotAfter(cc_callwheel[cc_bucket], cc_next, y) =>
                    NotAfter(WheelOff(c)[cc_bucket], NextOff(c), y)
<1> DEFINE p == Bucket(c)
           s == cc_callwheel[p]
<1>1. p \in Buckets /\ s \in Seq(Callouts) /\ NoDuplicates(s) /\ cc_bucket \in Buckets
  BY BucketOfTick DEF TypeOK, Bucket, WheelConsistent
<1>2. CASE ~pending[c]
  <2>1. \A b \in Buckets : ~On(cc_callwheel[b], c)
    BY <1>2 DEF WheelConsistent
  <2>2. WheelOff(c) = cc_callwheel /\ NextOff(c) = cc_next
    BY <1>2 DEF WheelOff, NextOff
  <2>3. QED
    BY <2>1, <2>2 DEF TypeOK, WheelConsistent, NextOnList
<1>3. CASE pending[c]
  <2> DEFINE W == WheelOff(c)
             r == LIST_REMOVE(s, c)
             n == LIST_NEXT(s, c)
  <2>1. On(s, c)
    BY <1>1, <1>3 DEF WheelConsistent
  <2>2. W = [cc_callwheel EXCEPT ![p] = r]
    BY <1>3 DEF WheelOff, WheelWithout
  <2>3. NextOff(c) = IF cc_next = c THEN n ELSE cc_next
    BY <1>3 DEF NextOff, NextWithout
  <2>4. /\ r \in Seq(Callouts)
        /\ NoDuplicates(r)
        /\ \A x \in Callouts : On(r, x) <=> On(s, x) /\ x # c
        /\ \A x, y \in Callouts : x # c /\ y # c /\ NotAfter(s, x, y) => NotAfter(r, x, y)
    BY <1>1, <2>1, RemoveRemoves
  <2>5. /\ n \in Callouts \cup {NULL}
        /\ n # NULL => On(s, n)
        /\ n # c
        /\ \A y \in Callouts : NotAfter(s, c, y) /\ y # c => NotAfter(s, n, y)
    BY <1>1, <2>1, NextIsNext
  <2> HIDE DEF W, r, n, p
  <2>6. /\ W \in [Buckets -> Seq(Callouts)]
        /\ W[p] = r
        /\ \A b \in Buckets : b # p => W[b] = cc_callwheel[b]
    BY <1>1, <2>2, <2>4 DEF TypeOK
  <2>7. \A b \in Buckets : b # p => ~On(cc_callwheel[b], c)
    BY DEF WheelConsistent, p
  <2>8. ASSUME NEW b \in Buckets
        PROVE  /\ NoDuplicates(W[b])
               /\ \A x \in Callouts : On(W[b], x) <=> On(cc_callwheel[b], x) /\ x # c
    <3>1. CASE b = p
      BY <2>4, <2>6, <3>1
    <3>2. CASE b # p
      BY <2>6, <2>7, <3>2 DEF WheelConsistent
    <3>3. QED
      BY <3>1, <3>2
  <2>9. NextOff(c) \in Callouts \cup {NULL}
    BY <2>3, <2>5 DEF TypeOK
  <2>10. ASSUME cc_next = c PROVE cc_bucket = p
    <3>1. On(cc_callwheel[cc_bucket], c)
      BY <2>10, NullAssumption DEF NextOnList
    <3>2. QED
      BY <1>1, <2>7, <3>1
  <2>11. ASSUME NextOff(c) # NULL PROVE On(W[cc_bucket], NextOff(c))
    <3>1. CASE cc_next = c
      BY <1>1, <2>3, <2>4, <2>5, <2>6, <2>10, <2>11, <3>1
    <3>2. CASE cc_next # c
      <4>1. NextOff(c) = cc_next /\ cc_next # NULL /\ cc_next \in Callouts
        BY <2>3, <2>11, <3>2 DEF TypeOK
      <4>2. On(cc_callwheel[cc_bucket], cc_next)
        BY <4>1 DEF NextOnList
      <4>3. QED
        BY <1>1, <2>8, <3>2, <4>1, <4>2
    <3>3. QED
      BY <3>1, <3>2
  <2>12. ASSUME NEW y \in Callouts, y # c, NotAfter(cc_callwheel[cc_bucket], cc_next, y)
         PROVE  NotAfter(W[cc_bucket], NextOff(c), y)
    <3>1. cc_next \in Callouts
      BY <1>1, <2>12 DEF NotAfter, TypeOK
    <3>2. CASE cc_next = c
      <4>1. NotAfter(s, n, y)
        BY <2>5, <2>10, <2>12, <3>2
      <4>2. n \in Callouts
        BY <1>1, <4>1 DEF NotAfter
      <4>3. NotAfter(r, n, y)
        BY <2>4, <2>5, <2>12, <4>1, <4>2
      <4>4. QED
        BY <2>3, <2>6, <2>10, <3>2, <4>3
    <3>3. CASE cc_next # c
      <4>1. NextOff(c) = cc_next
        BY <2>3, <3>3
      <4>2. CASE cc_bucket = p
        BY <2>4, <2>6, <2>12, <3>1, <3>3, <4>1, <4>2
      <4>3. CASE cc_bucket # p
        BY <1>1, <2>6, <2>12, <4>1, <4>3
      <4>4. QED
        BY <4>2, <4>3
    <3>4. QED
      BY <3>2, <3>3
  <2>13. QED
    BY <2>6, <2>8, <2>9, <2>11, <2>12 DEF W
<1>4. QED
  BY <1>2, <1>3

-----------------------------------------------------------------------------
(* What every step preserves.  That no callout is missed rests on the      *)
(* wheel being consistent.                                                 *)
TimelyWheel == WheelInvariant /\ NoneMissed

(* One lemma per operation: it preserves TimelyWheel.                      *)

(* callout_reset_tick_on, from wherever it is called. *)
LEMMA ResetPreserves ==
    ASSUME TimelyWheel, NEW c \in Callouts, NEW to \in ToTicks, NEW dir \in DirectFlags,
           callout_reset_tick_on(c, to, dir)
    PROVE  TimelyWheel'
<1> DEFINE d == IF to <= 0 THEN 1 ELSE to
           W == WheelOff(c)
           N == NextOff(c)
           due == TickAdd(ticks, d)
           b == callout_get_bucket(due)
           r == LIST_INSERT_HEAD(W[b], c)
<1> USE DEF TimelyWheel, WheelInvariant
<1>1. d \in 1 .. TickMod - 2
  BY DelayInRange
<1>2. /\ pc \in {"idle", "handler", "drain"}
      /\ pending' = [pending EXCEPT ![c] = TRUE]
      /\ active' = [active EXCEPT ![c] = TRUE]
      /\ direct' = [direct EXCEPT ![c] = @ \/ dir]
      /\ c_time' = [c_time EXCEPT ![c] = due]
      /\ cc_callwheel' = [W EXCEPT ![b] = r]
      /\ cc_next' = IF cc_bucket = b THEN c ELSE N
      /\ UNCHANGED <<ticks, cc_softticks, cc_bucket, cc_curr, cc_drain, curticks, scan, pc>>
  BY DEF callout_reset_tick_on, callout_cc_add, Callable, WheelOff, NextOff
<1>3. /\ W \in [Buckets -> Seq(Callouts)]
      /\ \A q \in Buckets :
            /\ NoDuplicates(W[q])
            /\ \A x \in Callouts : On(W[q], x) <=> On(cc_callwheel[q], x) /\ x # c
      /\ N \in Callouts \cup {NULL}
      /\ N # NULL => On(W[cc_bucket], N)
      /\ \A y \in Callouts :
            y # c /\ NotAfter(cc_callwheel[cc_bucket], cc_next, y) => NotAfter(W[cc_bucket], N, y)
  BY TakenOff
<1> HIDE DEF d, W, N
<1>4. due \in Tick /\ TickAdd(due, 1) # ticks
  BY <1>1, TickArithmetic DEF TypeOK
<1>5. b \in Buckets
  BY <1>4, BucketOfTick
<1> HIDE DEF due, b
<1>6. /\ r \in Seq(Callouts)
      /\ NoDuplicates(r)
      /\ \A x \in Callouts : On(r, x) <=> On(W[b], x) \/ x = c
      /\ \A x \in Callouts : On(r, x) => NotAfter(r, c, x)
      /\ \A x, y \in Callouts : NotAfter(W[b], x, y) => NotAfter(r, x, y)
  <2>1. W[b] \in Seq(Callouts) /\ ~On(W[b], c) /\ NoDuplicates(W[b])
    BY <1>3, <1>5
  <2>2. QED
    BY <2>1, InsertInserts
<1> HIDE DEF r
<1>7. /\ cc_callwheel' \in [Buckets -> Seq(Callouts)]
      /\ cc_callwheel'[b] = r
      /\ \A q \in Buckets : q # b => cc_callwheel'[q] = W[q]
  BY <1>2, <1>3, <1>5, <1>6
<1>8. c_time'[c] = due /\ \A x \in Callouts : x # c => c_time'[x] = c_time[x]
  BY <1>2 DEF TypeOK
<1>9. pending'[c] /\ \A x \in Callouts : x # c => pending'[x] = pending[x]
  BY <1>2 DEF TypeOK
<1>10. TypeOK'
  <2>1. pending' \in [Callouts -> BOOLEAN] /\ active' \in [Callouts -> BOOLEAN]
    BY <1>2 DEF TypeOK
  <2>2. direct' \in [Callouts -> BOOLEAN]
    BY <1>2, FlagAssumption DEF TypeOK
  <2>3. c_time' \in [Callouts -> Tick] /\ cc_next' \in Callouts \cup {NULL}
    BY <1>2, <1>3, <1>4 DEF TypeOK
  <2>4. QED
    BY <1>2, <1>7, <2>1, <2>2, <2>3 DEF TypeOK
<1>11. WheelConsistent'
  <2>1. ASSUME NEW q \in Buckets
        PROVE  /\ NoDuplicates(cc_callwheel'[q])
               /\ \A x \in Callouts :
                     On(cc_callwheel'[q], x) <=> pending'[x] /\ q = callout_get_bucket(c_time'[x])
    <3>1. NoDuplicates(cc_callwheel'[q])
      BY <1>3, <1>6, <1>7
    <3>2. ASSUME NEW x \in Callouts
          PROVE  On(cc_callwheel'[q], x) <=> pending'[x] /\ q = callout_get_bucket(c_time'[x])
      <4>1. CASE x = c
        <5>1. On(cc_callwheel'[q], x) <=> q = b
          BY <1>3, <1>6, <1>7, <4>1
        <5>2. QED
          BY <1>8, <1>9, <4>1, <5>1 DEF b
      <4>2. CASE x # c
        <5>1. On(cc_callwheel'[q], x) <=> On(cc_callwheel[q], x)
          BY <1>3, <1>6, <1>7, <4>2
        <5>2. QED
          BY <1>8, <1>9, <4>2, <5>1 DEF WheelConsistent, Bucket
      <4>3. QED
        BY <4>1, <4>2
    <3>3. QED
      BY <3>1, <3>2
  <2>2. QED
    BY <2>1 DEF WheelConsistent, Bucket
<1>12. NextOnList'
  <2>1. CASE cc_bucket = b
    BY <1>2, <1>6, <1>7, <2>1 DEF NextOnList
  <2>2. CASE cc_bucket # b
    BY <1>2, <1>3, <1>7, <2>2 DEF NextOnList, TypeOK
  <2>3. QED
    BY <2>1, <2>2
<1>13. ScanAhead'
  <2> DEFINE q == callout_get_bucket(curticks)
  <2>1. SUFFICES ASSUME pc \in {"handler", "drain"}, NEW x \in Callouts,
                        On(cc_callwheel'[q], x), c_time'[x] = curticks
                 PROVE  NotAfter(cc_callwheel'[q], cc_next', x)
    BY <1>2 DEF ScanAhead, Serving, Scanned, Cursor
  <2>2. q = cc_bucket /\ q \in Buckets /\ TickAdd(curticks, 1) = ticks
    BY <2>1 DEF CursorOnList, SoftticksInStep, Serving, TypeOK
  <2>3. x # c
    BY <1>4, <1>8, <2>1, <2>2
  <2>4. On(cc_callwheel[q], x) /\ c_time[x] = curticks
    BY <1>3, <1>6, <1>7, <1>8, <2>1, <2>2, <2>3
  <2>5. NotAfter(cc_callwheel[cc_bucket], cc_next, x)
    BY <2>1, <2>2, <2>4 DEF ScanAhead, Serving, Scanned, Cursor
  <2>6. NotAfter(W[cc_bucket], N, x)
    BY <1>3, <2>3, <2>5
  <2>7. CASE q = b
    BY <1>2, <1>6, <1>7, <2>1, <2>2, <2>7
  <2>8. CASE q # b
    BY <1>2, <1>7, <2>2, <2>6, <2>8
  <2>9. QED
    BY <2>7, <2>8
<1>14. NoneMissed'
  BY <1>2, <1>4, <1>8, <1>9 DEF NoneMissed, Serving, TypeOK
<1>15. SoftticksInStep' /\ CursorOnList' /\ CurrWhileRunning'
  BY <1>2 DEF SoftticksInStep, CursorOnList, CurrWhileRunning, Serving
<1>16. PendingActive'
  BY <1>2, <1>9 DEF PendingActive, TypeOK
<1>17. QED
  BY <1>10, <1>11, <1>12, <1>13, <1>14, <1>15, <1>16

(* _callout_stop_safe, from wherever it is called. *)
LEMMA StopPreserves ==
    ASSUME TimelyWheel, NEW c \in Callouts, NEW drain \in BOOLEAN,
           _callout_stop_safe(c, drain)
    PROVE  TimelyWheel'
<1> USE DEF TimelyWheel, WheelInvariant
<1>1. /\ pc \in {"idle", "handler", "drain"}
      /\ pending' = [pending EXCEPT ![c] = FALSE]
      /\ active' = [active EXCEPT ![c] = @ /\ ~SeenRunning(c) /\ ~pending[c]]
      /\ cc_drain' = (cc_drain \/ (SeenRunning(c) /\ drain))
      /\ cc_callwheel' = WheelOff(c)
      /\ cc_next' = NextOff(c)
      /\ UNCHANGED <<ticks, cc_softticks, cc_bucket, cc_curr, direct, c_time, curticks, scan, pc>>
  BY DEF _callout_stop_safe, Callable, WheelOff, NextOff
<1>2. /\ cc_callwheel' \in [Buckets -> Seq(Callouts)]
      /\ \A q \in Buckets :
            /\ NoDuplicates(cc_callwheel'[q])
            /\ \A x \in Callouts : On(cc_callwheel'[q], x) <=> On(cc_callwheel[q], x) /\ x # c
      /\ cc_next' \in Callouts \cup {NULL}
      /\ cc_next' # NULL => On(cc_callwheel'[cc_bucket], cc_next')
      /\ \A y \in Callouts :
            y # c /\ NotAfter(cc_callwheel[cc_bucket], cc_next, y) =>
                NotAfter(cc_callwheel'[cc_bucket], cc_next', y)
  BY <1>1, TakenOff
<1>3. ~pending'[c] /\ \A x \in Callouts : x # c => pending'[x] = pending[x] /\ active'[x] = active[x]
  BY <1>1 DEF TypeOK
<1>4. TypeOK'
  <2>1. cc_drain' \in BOOLEAN /\ active' \in [Callouts -> BOOLEAN] /\ pending' \in [Callouts -> BOOLEAN]
    BY <1>1 DEF TypeOK, SeenRunning
  <2>2. QED
    BY <1>1, <1>2, <2>1 DEF TypeOK
<1>5. WheelConsistent'
  BY <1>1, <1>2, <1>3 DEF WheelConsistent, Bucket
<1>6. NextOnList'
  BY <1>1, <1>2 DEF NextOnList
<1>7. ScanAhead'
  <2> DEFINE q == callout_get_bucket(curticks)
  <2>1. SUFFICES ASSUME pc \in {"handler", "drain"}, NEW x \in Callouts,
                        On(cc_callwheel'[q], x), c_time[x] = curticks
                 PROVE  NotAfter(cc_callwheel'[q], cc_next', x)
    BY <1>1 DEF ScanAhead, Serving, Scanned, Cursor
  <2>2. q = cc_bucket /\ q \in Buckets
    BY <2>1 DEF CursorOnList, Serving, TypeOK
  <2>3. x # c /\ On(cc_callwheel[q], x)
    BY <1>2, <2>1, <2>2
  <2>4. NotAfter(cc_callwheel[cc_bucket], cc_next, x)
    BY <2>1, <2>2, <2>3 DEF ScanAhead, Serving, Scanned, Cursor
  <2>5. QED
    BY <1>2, <2>2, <2>3, <2>4
<1>8. NoneMissed' /\ PendingActive'
  BY <1>1, <1>3 DEF NoneMissed, PendingActive, Serving, TypeOK
<1>9. SoftticksInStep' /\ CursorOnList' /\ CurrWhileRunning'
  BY <1>1 DEF SoftticksInStep, CursorOnList, CurrWhileRunning, Serving
<1>10. QED
  BY <1>4, <1>5, <1>6, <1>7, <1>8, <1>9

(* The operations that move no callout: callout_deactivate, callout_init   *)
(* and a callout_drain that spins.                                         *)
LEMMA QuietClientPreserves ==
    ASSUME TimelyWheel, NEW c \in Callouts,
           callout_deactivate(c) \/ callout_init(c) \/ DrainSpin(c)
    PROVE  TimelyWheel'
<1> USE DEF TimelyWheel, WheelInvariant
<1>1. /\ pc \in {"idle", "handler", "drain"}
      /\ pc' = pc \/ (pc' = "spin" /\ pc = "handler")
      /\ UNCHANGED <<ticks, cc_softticks, cc_callwheel, cc_next, cc_bucket, cc_curr, cc_drain,
                     pending, curticks, scan>>
      /\ active' \in [Callouts -> BOOLEAN] /\ direct' \in [Callouts -> BOOLEAN]
      /\ c_time' \in [Callouts -> Tick]
      /\ \A x \in Callouts : pending[x] => c_time'[x] = c_time[x]
      /\ PendingActive'
  <2>1. CASE callout_deactivate(c)
    BY <2>1 DEF callout_deactivate, Callable, TypeOK, PendingActive
  <2>2. CASE callout_init(c)
    <3>1. 0 \in Tick
      BY TickAssumption DEF Tick
    <3>2. QED
      BY <2>2, <3>1 DEF callout_init, Callable, TypeOK, PendingActive
  <2>3. CASE DrainSpin(c)
    <3>1. pc = "handler"
      BY <2>3, NullAssumption DEF DrainSpin, SeenRunning, cc_exec_curr, CurrWhileRunning, Callable
    <3>2. QED
      BY <2>3, <3>1 DEF DrainSpin, TypeOK, PendingActive
  <2>4. QED
    BY <2>1, <2>2, <2>3
<1>2. TypeOK'
  BY <1>1 DEF TypeOK, PcValues
<1>3. WheelConsistent'
  BY <1>1 DEF WheelConsistent, Bucket
<1>4. NextOnList'
  BY <1>1 DEF NextOnList
<1>5. ScanAhead'
  <2>1. SUFFICES ASSUME Serving', NEW x \in Callouts, On(Scanned, x), c_time'[x] = curticks
                 PROVE  NotAfter(Scanned, cc_next, x)
    BY <1>1 DEF ScanAhead, Serving, Scanned, Cursor
  <2>2. Serving /\ pc # "scan"
    BY <1>1, <2>1 DEF Serving
  <2>3. callout_get_bucket(curticks) \in Buckets
    BY BucketOfTick DEF TypeOK
  <2>4. pending[x]
    BY <2>1, <2>3 DEF WheelConsistent, Scanned
  <2>5. QED
    BY <1>1, <2>1, <2>2, <2>4 DEF ScanAhead, Cursor
<1>6. NoneMissed'
  BY <1>1 DEF NoneMissed, Serving
<1>7. SoftticksInStep' /\ CursorOnList' /\ CurrWhileRunning'
  BY <1>1 DEF SoftticksInStep, CursorOnList, CurrWhileRunning, Serving
<1>8. QED
  BY <1>1, <1>2, <1>3, <1>4, <1>5, <1>6, <1>7

(* lazybsd_hardclock and callout_tick: a tick is skipped only when its     *)
(* bucket is empty.                                                        *)
LEMMA TickPreserves ==
    ASSUME TimelyWheel, lazybsd_hardclock \/ callout_tick
    PROVE  TimelyWheel'
<1> USE DEF TimelyWheel, WheelInvariant
<1>1. CASE lazybsd_hardclock
  <2>1. TypeOK' /\ WheelConsistent' /\ NextOnList' /\ ScanAhead' /\ CursorOnList'
    BY <1>1, TickArithmetic
    DEF lazybsd_hardclock, TypeOK, PcValues, WheelConsistent, Bucket, NextOnList, ScanAhead,
        CursorOnList, Serving
  <2>2. NoneMissed'
    BY <1>1, TickArithmetic DEF lazybsd_hardclock, NoneMissed, SoftticksInStep, TypeOK
  <2>3. SoftticksInStep' /\ CurrWhileRunning' /\ PendingActive'
    BY <1>1 DEF lazybsd_hardclock, SoftticksInStep, CurrWhileRunning, PendingActive, Serving
  <2>4. QED
    BY <2>1, <2>2, <2>3
<1>2. CASE callout_tick
  <2> DEFINE s == cc_callwheel[callout_get_bucket(cc_softticks)]
  <2>1. /\ pc = "tick"
        /\ UNCHANGED <<ticks, cc_callwheel, cc_next, cc_bucket, cc_curr, cc_drain,
                       pending, active, direct, c_time, curticks, scan>>
        /\ cc_softticks' = IF TickBefore(cc_softticks, ticks) /\ s = << >>
                           THEN TickAdd(cc_softticks, 1) ELSE cc_softticks
        /\ pc' = IF ~TickBefore(cc_softticks, ticks) THEN "idle"
                 ELSE IF s = << >> THEN "tick" ELSE "softclock"
    BY <1>2 DEF callout_tick
  <2>2. \/ cc_softticks = ticks /\ ~TickBefore(cc_softticks, ticks)
        \/ TickAdd(cc_softticks, 1) = ticks /\ TickBefore(cc_softticks, ticks)
    BY <2>1, TickArithmetic DEF SoftticksInStep, TypeOK
  <2>3. TypeOK' /\ WheelConsistent' /\ NextOnList' /\ ScanAhead' /\ CursorOnList'
    BY <2>1, <2>2, TickArithmetic
    DEF TypeOK, PcValues, WheelConsistent, Bucket, NextOnList, ScanAhead, CursorOnList, Serving
  <2>4. SoftticksInStep' /\ CurrWhileRunning' /\ PendingActive'
    BY <2>1, <2>2 DEF SoftticksInStep, CurrWhileRunning, PendingActive, Serving
  <2>5. ASSUME NEW x \in Callouts, pending[x], TickAdd(c_time[x], 1) = ticks
        PROVE  cc_softticks' = c_time[x] /\ pc' \in {"tick", "softclock"}
    <3>1. cc_softticks = c_time[x]
      BY <2>1, <2>5 DEF NoneMissed, Serving
    <3>2. cc_softticks # ticks
      BY <2>5, <3>1, TickArithmetic DEF TypeOK
    <3>3. On(s, x)
      BY <2>5, <3>1, BucketOfTick DEF WheelConsistent, Bucket, TypeOK
    <3>4. s # << >>
      BY <3>3 DEF On
    <3>5. QED
      BY <2>1, <2>2, <3>1, <3>2, <3>4
  <2>6. NoneMissed'
    BY <2>1, <2>5 DEF NoneMissed
  <2>7. QED
    BY <2>3, <2>4, <2>6
<1>3. QED
  BY <1>1, <1>2

(* softclock's outer loop and its walk past callouts of other turns: the   *)
(* scan leaves no due callout behind.                                      *)
LEMMA ScanPreserves ==
    ASSUME TimelyWheel, softclock \/ ScanPast
    PROVE  TimelyWheel'
<1> USE DEF TimelyWheel, WheelInvariant
<1>1. CASE softclock /\ cc_softticks = ticks
  <2>1. /\ pc = "softclock" /\ pc' = "idle"
        /\ UNCHANGED <<ticks, cc_softticks, cc_callwheel, cc_next, cc_bucket, cc_curr, cc_drain,
                       pending, active, direct, c_time, curticks, scan>>
    BY <1>1 DEF softclock
  <2>2. NoneMissed'
    BY <1>1, <2>1, TickArithmetic DEF NoneMissed, Serving, TypeOK
  <2>3. QED
    BY <1>1, <2>1, <2>2
    DEF TypeOK, PcValues, WheelConsistent, Bucket, NextOnList, ScanAhead, SoftticksInStep,
        CursorOnList, CurrWhileRunning, PendingActive, Serving
<1>2. CASE softclock /\ cc_softticks # ticks
  <2> DEFINE s == cc_callwheel[callout_get_bucket(cc_softticks)]
  <2>1. /\ pc = "softclock" /\ pc' = "scan"
        /\ curticks' = cc_softticks
        /\ cc_softticks' = TickAdd(cc_softticks, 1)
        /\ scan' = LIST_FIRST(s)
        /\ UNCHANGED <<ticks, cc_callwheel, cc_next, cc_bucket, cc_curr, cc_drain,
                       pending, active, direct, c_time>>
    BY <1>2 DEF softclock
  <2>2. TickAdd(cc_softticks, 1) = ticks
    BY <1>2, <2>1 DEF SoftticksInStep
  <2>3. s \in Seq(Callouts)
    BY BucketOfTick DEF TypeOK
  <2>4. /\ scan' \in Callouts \cup {NULL}
        /\ scan' # NULL => On(s, scan')
        /\ \A y \in Callouts : On(s, y) => NotAfter(s, scan', y)
    BY <2>1, <2>3, FirstIsFirst
  <2>5. Scanned' = s /\ Cursor' = scan'
    BY <2>1 DEF Scanned, Cursor
  <2> HIDE DEF s
  <2>6. TypeOK' /\ WheelConsistent' /\ NextOnList'
    BY <2>1, <2>2, <2>4 DEF TypeOK, PcValues, WheelConsistent, Bucket, NextOnList
  <2>7. ScanAhead' /\ CursorOnList'
    BY <2>1, <2>4, <2>5 DEF ScanAhead, CursorOnList
  <2>8. NoneMissed'
    BY <2>1 DEF NoneMissed, Serving
  <2>9. SoftticksInStep' /\ CurrWhileRunning' /\ PendingActive'
    BY <2>1, <2>2 DEF SoftticksInStep, CurrWhileRunning, PendingActive, Serving
  <2>10. QED
    BY <2>6, <2>7, <2>8, <2>9
<1>3. CASE ScanPast /\ scan = NULL
  <2>1. /\ pc = "scan" /\ pc' = "softclock"
        /\ UNCHANGED <<ticks, cc_softticks, cc_callwheel, cc_next, cc_bucket, cc_curr, cc_drain,
                       pending, active, direct, c_time, curticks, scan>>
    BY <1>3 DEF ScanPast
  <2>2. callout_get_bucket(curticks) \in Buckets /\ Scanned \in Seq(Callouts)
    BY BucketOfTick DEF TypeOK, Scanned
  <2>3. ASSUME NEW x \in Callouts, pending[x], TickAdd(c_time[x], 1) = ticks
        PROVE  FALSE
    <3>1. c_time[x] = curticks
      BY <2>1, <2>3, TickArithmetic DEF SoftticksInStep, Serving, TypeOK
    <3>2. On(Scanned, x)
      BY <2>2, <2>3, <3>1 DEF WheelConsistent, Bucket, Scanned
    <3>3. NotAfter(Scanned, NULL, x)
      BY <1>3, <2>1, <3>1, <3>2 DEF ScanAhead, Serving, Cursor
    <3>4. QED
      BY <2>2, <3>3, NullAssumption DEF NotAfter
  <2>4. NoneMissed'
    BY <2>1, <2>3 DEF NoneMissed
  <2>5. QED
    BY <1>3, <2>1, <2>4
    DEF TypeOK, PcValues, WheelConsistent, Bucket, NextOnList, ScanAhead, SoftticksInStep,
        CursorOnList, CurrWhileRunning, PendingActive, Serving
<1>4. CASE ScanPast /\ scan # NULL
  <2>1. /\ pc = "scan" /\ c_time[scan] # curticks
        /\ scan' = LIST_NEXT(Scanned, scan)
        /\ UNCHANGED <<ticks, cc_softticks, cc_callwheel, cc_next, cc_bucket, cc_curr, cc_drain,
                       pending, active, direct, c_time, curticks, pc>>
    BY <1>4 DEF ScanPast, Scanned
  <2>2. /\ Scanned \in Seq(Callouts) /\ NoDuplicates(Scanned)
        /\ scan \in Callouts /\ On(Scanned, scan)
    BY <1>4, <2>1, BucketOfTick DEF TypeOK, WheelConsistent, CursorOnList, Scanned
  <2>3. /\ scan' \in Callouts \cup {NULL}
        /\ scan' # NULL => On(Scanned, scan')
        /\ \A y \in Callouts : NotAfter(Scanned, scan, y) /\ y # scan => NotAfter(Scanned, scan', y)
    BY <2>1, <2>2, NextIsNext
  <2>4. Scanned' = Scanned /\ Cursor' = scan' /\ Cursor = scan /\ Serving /\ Serving'
    BY <2>1 DEF Scanned, Cursor, Serving
  <2>5. ScanAhead'
    BY <2>1, <2>3, <2>4 DEF ScanAhead
  <2>6. CursorOnList'
    BY <2>1, <2>3, <2>4 DEF CursorOnList
  <2>7. QED
    BY <2>1, <2>3, <2>4, <2>5, <2>6
    DEF TypeOK, WheelConsistent, Bucket, NextOnList, NoneMissed, SoftticksInStep,
        CurrWhileRunning, PendingActive
<1>5. QED
  BY <1>1, <1>2, <1>3, <1>4

(* softclock takes a due callout off and calls its handler. *)
LEMMA DuePreserves ==
    ASSUME TimelyWheel, ScanDue
    PROVE  TimelyWheel'
<1> USE DEF TimelyWheel, WheelInvariant
<1> DEFINE b == callout_get_bucket(curticks)
           s == cc_callwheel[b]
           r == LIST_REMOVE(s, scan)
<1>1. /\ pc = "scan" /\ scan # NULL /\ c_time[scan] = curticks
      /\ cc_next' = LIST_NEXT(s, scan)
      /\ cc_bucket' = b
      /\ cc_callwheel' = [cc_callwheel EXCEPT ![b] = r]
      /\ pending' = [pending EXCEPT ![scan] = FALSE]
      /\ cc_curr' = scan
      /\ cc_drain' = FALSE
      /\ pc' = "handler"
      /\ UNCHANGED <<ticks, cc_softticks, active, direct, c_time, curticks, scan>>
  BY DEF ScanDue
<1>2. /\ b \in Buckets /\ s \in Seq(Callouts) /\ NoDuplicates(s)
      /\ scan \in Callouts /\ On(s, scan)
  BY <1>1, BucketOfTick DEF TypeOK, WheelConsistent, CursorOnList, Scanned
<1>3. /\ cc_next' \in Callouts \cup {NULL}
      /\ cc_next' # NULL => On(s, cc_next')
      /\ cc_next' # scan
      /\ \A y \in Callouts : NotAfter(s, scan, y) /\ y # scan => NotAfter(s, cc_next', y)
  BY <1>1, <1>2, NextIsNext
<1>4. /\ r \in Seq(Callouts)
      /\ NoDuplicates(r)
      /\ \A x \in Callouts : On(r, x) <=> On(s, x) /\ x # scan
      /\ \A x, y \in Callouts : x # scan /\ y # scan /\ NotAfter(s, x, y) => NotAfter(r, x, y)
  BY <1>2, RemoveRemoves
<1>5. \A q \in Buckets : q # b => ~On(cc_callwheel[q], scan)
  BY <1>1, <1>2 DEF WheelConsistent, Bucket
<1>6. Scanned' = cc_callwheel'[b] /\ Scanned = s
  BY <1>1 DEF Scanned
<1> HIDE DEF b, s, r
<1>7. /\ cc_callwheel' \in [Buckets -> Seq(Callouts)]
      /\ cc_callwheel'[b] = r
      /\ \A q \in Buckets : q # b => cc_callwheel'[q] = cc_callwheel[q]
  BY <1>1, <1>2, <1>4 DEF TypeOK
<1>8. ~pending'[scan] /\ \A x \in Callouts : x # scan => pending'[x] = pending[x]
  BY <1>1, <1>2 DEF TypeOK
<1>9. TypeOK'
  BY <1>1, <1>2, <1>3, <1>7 DEF TypeOK, PcValues
<1>10. WheelConsistent'
  <2>1. ASSUME NEW q \in Buckets
        PROVE  /\ NoDuplicates(cc_callwheel'[q])
               /\ \A x \in Callouts : On(cc_callwheel'[q], x) <=> On(cc_callwheel[q], x) /\ x # scan
    <3>1. CASE q = b
      BY <1>4, <1>7, <3>1 DEF s
    <3>2. CASE q # b
      BY <1>5, <1>7, <3>2 DEF WheelConsistent
    <3>3. QED
      BY <3>1, <3>2
  <2>2. QED
    BY <1>1, <1>2, <1>8, <2>1 DEF WheelConsistent, Bucket
<1>11. NextOnList'
  BY <1>1, <1>3, <1>4, <1>7 DEF NextOnList
<1>12. ScanAhead'
  <2>1. SUFFICES ASSUME NEW x \in Callouts, On(r, x), c_time[x] = curticks
                 PROVE  NotAfter(r, cc_next', x)
    BY <1>1, <1>6, <1>7 DEF ScanAhead, Cursor
  <2>2. On(s, x) /\ x # scan
    BY <1>4, <2>1
  <2>3. NotAfter(s, scan, x)
    BY <1>1, <1>6, <2>1, <2>2 DEF ScanAhead, Cursor, Serving
  <2>4. NotAfter(s, cc_next', x)
    BY <1>3, <2>2, <2>3
  <2>5. cc_next' \in Callouts
    BY <1>2, <2>4 DEF NotAfter
  <2>6. QED
    BY <1>3, <1>4, <2>2, <2>4, <2>5
<1>13. NoneMissed' /\ SoftticksInStep'
  BY <1>1, <1>8 DEF NoneMissed, SoftticksInStep, Serving, TypeOK
<1>14. CursorOnList' /\ CurrWhileRunning' /\ PendingActive'
  BY <1>1, <1>2, <1>8 DEF CursorOnList, CurrWhileRunning, PendingActive, b
<1>15. QED
  BY <1>9, <1>10, <1>11, <1>12, <1>13, <1>14

(* A handler or a drain function returns, and the scan goes on at cc_next; *)
(* a spinning callout_drain stays where it is.                             *)
LEMMA ReturnPreserves ==
    ASSUME TimelyWheel, HandlerReturn \/ DrainReturn \/ Spin
    PROVE  TimelyWheel'
<1> USE DEF TimelyWheel, WheelInvariant
<1>1. CASE pc' = "scan" /\ pc # "spin"
  <2>1. /\ pc \in {"handler", "drain"} /\ pc' = "scan"
        /\ scan' = cc_next /\ cc_next' = NULL /\ cc_curr' = NULL
        /\ cc_drain' \in BOOLEAN
        /\ UNCHANGED <<ticks, cc_softticks, cc_callwheel, cc_bucket, pending, active, direct,
                       c_time, curticks>>
    BY <1>1 DEF HandlerReturn, DrainReturn, Spin, TypeOK, CurrWhileRunning
  <2>2. Scanned' = Scanned /\ Cursor' = Cursor /\ Serving /\ Serving'
    BY <2>1 DEF Scanned, Cursor, Serving
  <2>3. CursorOnList'
    BY <2>1, <2>2 DEF CursorOnList, NextOnList, Scanned
  <2>4. QED
    BY <2>1, <2>2, <2>3
    DEF TypeOK, PcValues, WheelConsistent, Bucket, NextOnList, ScanAhead, NoneMissed,
        SoftticksInStep, CurrWhileRunning, PendingActive
<1>2. CASE pc' # "scan" \/ pc = "spin"
  <2>1. /\ \/ pc = "handler" /\ pc' = "drain" /\ cc_curr' = NULL
           \/ pc = "spin" /\ pc' = "spin" /\ cc_curr' = cc_curr
        /\ cc_drain' \in BOOLEAN
        /\ UNCHANGED <<ticks, cc_softticks, cc_callwheel, cc_next, cc_bucket, pending, active,
                       direct, c_time, curticks, scan>>
    BY <1>2 DEF HandlerReturn, DrainReturn, Spin, TypeOK, CurrWhileRunning
  <2>2. Scanned' = Scanned /\ Cursor' = Cursor /\ Serving /\ Serving'
    BY <2>1 DEF Scanned, Cursor, Serving
  <2>3. QED
    BY <2>1, <2>2
    DEF TypeOK, PcValues, WheelConsistent, Bucket, NextOnList, ScanAhead, NoneMissed,
        SoftticksInStep, CursorOnList, CurrWhileRunning, PendingActive
<1>3. QED
  BY <1>1, <1>2

-----------------------------------------------------------------------------
(* The theorems.                                                           *)

(* The wheel starts in its invariant. *)
LEMMA InitEstablishes == Init => TimelyWheel
<1> SUFFICES ASSUME Init PROVE TimelyWheel
  OBVIOUS
<1> USE DEF Init
<1>1. 0 \in Tick /\ 0 \in Buckets
  BY TickAssumption, WheelAssumption DEF Tick, Buckets
<1>2. TypeOK
  BY <1>1 DEF TypeOK, PcValues
<1>3. WheelConsistent
  BY DEF WheelConsistent, NoDuplicates, On
<1>4. NextOnList /\ ScanAhead /\ SoftticksInStep /\ CursorOnList /\ CurrWhileRunning /\ PendingActive
  BY DEF NextOnList, ScanAhead, SoftticksInStep, CursorOnList, CurrWhileRunning, PendingActive,
         Serving
<1>5. NoneMissed
  BY DEF NoneMissed
<1>6. QED
  BY <1>2, <1>3, <1>4, <1>5 DEF TimelyWheel, WheelInvariant

(* Every step of the wheel preserves the invariant. *)
LEMMA StepPreserves == TimelyWheel /\ [Next]_vars => TimelyWheel'
<1> SUFFICES ASSUME TimelyWheel, [Next]_vars PROVE TimelyWheel'
  OBVIOUS
<1>1. CASE lazybsd_hardclock \/ callout_tick
  BY <1>1, TickPreserves
<1>2. CASE softclock \/ ScanPast
  BY <1>2, ScanPreserves
<1>3. CASE ScanDue
  BY <1>3, DuePreserves
<1>4. CASE HandlerReturn \/ DrainReturn \/ Spin
  BY <1>4, ReturnPreserves
<1>5. ASSUME NEW c \in Callouts, Client(c) PROVE TimelyWheel'
  <2>1. CASE \E to \in ToTicks, dir \in DirectFlags : callout_reset_tick_on(c, to, dir)
    BY <2>1, ResetPreserves
  <2>2. CASE \E drain \in BOOLEAN : _callout_stop_safe(c, drain)
    BY <2>2, StopPreserves
  <2>3. CASE callout_deactivate(c) \/ callout_init(c) \/ DrainSpin(c)
    BY <2>3, QuietClientPreserves
  <2>4. QED
    BY <1>5, <2>1, <2>2, <2>3 DEF Client
<1>6. CASE UNCHANGED vars
  BY <1>6
  DEF vars, TimelyWheel, WheelInvariant, TypeOK, WheelConsistent, Bucket, NextOnList, ScanAhead, NoneMissed,
      SoftticksInStep, CursorOnList, CurrWhileRunning, PendingActive, Serving, Scanned, Cursor
<1>7. QED
  BY <1>1, <1>2, <1>3, <1>4, <1>5, <1>6 DEF Next, Clock

LEMMA WheelIsTimely == SafeSpec => []TimelyWheel
BY InitEstablishes, StepPreserves, PTL DEF SafeSpec

(* The wheel's invariant holds in every state it can reach: lists, flags,  *)
(* cc_next and the scan stay consistent whatever handlers do.              *)
THEOREM WheelIsInvariant == SafeSpec => []WheelInvariant
<1>1. TimelyWheel => WheelInvariant
  BY DEF TimelyWheel
<1>2. QED
  BY <1>1, WheelIsTimely, PTL

(* Between two ticks no pending callout is overdue: softclock passes none  *)
(* over, for every wheel size and width of ticks, also after a wrap.       *)
THEOREM NoCalloutMissed == SafeSpec => []NoneMissed
<1>1. TimelyWheel => NoneMissed
  BY DEF TimelyWheel
<1>2. QED
  BY <1>1, WheelIsTimely, PTL

(* The KASSERTs at the head of softclock_call_cc hold. *)
THEOREM OnlyArmedRun == SafeSpec => []RunsArmed
<1>1. WheelInvariant => RunsArmed
  <2>1. SUFFICES ASSUME WheelInvariant, pc = "scan", scan # NULL
                 PROVE  pending[scan] /\ active[scan]
    BY DEF RunsArmed
  <2>2. callout_get_bucket(curticks) \in Buckets /\ scan \in Callouts /\ On(Scanned, scan)
    BY <2>1, BucketOfTick DEF WheelInvariant, TypeOK, CursorOnList
  <2>3. pending[scan]
    BY <2>1, <2>2 DEF WheelInvariant, WheelConsistent, Scanned
  <2>4. QED
    BY <2>1, <2>2, <2>3 DEF WheelInvariant, PendingActive
<1>2. QED
  BY <1>1, WheelIsInvariant, PTL

-----------------------------------------------------------------------------
(* Refinement of TimerService.                                             *)

(* What left reads off c_time: the delay when it is set, one less at every *)
(* tick, and -1 at the tick that serves the callout.                       *)
LEMMA LeftArithmetic ==
    /\ \A a \in Tick, n \in 1 .. TickMod - 2 : TickDiff(TickAdd(a, n), a) = n
    /\ \A a, t \in Tick : TickAdd(t, 1) # a =>
          /\ TickDiff(t, a) \in 0 .. TickMod - 2
          /\ TickAdd(t, 1) = TickAdd(a, 1) => TickDiff(t, a) = 0
          /\ TickAdd(t, 1) # TickAdd(a, 1) => TickDiff(t, TickAdd(a, 1)) = TickDiff(t, a) - 1
BY TickAssumption DEF Tick, TickAdd, TickDiff

(* left depends only on ticks and, for pending callouts, on c_time. *)
LEMMA LeftUnchanged ==
    ASSUME ticks' = ticks, pending' = pending,
           \A c \in Callouts : pending[c] => c_time'[c] = c_time[c]
    PROVE  left' = left
BY DEF left

(* Every step of the wheel is a step of the timer service or changes no    *)
(* timer.                                                                  *)
LEMMA StepRefines ==
    ASSUME TimelyWheel, [Next]_vars
    PROVE  [Timers!Next]_<<left, cc_curr>>
<1> USE DEF TimelyWheel, WheelInvariant
<1>1. ASSUME NEW c \in Callouts, NEW to \in ToTicks, NEW dir \in DirectFlags,
             callout_reset_tick_on(c, to, dir)
      PROVE  Timers!Next
  <2> DEFINE d == IF to <= 0 THEN 1 ELSE to
  <2>1. d \in 1 .. TickMod - 2
    BY DelayInRange
  <2>2. /\ ticks' = ticks
        /\ pending' = [pending EXCEPT ![c] = TRUE]
        /\ c_time' = [c_time EXCEPT ![c] = TickAdd(ticks, d)]
        /\ cc_curr' = cc_curr
    BY <1>1 DEF callout_reset_tick_on, callout_cc_add
  <2> HIDE DEF d
  <2>3. TickDiff(TickAdd(ticks, d), ticks) = d /\ TickAdd(TickAdd(ticks, d), 1) # ticks
    BY <2>1, LeftArithmetic, TickArithmetic DEF TypeOK
  <2>4. left' = [left EXCEPT ![c] = d]
    BY <2>2, <2>3 DEF left, TypeOK
  <2>5. QED
    BY <2>1, <2>2, <2>4 DEF Timers!Next, Timers!Arm
<1>2. ASSUME NEW c \in Callouts, NEW drain \in BOOLEAN, _callout_stop_safe(c, drain)
      PROVE  Timers!Next
  <2>1. /\ ticks' = ticks /\ pending' = [pending EXCEPT ![c] = FALSE] /\ c_time' = c_time
        /\ cc_curr' = cc_curr
    BY <1>2 DEF _callout_stop_safe
  <2>2. left' = [left EXCEPT ![c] = -2]
    BY <2>1 DEF left, TypeOK
  <2>3. QED
    BY <2>1, <2>2 DEF Timers!Next, Timers!Disarm, Timers!Off
<1>3. ASSUME NEW c \in Callouts, callout_deactivate(c) \/ callout_init(c) \/ DrainSpin(c)
      PROVE  left' = left /\ cc_curr' = cc_curr
  <2>1. /\ ticks' = ticks /\ pending' = pending /\ cc_curr' = cc_curr
        /\ \A x \in Callouts : pending[x] => c_time'[x] = c_time[x]
    BY <1>3 DEF callout_deactivate, callout_init, DrainSpin, TypeOK
  <2>2. QED
    BY <2>1, LeftUnchanged
<1>4. ASSUME lazybsd_hardclock PROVE Timers!Next
  <2>1. /\ pc = "idle" /\ ticks \in Tick /\ ticks' = TickAdd(ticks, 1)
        /\ pending' = pending /\ c_time' = c_time /\ cc_curr' = cc_curr
        /\ cc_curr = NULL
    BY <1>4 DEF lazybsd_hardclock, TypeOK, CurrWhileRunning
  <2>2. \A c \in Callouts : pending[c] => TickAdd(c_time[c], 1) # ticks
    BY <2>1 DEF NoneMissed, Serving
  <2>3. ASSUME NEW c \in Callouts
        PROVE  /\ left[c] # -1
               /\ left'[c] = IF left[c] = -2 THEN -2 ELSE left[c] - 1
    <3>1. c_time[c] \in Tick
      BY DEF TypeOK
    <3>2. CASE ~pending[c]
      BY <2>1, <3>2 DEF left
    <3>3. CASE pending[c]
      <4>1. left[c] = TickDiff(c_time[c], ticks) /\ TickDiff(c_time[c], ticks) \in 0 .. TickMod - 2
        BY <2>1, <2>2, <3>1, <3>3, LeftArithmetic DEF left
      <4>2. left'[c] = IF TickAdd(c_time[c], 1) = TickAdd(ticks, 1) THEN -1
                       ELSE TickDiff(c_time[c], TickAdd(ticks, 1))
        BY <2>1, <3>3 DEF left
      <4>3. left'[c] = left[c] - 1
        BY <2>1, <2>2, <3>1, <3>3, <4>1, <4>2, LeftArithmetic
      <4>4. QED
        BY <4>1, <4>3, TickAssumption
    <3>4. QED
      BY <3>2, <3>3
  <2>4. left' = [c \in Callouts |-> left'[c]]
    BY DEF left
  <2>5. QED
    BY <2>1, <2>3, <2>4 DEF Timers!Next, Timers!Tick, Timers!Off, Timers!Expired
<1>5. ASSUME ScanDue PROVE Timers!Next
  <2>1. /\ pc = "scan" /\ scan # NULL /\ c_time[scan] = curticks
        /\ ticks' = ticks /\ c_time' = c_time /\ pending' = [pending EXCEPT ![scan] = FALSE]
        /\ cc_curr = NULL /\ cc_curr' = scan
    BY <1>5 DEF ScanDue, CurrWhileRunning
  <2>2. callout_get_bucket(curticks) \in Buckets /\ scan \in Callouts /\ On(Scanned, scan)
    BY <2>1, BucketOfTick DEF TypeOK, CursorOnList
  <2>3. pending[scan] /\ TickAdd(c_time[scan], 1) = ticks
    BY <2>1, <2>2 DEF WheelConsistent, Scanned, SoftticksInStep, Serving
  <2>4. left[scan] = -1 /\ left' = [left EXCEPT ![scan] = -2]
    BY <2>1, <2>2, <2>3 DEF left, TypeOK
  <2>5. QED
    BY <2>1, <2>2, <2>4 DEF Timers!Next, Timers!Fire, Timers!Expired, Timers!Off
<1>6. ASSUME callout_tick \/ softclock \/ ScanPast \/ DrainReturn \/ Spin \/ UNCHANGED vars
      PROVE  left' = left /\ cc_curr' = cc_curr
  <2>1. ticks' = ticks /\ pending' = pending /\ c_time' = c_time /\ cc_curr' = cc_curr
    BY <1>6 DEF callout_tick, softclock, ScanPast, DrainReturn, Spin, vars
  <2>2. QED
    BY <2>1, LeftUnchanged
<1>7. ASSUME HandlerReturn PROVE Timers!Next
  <2>1. ticks' = ticks /\ pending' = pending /\ c_time' = c_time /\ cc_curr' = NULL
    BY <1>7 DEF HandlerReturn
  <2>2. left' = left
    BY <2>1, LeftUnchanged
  <2>3. QED
    BY <2>1, <2>2 DEF Timers!Next, Timers!Return
<1>8. QED
  BY <1>1, <1>2, <1>3, <1>4, <1>5, <1>6, <1>7 DEF Next, Clock, Client

(* The callout wheel implements the timer service: for every wheel size,   *)
(* tick width and delays, a callout runs exactly at the tick after it is   *)
(* due, once, and never after a stop that found it pending.                *)
THEOREM WheelImplementsTimers == SafeSpec => ImplementsTimers
<1>1. Init => Timers!Init
  BY DEF Init, Timers!Init, Timers!Off, left
<1>2. TimelyWheel /\ [Next]_vars => [Timers!Next]_<<left, cc_curr>>
  BY StepRefines
<1>3. QED
  BY <1>1, <1>2, WheelIsTimely, PTL DEF SafeSpec, ImplementsTimers, Timers!Spec

=============================================================================
