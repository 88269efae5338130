---------------------------- MODULE KernelProofs ----------------------------
(***************************************************************************)
(* The kernel library and the interface, for every value of the constants: *)
(* interval timers do not drift, the rate limiters let through what they   *)
(* should, memory is in use while something refers to it, socket buffers   *)
(* are charged, moved bytes arrive in order, a segment of a received       *)
(* packet is freed once, the addresses set are those configured, every     *)
(* routine of the start is run once and in order, and the pure functions   *)
(* compute what they are meant to.                                         *)
(***************************************************************************)
EXTENDS Kernel, DataLemmas, SequenceTheorems

-----------------------------------------------------------------------------
(* timevals.                                                               *)

(* A timeval whose microseconds are in range. *)
TimevalSet == [sec : Int, usec : 0 .. Usec - 1]

(* What the constants say, in the form the provers need. *)
LEMMA TimeConstants ==
    /\ Usec \in Nat /\ Hz \in Nat /\ Tick \in Nat /\ TickMod \in Nat /\ MaxAge \in Nat
    /\ Usec >= Tick /\ Tick > 1 /\ Usec > 1 /\ MaxAge < TickMod /\ Hz > 0 /\ Hz < TickMod
    /\ MaxTimer \in Nat /\ MaxElapsed \in Nat
<1>1. /\ Usec \in Nat /\ Hz \in Nat /\ Tick \in Nat /\ TickMod \in Nat /\ MaxAge \in Nat
      /\ Tick > 1 /\ MaxAge < TickMod /\ Hz > 0 /\ Hz < TickMod /\ Usec = Hz * Tick
      /\ MaxTimer \in Nat /\ MaxElapsed \in Nat
  BY TimeAssumption
<1>2. \A h, t \in Nat : h > 0 => h * t >= t
  OBVIOUS
<1>3. QED
  BY <1>1, <1>2

(* Seconds one up or down in microseconds. *)
LEMMA SecondUp ==
    ASSUME NEW s \in Int
    PROVE  /\ s * Usec \in Int
           /\ (s + 1) * Usec = s * Usec + Usec
           /\ (s - 1) * Usec = s * Usec - Usec
           /\ s >= 1 => s * Usec >= Usec
           /\ s <= -1 => s * Usec <= -Usec
<1>1. \A u \in Nat : /\ s * u \in Int /\ (s + 1) * u = s * u + u /\ (s - 1) * u = s * u - u
                     /\ s >= 1 => s * u >= u
                     /\ s <= -1 => s * u <= -u
  OBVIOUS
<1>2. QED
  BY <1>1, TimeConstants

(* A timeval is nothing exactly when it is no microseconds. *)
LEMMA SetIsPositive ==
    ASSUME NEW tv \in TimevalSet, tv.sec >= 0
    PROVE  Total(tv) \in Nat /\ (timevalisset(tv) <=> Total(tv) > 0)
<1>1. tv.sec \in Int /\ tv.usec \in Int /\ tv.usec >= 0 /\ tv.usec < Usec
  BY TimeConstants DEF TimevalSet
<1>2. PICK p \in Int : p = tv.sec * Usec
  BY <1>1, SecondUp
<1>3. (tv.sec = 0 => p = 0) /\ (tv.sec >= 1 => p >= Usec)
  BY <1>1, <1>2, SecondUp, TimeConstants
<1>4. Total(tv) = p + tv.usec
  BY <1>2 DEF Total
<1>5. QED
  BY <1>1, <1>3, <1>4, TimeConstants DEF timevalisset

(* The order of timevals is the order of the times they stand for. *)
LEMMA AtLeastIsOrder ==
    ASSUME NEW a \in TimevalSet, NEW b \in TimevalSet
    PROVE  AtLeast(a, b) <=> Total(a) >= Total(b)
<1>1. /\ a.sec \in Int /\ a.usec \in Int /\ a.usec >= 0 /\ a.usec < Usec
      /\ b.sec \in Int /\ b.usec \in Int /\ b.usec >= 0 /\ b.usec < Usec
  BY TimeConstants DEF TimevalSet
<1>2. a.sec > b.sec => a.sec * Usec >= b.sec * Usec + Usec
  <2>1. \A x, y, u \in Int : x >= 1 /\ u >= 0 => (y + x) * u >= y * u + u
    OBVIOUS
  <2>2. a.sec > b.sec => a.sec - b.sec >= 1 /\ b.sec + (a.sec - b.sec) = a.sec
    BY <1>1
  <2>3. QED
    BY <1>1, <2>1, <2>2, TimeConstants
<1>3. b.sec > a.sec => b.sec * Usec >= a.sec * Usec + Usec
  <2>1. \A x, y, u \in Int : x >= 1 /\ u >= 0 => (y + x) * u >= y * u + u
    OBVIOUS
  <2>2. b.sec > a.sec => b.sec - a.sec >= 1 /\ a.sec + (b.sec - a.sec) = b.sec
    BY <1>1
  <2>3. QED
    BY <1>1, <2>1, <2>2, TimeConstants
<1>4. PICK p \in Int, q \in Int : p = a.sec * Usec /\ q = b.sec * Usec
  BY <1>1, SecondUp
<1>5. /\ Total(a) = p + a.usec /\ Total(b) = q + b.usec
      /\ a.sec = b.sec => p = q
      /\ a.sec > b.sec => p >= q + Usec
      /\ b.sec > a.sec => q >= p + Usec
  BY <1>2, <1>3, <1>4 DEF Total
<1>6. QED
  BY <1>1, <1>5, TimeConstants DEF AtLeast

(* timevalfix carries or borrows one second and keeps the time. *)
LEMMA FixKeepsTime ==
    ASSUME NEW s \in Int, NEW u \in Int, - Usec < u, u < 2 * Usec
    PROVE  timevalfix(Tv(s, u)) \in TimevalSet /\ Total(timevalfix(Tv(s, u))) = s * Usec + u
<1>1. /\ Usec \in Nat /\ s * Usec \in Int
      /\ (s + 1) * Usec = s * Usec + Usec /\ (s - 1) * Usec = s * Usec - Usec
  BY SecondUp, TimeConstants
<1>2. CASE u < 0
  <2>1. timevalfix(Tv(s, u)) = Tv(s - 1, u + Usec)
    BY <1>1, <1>2 DEF timevalfix, Tv
  <2>2. QED
    BY <1>1, <1>2, <2>1 DEF Tv, Total, TimevalSet
<1>3. CASE u >= Usec
  <2>1. timevalfix(Tv(s, u)) = Tv(s + 1, u - Usec)
    BY <1>1, <1>3 DEF timevalfix, Tv
  <2>2. Tv(s + 1, u - Usec) \in TimevalSet
    BY <1>1, <1>3 DEF Tv, TimevalSet
  <2>3. Total(Tv(s + 1, u - Usec)) = (s + 1) * Usec + (u - Usec)
    BY DEF Tv, Total
  <2>4. QED
    BY <1>1, <2>1, <2>2, <2>3
<1>4. CASE u >= 0 /\ u < Usec
  <2>1. timevalfix(Tv(s, u)) = Tv(s, u)
    BY <1>1, <1>4 DEF timevalfix, Tv
  <2>2. QED
    BY <1>1, <1>4, <2>1 DEF Tv, Total, TimevalSet
<1>5. QED
  BY <1>1, <1>2, <1>3, <1>4

-----------------------------------------------------------------------------
(* Interval timers.                                                        *)

(* An interval is none or at least a tick, so that one tick never runs     *)
(* past a whole interval.                                                  *)
IntervalLasts == timevalisset(itimer.interval) => itimer.interval.sec > 0 \/ itimer.interval.usec >= Tick

(* What NoDrift needs to be inductive. *)
TimerInvariant ==
    /\ itimer \in [value : TimevalSet, interval : TimevalSet, first : Int, fired : Nat, elapsed : Int]
    /\ itimer.value.sec >= 0 /\ itimer.interval.sec >= 0
    /\ IntervalLasts
    /\ NoDrift

(* itimerfix gives a proper timeval of no time or of at least a tick, when *)
(* a tick is less than a second.                                           *)
LEMMA FixedLasts ==
    ASSUME Hz > 1, NEW tv \in Timevals
    PROVE  LET fixed == itimerfix(tv)
           IN  /\ fixed \in TimevalSet /\ fixed.sec >= 0
               /\ timevalisset(fixed) => fixed.sec > 0 \/ fixed.usec >= Tick
<1>1. Tick < Usec
  <2>1. \A h, k \in Nat : h > 1 /\ k > 1 => k < h * k
    OBVIOUS
  <2>2. Hz \in Nat /\ Tick \in Nat /\ Tick > 1 /\ Usec = Hz * Tick
    BY TimeAssumption
  <2>3. QED
    BY <2>1, <2>2
<1>2. tv.sec \in Int /\ tv.sec >= 0 /\ tv.usec \in 0 .. Usec - 1 /\ tv = [sec |-> tv.sec, usec |-> tv.usec]
  BY TimeConstants DEF Timevals
<1>3. QED
  BY <1>1, <1>2, TimeConstants DEF itimerfix, Tv, TimevalSet, timevalisset

(* The reload is the interval less what the tick ran past the expiry. *)
LEMMA ReloadCarries ==
    ASSUME NEW interval \in TimevalSet, interval.sec >= 0, timevalisset(interval),
           interval.sec > 0 \/ interval.usec >= Tick,
           NEW carry \in 0 .. Tick
    PROVE  LET new == Reload(interval, carry)
           IN  new \in TimevalSet /\ new.sec >= 0 /\ Total(new) = Total(interval) - carry
<1>1. /\ interval.sec \in Int /\ interval.usec \in Int /\ interval.usec >= 0 /\ interval.usec < Usec
      /\ carry \in Int /\ carry >= 0 /\ carry <= Tick /\ Tick <= Usec /\ Usec \in Nat /\ Tick \in Nat
  BY TimeConstants DEF TimevalSet
<1>2. PICK p \in Int : p = interval.sec * Usec /\ (interval.sec - 1) * Usec = p - Usec
  BY <1>1, SecondUp
<1>3. Total(interval) = p + interval.usec
  BY <1>2 DEF Total
<1>4. CASE interval.usec - carry < 0
  <2>1. Reload(interval, carry) = Tv(interval.sec - 1, interval.usec - carry + Usec)
    BY <1>4 DEF Reload
  <2>2. Total(Tv(interval.sec - 1, interval.usec - carry + Usec)) = p - Usec + (interval.usec - carry + Usec)
    BY <1>2 DEF Total, Tv
  <2>3. /\ Tv(interval.sec - 1, interval.usec - carry + Usec) \in TimevalSet
        /\ Tv(interval.sec - 1, interval.usec - carry + Usec).sec >= 0
    BY <1>1, <1>4 DEF Tv, TimevalSet
  <2>4. QED
    BY <1>1, <1>3, <2>1, <2>2, <2>3
<1>5. CASE ~(interval.usec - carry < 0)
  <2>1. Reload(interval, carry) = Tv(interval.sec, interval.usec - carry)
    BY <1>5 DEF Reload
  <2>2. Total(Tv(interval.sec, interval.usec - carry)) = p + (interval.usec - carry)
    BY <1>2 DEF Total, Tv
  <2>3. /\ Tv(interval.sec, interval.usec - carry) \in TimevalSet
        /\ Tv(interval.sec, interval.usec - carry).sec >= 0
    BY <1>1, <1>5 DEF Tv, TimevalSet
  <2>4. QED
    BY <1>1, <1>3, <2>1, <2>2, <2>3
<1>6. QED
  BY <1>4, <1>5

(* What is left of a timer after usec microseconds, with an interval added *)
(* when it expired.                                                        *)
LEMMA DecrementKeepsTime ==
    ASSUME NEW value \in TimevalSet, value.sec >= 0, timevalisset(value),
           NEW interval \in TimevalSet, interval.sec >= 0, timevalisset(interval),
           interval.sec > 0 \/ interval.usec >= Tick,
           NEW usec \in 1 .. Tick
    PROVE  LET d == Decremented(value, interval, usec)
           IN  /\ d.value \in TimevalSet /\ d.value.sec >= 0
               /\ d.expired \in BOOLEAN
               /\ Total(d.value) = Total(value) - usec + (IF d.expired THEN Total(interval) ELSE 0)
<1>1. /\ value.sec \in Int /\ value.usec \in Int /\ value.usec >= 0 /\ value.usec < Usec
      /\ usec \in Int /\ usec >= 1 /\ usec <= Tick /\ Tick <= Usec /\ Usec \in Nat /\ Tick \in Nat
  BY TimeConstants DEF TimevalSet
<1>2. PICK p \in Int : /\ p = value.sec * Usec /\ (value.sec - 1) * Usec = p - Usec
                       /\ (value.sec = 0 => p = 0)
  BY <1>1, SecondUp, TimeConstants
<1>3. Total(value) = p + value.usec /\ Total(interval) \in Int
  BY <1>2, SetIsPositive DEF Total
<1>4. CASE value.usec < usec /\ value.sec = 0
  <2>1. Decremented(value, interval, usec) = [value |-> Reload(interval, usec - value.usec), expired |-> TRUE]
    BY <1>4 DEF Decremented
  <2>2. usec - value.usec \in 0 .. Tick
    BY <1>1, <1>4
  <2>3. /\ Reload(interval, usec - value.usec) \in TimevalSet
        /\ Reload(interval, usec - value.usec).sec >= 0
        /\ Total(Reload(interval, usec - value.usec)) = Total(interval) - (usec - value.usec)
    BY <2>2, ReloadCarries
  <2>4. QED
    BY <1>1, <1>2, <1>3, <1>4, <2>1, <2>3
<1>5. CASE ~(value.usec < usec /\ value.sec = 0)
  <2> DEFINE left == IF value.usec < usec
                     THEN Tv(value.sec - 1, value.usec + Usec - usec)
                     ELSE Tv(value.sec, value.usec - usec)
  <2>1. left \in TimevalSet /\ left.sec >= 0
    BY <1>1, <1>5 DEF Tv, TimevalSet
  <2>2. Total(left) = Total(value) - usec
    <3>1. CASE value.usec < usec
      <4>1. Total(left) = p - Usec + (value.usec + Usec - usec)
        BY <1>2, <3>1 DEF Total, Tv
      <4>2. QED
        BY <1>1, <1>3, <4>1
    <3>2. CASE ~(value.usec < usec)
      <4>1. Total(left) = p + (value.usec - usec)
        BY <1>2, <3>2 DEF Total, Tv
      <4>2. QED
        BY <1>1, <1>3, <4>1
    <3>3. QED
      BY <3>1, <3>2
  <2>3. Decremented(value, interval, usec) =
            IF timevalisset(left) THEN [value |-> left, expired |-> FALSE]
            ELSE [value |-> Reload(interval, 0), expired |-> TRUE]
    BY <1>5 DEF Decremented
  <2> HIDE DEF left
  <2>4. CASE timevalisset(left)
    BY <1>1, <1>3, <2>1, <2>2, <2>3, <2>4
  <2>5. CASE ~timevalisset(left)
    <3>1. Total(left) = 0
      BY <2>1, <2>5, SetIsPositive
    <3>2. /\ Reload(interval, 0) \in TimevalSet /\ Reload(interval, 0).sec >= 0
          /\ Total(Reload(interval, 0)) = Total(interval) - 0
      BY <1>1, ReloadCarries
    <3>3. QED
      BY <1>1, <1>3, <2>2, <2>3, <2>5, <3>1, <3>2
  <2>6. QED
    BY <2>4, <2>5
<1>6. QED
  BY <1>4, <1>5

(* A timer that did not expire has usec microseconds less. *)
LEMMA LeftOver ==
    ASSUME NEW value \in TimevalSet, value.sec >= 0, NEW usec \in 1 .. Tick,
           ~(value.usec < usec /\ value.sec = 0)
    PROVE  LET left == IF value.usec < usec
                       THEN Tv(value.sec - 1, value.usec + Usec - usec)
                       ELSE Tv(value.sec, value.usec - usec)
           IN  left \in TimevalSet /\ left.sec >= 0 /\ Total(left) = Total(value) - usec
<1>1. /\ value.sec \in Int /\ value.usec \in Int /\ value.usec >= 0 /\ value.usec < Usec
      /\ usec \in Int /\ usec >= 1 /\ usec <= Tick /\ Tick <= Usec /\ Usec \in Nat /\ Tick \in Nat
  BY TimeConstants DEF TimevalSet
<1>2. PICK p \in Int : p = value.sec * Usec /\ (value.sec - 1) * Usec = p - Usec
  BY <1>1, SecondUp
<1>3. Total(value) = p + value.usec
  BY <1>2 DEF Total
<1>4. CASE value.usec < usec
  <2>1. Total(Tv(value.sec - 1, value.usec + Usec - usec)) = p - Usec + (value.usec + Usec - usec)
    BY <1>2 DEF Total, Tv
  <2>2. /\ Tv(value.sec - 1, value.usec + Usec - usec) \in TimevalSet
        /\ Tv(value.sec - 1, value.usec + Usec - usec).sec >= 0
    BY <1>1, <1>4 DEF Tv, TimevalSet
  <2>3. QED
    BY <1>1, <1>3, <1>4, <2>1, <2>2
<1>5. CASE ~(value.usec < usec)
  <2>1. Total(Tv(value.sec, value.usec - usec)) = p + (value.usec - usec)
    BY <1>2 DEF Total, Tv
  <2>2. /\ Tv(value.sec, value.usec - usec) \in TimevalSet
        /\ Tv(value.sec, value.usec - usec).sec >= 0
    BY <1>1, <1>5 DEF Tv, TimevalSet
  <2>3. QED
    BY <1>1, <1>3, <1>5, <2>1, <2>2
<1>6. QED
  BY <1>4, <1>5

(* A timer stays in time when its value goes down by what has passed, and  *)
(* up by an interval with every expiry.                                    *)
LEMMA OnTime ==
    ASSUME TimerInvariant, timevalisset(itimer.value),
           NEW v \in TimevalSet, v.sec >= 0, NEW usec \in Int, NEW ex \in BOOLEAN,
           Total(v) = Total(itimer.value) - usec + (IF ex THEN Total(itimer.interval) ELSE 0),
           itimer' = [value |-> v, interval |-> itimer.interval, first |-> itimer.first,
                      fired |-> IF ex THEN itimer.fired + 1 ELSE itimer.fired,
                      elapsed |-> itimer.elapsed + usec]
    PROVE  TimerInvariant'
<1>1. /\ itimer \in [value : TimevalSet, interval : TimevalSet, first : Int, fired : Nat, elapsed : Int]
      /\ itimer.value.sec >= 0 /\ itimer.interval.sec >= 0
      /\ IntervalLasts /\ NoDrift
  BY DEF TimerInvariant
<1>2. Total(itimer.value) \in Int /\ Total(itimer.interval) \in Int /\ Total(v) \in Int
  BY <1>1, SetIsPositive
<1>3. /\ itimer'.value = v /\ itimer'.interval = itimer.interval /\ itimer'.first = itimer.first
      /\ itimer'.fired = (IF ex THEN itimer.fired + 1 ELSE itimer.fired)
      /\ itimer'.elapsed = itimer.elapsed + usec
      /\ itimer' \in [value : TimevalSet, interval : TimevalSet, first : Int, fired : Nat, elapsed : Int]
  BY <1>1
<1>4. itimer.elapsed + Total(itimer.value) = itimer.first + itimer.fired * Total(itimer.interval)
  BY <1>1 DEF NoDrift
<1>5. PICK q \in Int : q = itimer.fired * Total(itimer.interval)
  BY <1>1, <1>2
<1>6. (itimer.fired + 1) * Total(itimer.interval) = q + Total(itimer.interval)
  <2>1. \A f \in Nat : \A x \in Int : (f + 1) * x = f * x + x
    OBVIOUS
  <2>2. QED
    BY <1>1, <1>2, <1>5, <2>1
<1>7. itimer'.fired * Total(itimer.interval) = IF ex THEN q + Total(itimer.interval) ELSE q
  BY <1>3, <1>5, <1>6
<1>8. itimer.elapsed + usec + Total(v) = itimer.first + (IF ex THEN q + Total(itimer.interval) ELSE q)
  <2>1. itimer.elapsed \in Int /\ itimer.first \in Int
    BY <1>1
  <2>2. itimer.elapsed + Total(itimer.value) = itimer.first + q
    BY <1>4, <1>5
  <2>3. QED
    BY <1>2, <2>1, <2>2
<1>9. Normal(v)
  BY DEF Normal, TimevalSet
<1>10. NoDrift'
  <2>1. itimer'.elapsed + Total(itimer'.value) = itimer'.first + itimer'.fired * Total(itimer'.interval)
    BY <1>3, <1>7, <1>8
  <2>2. QED
    BY <1>3, <1>9, <2>1 DEF NoDrift, Total, Normal
<1>11. IntervalLasts'
  BY <1>1, <1>3 DEF IntervalLasts, timevalisset
<1>12. QED
  BY <1>1, <1>3, <1>10, <1>11 DEF TimerInvariant

(* Every step of the timer keeps it in time. *)
LEMMA TimerStep ==
    ASSUME Hz > 1, TimerInvariant, TimerNext
    PROVE  TimerInvariant'
<1>1. /\ itimer \in [value : TimevalSet, interval : TimevalSet, first : Int, fired : Nat, elapsed : Int]
      /\ itimer.value.sec >= 0 /\ itimer.interval.sec >= 0
      /\ IntervalLasts /\ NoDrift
  BY DEF TimerInvariant
<1>2. NoTimer = [value |-> [sec |-> 0, usec |-> 0], interval |-> [sec |-> 0, usec |-> 0],
                 first |-> 0, fired |-> 0, elapsed |-> 0]
  BY DEF NoTimer, Tv
<1>3. [sec |-> 0, usec |-> 0] \in TimevalSet
  BY TimeConstants DEF TimevalSet
<1>4. ASSUME NEW value \in Timevals, NEW interval \in Timevals, itimer_set(value, interval)
      PROVE  TimerInvariant'
  <2> DEFINE v == itimerfix(value)
             w == itimerfix(interval)
  <2>1. itimer' = [value |-> v, interval |-> w, first |-> Total(v), fired |-> 0, elapsed |-> 0]
    BY <1>2, <1>4 DEF itimer_set
  <2>2. /\ v \in TimevalSet /\ v.sec >= 0
        /\ w \in TimevalSet /\ w.sec >= 0 /\ (timevalisset(w) => w.sec > 0 \/ w.usec >= Tick)
    BY FixedLasts
  <2>3. Total(v) \in Int /\ Total(w) \in Int
    BY <2>2, SetIsPositive
  <2> HIDE DEF v, w
  <2>4. Normal(v)
    BY <2>2 DEF Normal, TimevalSet
  <2>5. 0 + Total(v) = Total(v) + 0 * Total(w)
    BY <2>3
  <2>6. NoDrift'
    BY <2>1, <2>4, <2>5 DEF NoDrift, timevalisset, Total, Normal
  <2>7. IntervalLasts'
    BY <2>1, <2>2 DEF IntervalLasts, timevalisset
  <2>8. QED
    BY <2>1, <2>2, <2>3, <2>6, <2>7 DEF TimerInvariant
<1>5. ASSUME NEW usec \in 1 .. Tick, itimerdecr(usec)
      PROVE  TimerInvariant'
  <2> DEFINE d == Decremented(itimer.value, itimer.interval, usec)
  <2>1. timevalisset(itimer.value)
    BY <1>5 DEF itimerdecr
  <2>2. CASE ~timevalisset(itimer.interval)
    <3>1. d.expired => itimer' = NoTimer
      BY <1>5, <2>2 DEF itimerdecr
    <3>2. CASE d.expired
      <4>1. TimerInvariant'
        BY <1>2, <1>3, <3>1, <3>2 DEF TimerInvariant, IntervalLasts, NoDrift, timevalisset
      <4>2. QED
        BY <4>1
    <3>3. CASE ~d.expired
      <4> DEFINE left == IF itimer.value.usec < usec
                         THEN Tv(itimer.value.sec - 1, itimer.value.usec + Usec - usec)
                         ELSE Tv(itimer.value.sec, itimer.value.usec - usec)
      <4>1. itimer.value \in TimevalSet /\ usec \in Int /\ usec >= 1 /\ usec <= Tick
        BY <1>1, TimeConstants
      <4>2. d.value = left /\ ~(itimer.value.usec < usec /\ itimer.value.sec = 0)
        BY <3>3 DEF Decremented
      <4>3. left \in TimevalSet /\ left.sec >= 0 /\ Total(left) = Total(itimer.value) - usec
        BY <1>1, <4>1, <4>2, LeftOver
      <4>4. itimer' = [value |-> left, interval |-> itimer.interval, first |-> itimer.first,
                       fired |-> IF FALSE THEN itimer.fired + 1 ELSE itimer.fired,
                       elapsed |-> itimer.elapsed + usec]
        <5>1. itimer' = [itimer EXCEPT !.value = d.value, !.elapsed = @ + usec, !.fired = @]
          BY <1>5, <3>3 DEF itimerdecr
        <5>2. QED
          BY <1>1, <4>2, <5>1
      <4>5. Total(itimer.value) \in Int /\ Total(itimer.interval) \in Int
        BY <1>1, SetIsPositive
      <4> HIDE DEF left, d
      <4>6. Total(left) = Total(itimer.value) - usec + (IF FALSE THEN Total(itimer.interval) ELSE 0)
        BY <4>1, <4>3, <4>5
      <4>7. QED
        BY <2>1, <4>1, <4>3, <4>4, <4>6, OnTime
    <3>4. QED
      BY <3>2, <3>3
  <2>3. CASE timevalisset(itimer.interval)
    <3>1. /\ d.value \in TimevalSet /\ d.value.sec >= 0 /\ d.expired \in BOOLEAN
          /\ Total(d.value) = Total(itimer.value) - usec + (IF d.expired THEN Total(itimer.interval) ELSE 0)
      BY <1>1, <2>1, <2>3, DecrementKeepsTime DEF IntervalLasts
    <3>2. itimer' = [value |-> d.value, interval |-> itimer.interval, first |-> itimer.first,
                     fired |-> IF d.expired THEN itimer.fired + 1 ELSE itimer.fired,
                     elapsed |-> itimer.elapsed + usec]
      <4>1. itimer' = [itimer EXCEPT !.value = d.value, !.elapsed = @ + usec,
                                     !.fired = IF d.expired THEN @ + 1 ELSE @]
        BY <1>5, <2>3 DEF itimerdecr
      <4> HIDE DEF d
      <4>2. QED
        BY <1>1, <4>1
    <3>3. usec \in Int
      BY TimeConstants
    <3> HIDE DEF d
    <3>4. QED
      BY <2>1, <3>1, <3>2, <3>3, OnTime
  <2>4. QED
    BY <2>2, <2>3
<1>6. QED
  BY <1>4, <1>5 DEF TimerNext

(* An interval timer that itimerdecr counts down by any number of          *)
(* microseconds up to a tick never drifts, provided there is more than one *)
(* tick in a second: with one, itimerfix makes a timeval of a whole second *)
(* of microseconds.                                                        *)
THEOREM TimersKeepTime ==
    ASSUME Hz > 1
    PROVE  TimeSpec => []NoDrift
<1>1. TimeInit => TimerInvariant
  <2>1. SUFFICES ASSUME TimeInit PROVE TimerInvariant
    OBVIOUS
  <2>2. itimer = [value |-> [sec |-> 0, usec |-> 0], interval |-> [sec |-> 0, usec |-> 0],
                  first |-> 0, fired |-> 0, elapsed |-> 0]
    BY <2>1 DEF TimeInit, NoTimer, Tv
  <2>3. [sec |-> 0, usec |-> 0] \in TimevalSet
    BY TimeConstants DEF TimevalSet
  <2>4. QED
    BY <2>2, <2>3 DEF TimerInvariant, IntervalLasts, NoDrift, timevalisset
<1>2. TimerInvariant /\ [TimeNext]_timeVars => TimerInvariant'
  <2>1. SUFFICES ASSUME TimerInvariant, [TimeNext]_timeVars PROVE TimerInvariant'
    OBVIOUS
  <2>2. CASE TimerNext
    BY <2>1, <2>2, TimerStep
  <2>3. CASE itimer' = itimer
    BY <2>1, <2>3 DEF TimerInvariant, IntervalLasts, NoDrift
  <2>4. TimerNext \/ itimer' = itimer
    BY <2>1 DEF TimeNext, timeVars, RateNext, rate_use, rate_time, ratecheck, PpsNext, pps_use,
                pps_tick, ppsratecheck, ConvNext, tvtohz
  <2>5. QED
    BY <2>2, <2>3, <2>4
<1>3. TimerInvariant => NoDrift
  BY DEF TimerInvariant
<1>4. QED
  BY <1>1, <1>2, <1>3, PTL DEF TimeSpec

-----------------------------------------------------------------------------
(* Rate limiters.                                                          *)

(* The time ratecheck stores is that of its last yes, and not in the       *)
(* future.                                                                 *)
RateInvariant ==
    /\ rate \in [now : TimevalSet, last : TimevalSet, every : TimevalSet,
                 rv : BOOLEAN, due : BOOLEAN, yes : Int]
    /\ rate.now.sec >= 0 /\ rate.last.sec >= 0 /\ rate.every.sec >= 0
    /\ Total(rate.now) > 0 /\ rate.yes = Total(rate.last)
    /\ RateSpaced

(* The ticks since the window opened are what the counter has gone on, and *)
(* the calls let through are no more than the calls counted.               *)
PpsInvariant ==
    /\ pps \in [ticks : 0 .. TickMod - 1, last : 0 .. TickMod - 1, cur : Nat, maxpps : Int,
                rv : BOOLEAN, age : 0 .. MaxAge, passed : Nat]
    /\ pps.last # 0 =>
          /\ (pps.ticks - pps.last) % TickMod = pps.age
          /\ pps.passed <= pps.cur
    /\ PpsLimited

(* A timeval of some time has no negative seconds. *)
LEMMA PositiveSeconds ==
    ASSUME NEW tv \in TimevalSet, Total(tv) > 0
    PROVE  tv.sec >= 0
<1>1. tv.sec \in Int /\ tv.usec \in Int /\ tv.usec < Usec /\ Usec \in Nat
  BY TimeConstants DEF TimevalSet
<1>2. PICK p \in Int : p = tv.sec * Usec /\ (tv.sec <= -1 => p <= -Usec)
  BY <1>1, SecondUp
<1>3. p + tv.usec > 0
  BY <1>2 DEF Total
<1>4. QED
  BY <1>1, <1>2, <1>3

(* Every step of ratecheck keeps its answers to the interval. *)
LEMMA RateStep ==
    ASSUME RateInvariant, RateNext
    PROVE  RateInvariant'
<1>1. /\ rate \in [now : TimevalSet, last : TimevalSet, every : TimevalSet,
                   rv : BOOLEAN, due : BOOLEAN, yes : Int]
      /\ rate.now.sec >= 0 /\ rate.last.sec >= 0 /\ rate.every.sec >= 0
      /\ Total(rate.now) > 0 /\ rate.yes = Total(rate.last) /\ rate.rv = rate.due
  BY DEF RateInvariant, RateSpaced
<1>2. /\ Total(rate.now) \in Int /\ Total(rate.last) \in Nat /\ Total(rate.every) \in Int
      /\ timevalisset(rate.last) <=> Total(rate.last) > 0
  BY <1>1, SetIsPositive
<1>3. ASSUME NEW every \in Timevals, rate_use(every)
      PROVE  RateInvariant'
  <2>1. rate' = [now |-> rate.now, last |-> rate.last, every |-> every,
                 rv |-> rate.rv, due |-> rate.due, yes |-> rate.yes]
    BY <1>1, <1>3 DEF rate_use
  <2>2. every \in TimevalSet /\ every.sec >= 0
    BY TimeConstants DEF Timevals, TimevalSet
  <2>3. QED
    BY <1>1, <2>1, <2>2 DEF RateInvariant, RateSpaced, Total
<1>4. ASSUME NEW usec \in 1 .. Usec - 1, rate_time(usec)
      PROVE  RateInvariant'
  <2> DEFINE now == timevaladd(rate.now, Tv(0, usec))
  <2>1. rate' = [now |-> now, last |-> rate.last, every |-> rate.every,
                 rv |-> rate.rv, due |-> rate.due, yes |-> rate.yes]
    BY <1>1, <1>4 DEF rate_time
  <2>2. /\ rate.now.sec \in Int /\ rate.now.usec \in Int /\ rate.now.usec >= 0 /\ rate.now.usec < Usec
        /\ usec \in Int /\ usec >= 1 /\ usec < Usec /\ Usec \in Nat
    BY <1>1, TimeConstants DEF TimevalSet
  <2>3. now = timevalfix(Tv(rate.now.sec, rate.now.usec + usec))
    <3>1. rate.now.sec + 0 = rate.now.sec
      BY <2>2
    <3>2. QED
      BY <3>1 DEF timevaladd, Tv
  <2>4. now \in TimevalSet /\ Total(now) = rate.now.sec * Usec + (rate.now.usec + usec)
    <3>1. /\ rate.now.usec + usec \in Int /\ - Usec < rate.now.usec + usec
          /\ rate.now.usec + usec < 2 * Usec
      BY <2>2
    <3>2. QED
      BY <2>2, <2>3, <3>1, FixKeepsTime
  <2>5. Total(now) > 0
    <3>1. PICK p \in Int : p = rate.now.sec * Usec
      BY <2>2, SecondUp
    <3>2. p + rate.now.usec > 0 /\ Total(now) = p + (rate.now.usec + usec)
      BY <1>1, <2>4, <3>1 DEF Total
    <3>3. QED
      BY <2>2, <3>1, <3>2
  <2>6. now.sec >= 0
    BY <2>4, <2>5, PositiveSeconds
  <2> HIDE DEF now
  <2>7. QED
    BY <1>1, <2>1, <2>4, <2>5, <2>6 DEF RateInvariant, RateSpaced, Total
<1>5. ASSUME ratecheck
      PROVE  RateInvariant'
  <2> DEFINE gone == timevalsub(rate.now, rate.last)
             rv   == AtLeast(gone, rate.every) \/ ~ timevalisset(rate.last)
             due  == rate.yes = 0 \/ Total(rate.now) - rate.yes >= Total(rate.every)
  <2>1. rate' = [now |-> rate.now, last |-> IF rv THEN rate.now ELSE rate.last, every |-> rate.every,
                 rv |-> rv, due |-> due, yes |-> IF rv THEN Total(rate.now) ELSE rate.yes]
    BY <1>1, <1>5 DEF ratecheck
  <2>2. gone \in TimevalSet /\ Total(gone) = Total(rate.now) - Total(rate.last)
    <3>1. /\ rate.now.sec \in Int /\ rate.now.usec \in Int /\ rate.now.usec >= 0 /\ rate.now.usec < Usec
          /\ rate.last.sec \in Int /\ rate.last.usec \in Int /\ rate.last.usec >= 0 /\ rate.last.usec < Usec
          /\ Usec \in Nat
      BY <1>1, TimeConstants DEF TimevalSet
    <3>2. gone = timevalfix(Tv(rate.now.sec - rate.last.sec, rate.now.usec - rate.last.usec))
      BY DEF timevalsub
    <3>3. /\ gone \in TimevalSet
          /\ Total(gone) = (rate.now.sec - rate.last.sec) * Usec + (rate.now.usec - rate.last.usec)
      <4>1. /\ rate.now.sec - rate.last.sec \in Int /\ rate.now.usec - rate.last.usec \in Int
            /\ - Usec < rate.now.usec - rate.last.usec /\ rate.now.usec - rate.last.usec < 2 * Usec
        BY <3>1
      <4>2. QED
        BY <3>2, <4>1, FixKeepsTime
    <3>4. PICK p \in Int, q \in Int : p = rate.now.sec * Usec /\ q = rate.last.sec * Usec
      BY <3>1, SecondUp
    <3>5. (rate.now.sec - rate.last.sec) * Usec = p - q
      <4>1. \A x, y, u \in Int : (x - y) * u = x * u - y * u
        OBVIOUS
      <4>2. QED
        BY <3>1, <3>4, <4>1
    <3>6. Total(rate.now) = p + rate.now.usec /\ Total(rate.last) = q + rate.last.usec
      BY <3>4 DEF Total
    <3>7. QED
      BY <3>1, <3>3, <3>4, <3>5, <3>6
  <2>3. AtLeast(gone, rate.every) <=> Total(rate.now) - Total(rate.last) >= Total(rate.every)
    BY <1>1, <2>2, AtLeastIsOrder
  <2> HIDE DEF gone
  <2>4. rv <=> due
    BY <1>1, <1>2, <2>3
  <2>5. rv \in BOOLEAN /\ due \in BOOLEAN
    BY DEF AtLeast
  <2> HIDE DEF rv, due
  <2>6. CASE rv
    <3>1. rate' = [now |-> rate.now, last |-> rate.now, every |-> rate.every,
                   rv |-> rv, due |-> due, yes |-> Total(rate.now)]
      BY <2>1, <2>6
    <3>2. QED
      BY <1>1, <1>2, <2>4, <2>5, <3>1 DEF RateInvariant, RateSpaced, Total
  <2>7. CASE ~ rv
    <3>1. rate' = [now |-> rate.now, last |-> rate.last, every |-> rate.every,
                   rv |-> rv, due |-> due, yes |-> rate.yes]
      BY <2>1, <2>7
    <3>2. QED
      BY <1>1, <1>2, <2>4, <2>5, <3>1 DEF RateInvariant, RateSpaced, Total
  <2>8. QED
    BY <2>6, <2>7
<1>6. QED
  BY <1>3, <1>4, <1>5 DEF RateNext

(* One more tick is one more on the counter's way round. *)
LEMMA TickGoesOn ==
    ASSUME NEW t \in 0 .. TickMod - 1, NEW l \in 0 .. TickMod - 1, NEW a \in 0 .. TickMod - 2,
           (t - l) % TickMod = a
    PROVE  /\ (t + 1) % TickMod \in 0 .. TickMod - 1
           /\ (((t + 1) % TickMod) - l) % TickMod = a + 1
<1>1. TickMod \in Nat /\ TickMod > 0 /\ t \in Int /\ l \in Int /\ a \in Int
  BY TimeConstants
<1>2. t - l = a \/ t - l = a - TickMod
  <2>1. \A x, m \in Int : /\ m > 0 /\ 0 <= x /\ x < m => x % m = x
                          /\ m > 0 /\ -m < x /\ x < 0 => x % m = x + m
    OBVIOUS
  <2>2. -TickMod < t - l /\ t - l < TickMod /\ t - l \in Int
    BY <1>1
  <2>3. (t - l >= 0 => t - l = a) /\ (t - l < 0 => t - l + TickMod = a)
    BY <1>1, <2>1, <2>2
  <2>4. QED
    BY <1>1, <2>2, <2>3
<1>3. /\ t + 1 < TickMod => (t + 1) % TickMod = t + 1
      /\ t + 1 = TickMod => (t + 1) % TickMod = 0
  <2>1. \A x, m \in Int : /\ m > 0 /\ 0 <= x /\ x < m => x % m = x
                          /\ m > 0 /\ x = m => x % m = 0
    OBVIOUS
  <2>2. QED
    BY <1>1, <2>1
<1>4. PICK n \in 0 .. TickMod - 1 : /\ n = (t + 1) % TickMod
                                    /\ n - l = a + 1 \/ n - l = a + 1 - TickMod \/ n - l = a + 1 - 2 * TickMod
  BY <1>1, <1>2, <1>3
<1>5. n - l = a + 1 \/ n - l = a + 1 - TickMod
  BY <1>1, <1>4
<1>6. (n - l) % TickMod = a + 1
  <2>1. \A x, m, b \in Int : m > 0 /\ 0 <= b /\ b < m /\ (x = b \/ x = b - m) => x % m = b
    OBVIOUS
  <2>2. QED
    BY <1>1, <1>5, <2>1
<1>7. QED
  BY <1>4, <1>6

(* Every step of ppsratecheck keeps its windows to a second and a limit. *)
LEMMA PpsStep ==
    ASSUME PpsInvariant, PpsNext
    PROVE  PpsInvariant'
<1>1. /\ pps \in [ticks : 0 .. TickMod - 1, last : 0 .. TickMod - 1, cur : Nat, maxpps : Int,
                  rv : BOOLEAN, age : 0 .. MaxAge, passed : Nat]
      /\ pps.last # 0 => (pps.ticks - pps.last) % TickMod = pps.age /\ pps.passed <= pps.cur
      /\ PpsLimited
  BY DEF PpsInvariant
<1>2. TickMod \in Nat /\ MaxAge \in Nat /\ MaxAge < TickMod /\ Hz \in Nat /\ TickMod > 0
  BY TimeConstants
<1>3. ASSUME NEW ticks \in 0 .. TickMod - 1, NEW maxpps \in Limits, pps_use(ticks, maxpps)
      PROVE  PpsInvariant'
  <2>1. maxpps \in Int
    BY TimeAssumption
  <2>2. pps' = [ticks |-> ticks, last |-> 0, cur |-> 0, maxpps |-> maxpps, rv |-> FALSE,
                age |-> 0, passed |-> 0]
    BY <1>3 DEF pps_use, NoPps
  <2>3. QED
    BY <1>2, <2>1, <2>2 DEF PpsInvariant, PpsLimited
<1>4. ASSUME pps_tick
      PROVE  PpsInvariant'
  <2>1. /\ pps.last # 0 /\ pps.age < MaxAge
        /\ pps' = [ticks |-> (pps.ticks + 1) % TickMod, last |-> pps.last, cur |-> pps.cur,
                   maxpps |-> pps.maxpps, rv |-> pps.rv, age |-> pps.age + 1, passed |-> pps.passed]
    BY <1>1, <1>4 DEF pps_tick
  <2>2. /\ pps.age \in 0 .. TickMod - 2 /\ pps.ticks \in 0 .. TickMod - 1 /\ pps.last \in 0 .. TickMod - 1
        /\ pps.age + 1 \in 0 .. MaxAge
    BY <1>1, <1>2, <2>1
  <2>3. /\ (pps.ticks + 1) % TickMod \in 0 .. TickMod - 1
        /\ (((pps.ticks + 1) % TickMod) - pps.last) % TickMod = pps.age + 1
    BY <1>1, <2>1, <2>2, TickGoesOn
  <2>4. PICK n \in 0 .. TickMod - 1 : n = (pps.ticks + 1) % TickMod /\ (n - pps.last) % TickMod = pps.age + 1
    BY <2>3
  <2>5. PpsLimited'
    BY <1>1, <2>1 DEF PpsLimited
  <2>6. QED
    BY <1>1, <2>1, <2>2, <2>4, <2>5 DEF PpsInvariant
<1>5. ASSUME ppsratecheck
      PROVE  PpsInvariant'
  <2> DEFINE opens == pps.last = 0 \/ WindowOver(pps.ticks, pps.last)
             cur   == IF opens THEN 1 ELSE pps.cur + 1
             rv    == IF opens THEN pps.maxpps # 0 ELSE pps.maxpps < 0 \/ cur < pps.maxpps
             fresh == pps.last = 0 \/ pps.age >= Hz
  <2>1. opens <=> fresh
    BY <1>1 DEF WindowOver
  <2>2. pps' = [ticks |-> pps.ticks, last |-> IF opens THEN pps.ticks ELSE pps.last, cur |-> cur,
                maxpps |-> pps.maxpps, rv |-> rv, age |-> IF fresh THEN 0 ELSE pps.age,
                passed |-> (IF fresh THEN 0 ELSE pps.passed) + (IF rv THEN 1 ELSE 0)]
    BY <1>1, <1>5 DEF ppsratecheck
  <2>3. CASE opens
    <3>1. PICK go \in BOOLEAN : go <=> pps.maxpps # 0
      OBVIOUS
    <3>2. pps' = [ticks |-> pps.ticks, last |-> pps.ticks, cur |-> 1, maxpps |-> pps.maxpps,
                  rv |-> go, age |-> 0, passed |-> IF go THEN 1 ELSE 0]
      BY <2>1, <2>2, <2>3, <3>1
    <3>3. (pps.ticks - pps.ticks) % TickMod = 0
      <4>1. \A m \in Nat : m > 0 => 0 % m = 0
        OBVIOUS
      <4>2. pps.ticks - pps.ticks = 0
        BY <1>1
      <4>3. QED
        BY <1>2, <4>1, <4>2
    <3>4. PpsLimited'
      BY <1>1, <3>1, <3>2 DEF PpsLimited
    <3>5. QED
      BY <1>1, <1>2, <3>2, <3>3, <3>4 DEF PpsInvariant
  <2>4. CASE ~ opens
    <3>1. pps.last # 0 /\ (pps.ticks - pps.last) % TickMod = pps.age /\ pps.passed <= pps.cur
      BY <1>1, <2>4
    <3>2. PICK go \in BOOLEAN : go <=> (pps.maxpps < 0 \/ pps.cur + 1 < pps.maxpps)
      OBVIOUS
    <3>3. pps' = [ticks |-> pps.ticks, last |-> pps.last, cur |-> pps.cur + 1, maxpps |-> pps.maxpps,
                  rv |-> go, age |-> pps.age, passed |-> pps.passed + (IF go THEN 1 ELSE 0)]
      BY <2>1, <2>2, <2>4, <3>2
    <3>4. PpsLimited'
      BY <1>1, <3>1, <3>2, <3>3 DEF PpsLimited
    <3>5. QED
      BY <1>1, <3>1, <3>3, <3>4 DEF PpsInvariant
  <2>5. QED
    BY <2>3, <2>4
<1>6. QED
  BY <1>3, <1>4, <1>5 DEF PpsNext

(* ratecheck says yes exactly when the interval has passed, and            *)
(* ppsratecheck lets no more than the limit of a second through, across    *)
(* borrows of a second and wraps of the tick counter, for every interval,  *)
(* every limit and every length of the counter, as long as a limiter is    *)
(* not left alone until the counter has come round (MaxAge < TickMod).     *)
THEOREM LimitersExact ==
    TimeSpec => []RateLimited
<1>1. TimeInit => RateInvariant /\ PpsInvariant
  <2>1. SUFFICES ASSUME TimeInit PROVE RateInvariant /\ PpsInvariant
    OBVIOUS
  <2>2. RateInvariant
    <3>1. rate = [now |-> [sec |-> 0, usec |-> 1], last |-> [sec |-> 0, usec |-> 0],
                  every |-> [sec |-> 0, usec |-> 0], rv |-> FALSE, due |-> FALSE, yes |-> 0]
      BY <2>1 DEF TimeInit, NoRate, Tv
    <3>2. [sec |-> 0, usec |-> 0] \in TimevalSet /\ [sec |-> 0, usec |-> 1] \in TimevalSet
      BY TimeConstants DEF TimevalSet
    <3>3. Total(rate.now) = 1 /\ Total(rate.last) = 0
      BY <3>1, TimeConstants DEF Total
    <3>4. QED
      BY <3>1, <3>2, <3>3 DEF RateInvariant, RateSpaced
  <2>3. PpsInvariant
    BY <2>1, TimeConstants DEF TimeInit, NoPps, PpsInvariant, PpsLimited
  <2>4. QED
    BY <2>2, <2>3
<1>2. RateInvariant /\ PpsInvariant /\ [TimeNext]_timeVars => RateInvariant' /\ PpsInvariant'
  <2>1. SUFFICES ASSUME RateInvariant, PpsInvariant, [TimeNext]_timeVars PROVE RateInvariant' /\ PpsInvariant'
    OBVIOUS
  <2>2. RateNext \/ rate' = rate
    BY <2>1 DEF TimeNext, timeVars, TimerNext, itimer_set, itimerdecr, PpsNext, pps_use,
                pps_tick, ppsratecheck, ConvNext, tvtohz
  <2>3. PpsNext \/ pps' = pps
    BY <2>1 DEF TimeNext, timeVars, TimerNext, itimer_set, itimerdecr, RateNext, rate_use, rate_time,
                ratecheck, ConvNext, tvtohz
  <2>4. rate' = rate => RateInvariant'
    BY <2>1 DEF RateInvariant, RateSpaced
  <2>5. pps' = pps => PpsInvariant'
    BY <2>1 DEF PpsInvariant, PpsLimited
  <2>6. RateNext => RateInvariant'
    BY <2>1, RateStep
  <2>7. PpsNext => PpsInvariant'
    BY <2>1, PpsStep
  <2>8. RateInvariant'
    BY <2>2, <2>4, <2>6
  <2>9. PpsInvariant'
    BY <2>3, <2>5, <2>7
  <2>10. QED
    BY <2>8, <2>9
<1>3. RateInvariant /\ PpsInvariant => RateLimited
  BY DEF RateInvariant, PpsInvariant, RateLimited
<1>4. QED
  BY <1>1, <1>2, <1>3, PTL DEF TimeSpec

-----------------------------------------------------------------------------
(* Kernel memory.                                                          *)

(* HeapHeld with the references a number. *)
HeapInvariant == held \in [Blocks -> Nat] /\ HeapHeld

(* A block that is in use moves, or stays where it is. *)
LEMMA MovedKeeps ==
    ASSUME HeapInvariant, NEW b \in Blocks, held[b] = 1, NEW c \in Free \cup {b}, Moved(b, c)
    PROVE  HeapInvariant'
<1>1. c \in Blocks /\ (c = b \/ c \notin heap)
  BY DEF Free
<1>2. /\ held' = [[held EXCEPT ![b] = 0] EXCEPT ![c] = 1]
      /\ heap' = (heap \ {b}) \cup {c}
      /\ held \in [Blocks -> Nat] /\ heap = {x \in Blocks : held[x] > 0}
  BY DEF Moved, HeapInvariant, HeapHeld
<1>3. /\ held' \in [Blocks -> Nat]
      /\ \A x \in Blocks : held'[x] = IF x = c THEN 1 ELSE IF x = b THEN 0 ELSE held[x]
  BY <1>1, <1>2
<1>4. \A x : x \in heap' <=> x \in Blocks /\ held'[x] > 0
  BY <1>1, <1>2, <1>3
<1>5. QED
  BY <1>3, <1>4 DEF HeapInvariant, HeapHeld

(* One block's references change, and whether it is in use with them. *)
LEMMA BlockChanges ==
    ASSUME HeapInvariant, NEW b \in Blocks, NEW n \in Nat, held' = [held EXCEPT ![b] = n],
           heap' = IF n > 0 THEN heap \cup {b} ELSE heap \ {b}
    PROVE  HeapInvariant'
<1>1. held \in [Blocks -> Nat] /\ heap = {x \in Blocks : held[x] > 0}
  BY DEF HeapInvariant, HeapHeld
<1>2. /\ held' \in [Blocks -> Nat]
      /\ \A x \in Blocks : held'[x] = IF x = b THEN n ELSE held[x]
  BY <1>1
<1>3. \A x : x \in heap' <=> x \in Blocks /\ held'[x] > 0
  BY <1>1, <1>2
<1>4. QED
  BY <1>2, <1>3 DEF HeapInvariant, HeapHeld

(* A block of kernel memory is in use exactly while something refers to    *)
(* it, over every sequence of malloc, free, realloc, reallocf and the      *)
(* credential calls, with or without memory, for every heap.               *)
THEOREM MemoryInUse ==
    SubrSpec => []HeapHeld
<1>1. SubrInit => HeapInvariant
  BY DEF SubrInit, HeapInvariant, HeapHeld
<1>2. HeapInvariant /\ [SubrNext]_subrVars => HeapInvariant'
  <2>1. SUFFICES ASSUME HeapInvariant, [SubrNext]_subrVars PROVE HeapInvariant'
    OBVIOUS
  <2>2. held \in [Blocks -> Nat] /\ heap = {x \in Blocks : held[x] > 0}
    BY <2>1 DEF HeapInvariant, HeapHeld
  <2>3. UNCHANGED <<heap, held>> => HeapInvariant'
    BY <2>1 DEF HeapInvariant, HeapHeld
  <2>4. HeapNext \/ UNCHANGED <<heap, held>>
    BY <2>1 DEF SubrNext, subrVars, UioNext, copyinuio, uiomove, uiomove_step, uio_done, SbNext,
                chgsbsize, SizedNext, hash_table, group_check
  <2>5. ASSUME NEW waitok \in BOOLEAN, kmalloc(waitok)
        PROVE  HeapInvariant'
    <3>1. (\E b \in Free : heap' = heap \cup {b} /\ held' = [held EXCEPT ![b] = 1]) \/ UNCHANGED <<heap, held>>
      BY <2>5 DEF kmalloc
    <3>2. ASSUME NEW b \in Free, heap' = heap \cup {b} /\ held' = [held EXCEPT ![b] = 1]
          PROVE  HeapInvariant'
      <4>1. PICK n \in Nat : n = 1
        OBVIOUS
      <4>2. b \in Blocks /\ held' = [held EXCEPT ![b] = n] /\ heap' = IF n > 0 THEN heap \cup {b} ELSE heap \ {b}
        BY <3>2, <4>1 DEF Free
      <4>3. QED
        BY <2>1, <4>2, BlockChanges
    <3>3. QED
      BY <2>3, <3>1, <3>2
  <2>6. ASSUME NEW b \in Blocks, kfree(b)
        PROVE  HeapInvariant'
    <3>1. PICK n \in Nat : n = 0
      OBVIOUS
    <3>2. held' = [held EXCEPT ![b] = n] /\ heap' = IF n > 0 THEN heap \cup {b} ELSE heap \ {b}
      BY <2>6, <3>1 DEF kfree
    <3>3. QED
      BY <2>1, <3>2, BlockChanges
  <2>7. ASSUME NEW b \in Blocks, crhold(b)
        PROVE  HeapInvariant'
    <3>1. held[b] \in Nat /\ held[b] > 0 /\ b \in heap
      BY <2>2, <2>7 DEF crhold
    <3>2. PICK n \in Nat : n = held[b] + 1
      BY <3>1
    <3>3. held' = [held EXCEPT ![b] = n] /\ heap' = heap \cup {b} /\ n > 0
      BY <2>7, <3>1, <3>2 DEF crhold
    <3>4. QED
      BY <2>1, <3>3, BlockChanges
  <2>8. ASSUME NEW b \in Blocks, crfree(b)
        PROVE  HeapInvariant'
    <3>1. held[b] \in Nat /\ held[b] > 0 /\ b \in heap
      BY <2>2, <2>8 DEF crfree
    <3>2. PICK n \in Nat : n = held[b] - 1
      BY <3>1
    <3>3. held' = [held EXCEPT ![b] = n] /\ heap' = IF n > 0 THEN heap \cup {b} ELSE heap \ {b}
      BY <2>8, <3>1, <3>2 DEF crfree
    <3>4. QED
      BY <2>1, <3>3, BlockChanges
  <2>9. ASSUME NEW b \in Blocks, NEW size \in {0, 1}, krealloc(b, size)
        PROVE  HeapInvariant'
    <3>1. held[b] = 1 /\ ((\E c \in Free \cup {b} : Moved(b, c)) \/ UNCHANGED <<heap, held>>)
      BY <2>9 DEF krealloc
    <3>2. QED
      BY <2>1, <2>3, <3>1, MovedKeeps
  <2>10. ASSUME NEW b \in Blocks, NEW size \in {0, 1}, kreallocf(b, size)
         PROVE  HeapInvariant'
    <3>1. /\ held[b] = 1
          /\ \/ \E c \in Free \cup {b} : Moved(b, c)
             \/ UNCHANGED <<heap, held>>
             \/ heap' = heap \ {b} /\ held' = [held EXCEPT ![b] = 0]
      BY <2>10 DEF kreallocf
    <3>2. CASE heap' = heap \ {b} /\ held' = [held EXCEPT ![b] = 0]
      <4>1. PICK n \in Nat : n = 0
        OBVIOUS
      <4>2. held' = [held EXCEPT ![b] = n] /\ heap' = IF n > 0 THEN heap \cup {b} ELSE heap \ {b}
        BY <3>2, <4>1
      <4>3. QED
        BY <2>1, <4>2, BlockChanges
    <3>3. QED
      BY <2>1, <2>3, <3>1, <3>2, MovedKeeps
  <2>11. QED
    BY <2>3, <2>4, <2>5, <2>6, <2>7, <2>8, <2>9, <2>10 DEF HeapNext
<1>3. HeapInvariant => HeapHeld
  BY DEF HeapInvariant
<1>4. QED
  BY <1>1, <1>2, <1>3, PTL DEF SubrSpec

-----------------------------------------------------------------------------
(* The socket buffers of a user.                                           *)

(* SbCharged with the high water marks numbers. *)
SbInvariant ==
    /\ sb = [total |-> sb.total, hiwat |-> sb.hiwat]
    /\ sb.hiwat \in [Bufs -> Nat]
    /\ SbCharged

(* The sum of the high water marks changes by what one of them changes. *)
LEMMA ChargeOfOne ==
    ASSUME NEW f \in [Bufs -> Nat], NEW b \in Bufs, NEW to \in Nat
    PROVE  /\ SumFunctionOnSet(f, Bufs) \in Int
           /\ SumFunctionOnSet([f EXCEPT ![b] = to], Bufs) = SumFunctionOnSet(f, Bufs) + to - f[b]
<1>1. IsFiniteSet(Bufs) /\ IsFiniteSet(Bufs \ {b})
  BY SubrAssumption, FS_RemoveElement
<1>2. PICK g : g = [f EXCEPT ![b] = to]
  OBVIOUS
<1>3. /\ \A x \in Bufs : f[x] \in Int /\ g[x] \in Int
      /\ \A x \in Bufs \ {b} : f[x] \in Int /\ f[x] = g[x]
      /\ g[b] = to
  BY <1>2
<1>4. SumFunctionOnSet(f, Bufs \ {b}) = SumFunctionOnSet(g, Bufs \ {b})
  BY <1>1, <1>3, SumEqual
<1>5. /\ SumFunctionOnSet(f, Bufs) \in Int
      /\ SumFunctionOnSet(f, Bufs) = f[b] + SumFunctionOnSet(f, Bufs \ {b})
      /\ SumFunctionOnSet(g, Bufs) = g[b] + SumFunctionOnSet(g, Bufs \ {b})
  BY <1>1, <1>3, SumStep, ZenonT(60)
<1>6. SumFunctionOnSet(f, Bufs \ {b}) \in Int
  BY <1>1, <1>3, SumStep
<1>7. QED
  BY <1>2, <1>3, <1>4, <1>5, <1>6

(* A user is charged the sum of the high water marks of the buffers, and   *)
(* no more than the limit, after every sequence of changes that were made  *)
(* or refused, for any buffers, sizes and limit.                           *)
THEOREM BuffersCharged ==
    SubrSpec => []SbCharged
<1>1. SubrInit => SbInvariant
  <2>1. SUFFICES ASSUME SubrInit PROVE SbInvariant
    OBVIOUS
  <2>2. sb.total = 0 /\ sb.hiwat = [b \in Bufs |-> 0] /\ sb = [total |-> sb.total, hiwat |-> sb.hiwat]
    BY <2>1 DEF SubrInit
  <2>3. PICK f : f = [b \in Bufs |-> 0]
    OBVIOUS
  <2>4. IsFiniteSet(Bufs) /\ SbLimit \in Nat /\ \A x \in Bufs : f[x] \in Int /\ f[x] = 0
    BY <2>3, SubrAssumption
  <2>5. SumFunctionOnSet(f, Bufs) = 0
    BY <2>4, SumOfZeros
  <2>6. QED
    BY <2>2, <2>3, <2>4, <2>5 DEF SbInvariant, SbCharged
<1>2. SbInvariant /\ [SubrNext]_subrVars => SbInvariant'
  <2>1. SUFFICES ASSUME SbInvariant, [SubrNext]_subrVars PROVE SbInvariant'
    OBVIOUS
  <2>2. UNCHANGED sb => SbInvariant'
    BY <2>1 DEF SbInvariant, SbCharged
  <2>3. SbNext \/ UNCHANGED sb
    BY <2>1 DEF SubrNext, subrVars, UioNext, copyinuio, uiomove, uiomove_step, uio_done, HeapNext,
                kmalloc, kfree, krealloc, kreallocf, crhold, crfree, SizedNext, hash_table, group_check
  <2>4. ASSUME NEW b \in Bufs, NEW to \in Sizes \cup {0}, chgsbsize(b, to) PROVE SbInvariant'
    <3>1. PICK f \in [Bufs -> Nat], t \in Int : f = sb.hiwat /\ t = sb.total /\ t = SumFunctionOnSet(f, Bufs)
      <4>1. PICK f \in [Bufs -> Nat] : f = sb.hiwat
        BY <2>1 DEF SbInvariant
      <4>2. SumFunctionOnSet(f, Bufs) \in Int
        BY ChargeOfOne, <2>4
      <4>3. QED
        BY <2>1, <4>1, <4>2 DEF SbInvariant, SbCharged
    <3>2. SbLimit \in Nat /\ to \in Nat /\ f[b] \in Nat /\ (SbLimit # 0 => t <= SbLimit) /\ sb = [total |-> t, hiwat |-> f]
      BY <2>1, <3>1, SubrAssumption DEF SbInvariant, SbCharged
    <3>3. SumFunctionOnSet([f EXCEPT ![b] = to], Bufs) = t + to - f[b]
      BY <3>1, <3>2, ChargeOfOne
    <3>4. CASE UNCHANGED sb
      BY <2>2, <3>4
    <3>5. CASE ~ UNCHANGED sb
      <4>1. PICK d \in Int : d = to - f[b]
        BY <3>2
      <4>2. ~ (d > 0 /\ SbLimit = 0)
        BY <2>4, <3>1, <3>5, <4>1 DEF chgsbsize
      <4>3. PICK c : c = chglimit(t, d, SbLimit)
        OBVIOUS
      <4>4. sb' = [sb EXCEPT !.total = c.limit, !.hiwat[b] = IF c.ok THEN to ELSE @]
        BY <2>4, <3>1, <3>5, <4>1, <4>2, <4>3 DEF chgsbsize
      <4>5. CASE d > 0 /\ t + d > SbLimit
        <5>1. c.ok = FALSE /\ c.limit = t
          <6>1. t + d - d = t /\ SbLimit # 0
            BY <3>1, <4>1, <4>2, <4>5
          <6>2. c = [ok |-> FALSE, limit |-> t + d - d]
            BY <4>3, <4>5, <6>1 DEF chglimit
          <6>3. QED
            BY <6>1, <6>2
        <5>2. sb' = [total |-> t, hiwat |-> f]
          BY <3>2, <4>4, <5>1
        <5>3. QED
          BY <3>2, <3>5, <5>2
      <4>6. CASE ~ (d > 0 /\ t + d > SbLimit)
        <5>1. c.ok = TRUE /\ c.limit = t + d
          BY <4>3, <4>6 DEF chglimit
        <5>2. sb' = [total |-> t + d, hiwat |-> [f EXCEPT ![b] = to]]
          BY <3>2, <4>4, <5>1
        <5>3. SbLimit # 0 => t + d <= SbLimit
          BY <3>1, <3>2, <4>1, <4>6
        <5>4. QED
          BY <3>1, <3>2, <3>3, <4>1, <5>2, <5>3 DEF SbInvariant, SbCharged
      <4>7. QED
        BY <4>5, <4>6
    <3>6. QED
      BY <3>4, <3>5
  <2>5. QED
    BY <2>2, <2>3, <2>4 DEF SbNext
<1>3. SbInvariant => SbCharged
  BY DEF SbInvariant
<1>4. QED
  BY <1>1, <1>2, <1>3, PTL DEF SubrSpec

-----------------------------------------------------------------------------
(* Received segments.                                                      *)

(* Segments in a sequence of which none comes twice. *)
Distinct(segs) ==
    /\ segs \in Seq(Nat)
    /\ \A i, j \in 1 .. Len(segs) : segs[i] = segs[j] => i = j

(* The mbufs of a call refer to the first segments of the packet, those of *)
(* the stack to distinct ones; a packet that was cut off is over.          *)
SegInvariant ==
    /\ rx \in [at : {"none", "gethdr", "get", "stack", "over"}, chain : Seq(Nat), cut : BOOLEAN]
    /\ freed \in [ToSet(Segs) -> Nat]
    /\ rx.cut => rx.at = "over"
    /\ rx.at = "get" => /\ Len(rx.chain) <= Len(Segs)
                        /\ \A i \in 1 .. Len(rx.chain) : rx.chain[i] = Segs[i]
    /\ rx.at = "stack" => Distinct(rx.chain)
    /\ SegmentsOnce

(* The packet is a sequence of distinct segments. *)
LEMMA SegsDistinct ==
    /\ Len(Segs) \in Nat /\ Len(Segs) > 0 /\ DOMAIN Segs = 1 .. Len(Segs)
    /\ \A s : s \in ToSet(Segs) <=> \E i \in 1 .. Len(Segs) : Segs[i] = s
    /\ \A i \in 1 .. Len(Segs) : Segs[i] \in ToSet(Segs)
    /\ Distinct(Segs) /\ Distinct(<< Segs[1] >>)
<1>1. /\ Len(Segs) \in Nat /\ Len(Segs) > 0 /\ DOMAIN Segs = 1 .. Len(Segs) /\ Segs \in Seq(Nat)
      /\ \A i, j \in 1 .. Len(Segs) : Segs[i] = Segs[j] => i = j
  <2>1. /\ Segs \in Seq(Nat) /\ Len(Segs) > 0
        /\ \A i, j \in 1 .. Len(Segs) : Segs[i] = Segs[j] => i = j
    BY VethAssumption, Zenon
  <2>2. QED
    BY <2>1
<1>2. /\ \A s : s \in ToSet(Segs) <=> \E i \in 1 .. Len(Segs) : Segs[i] = s
      /\ \A i \in 1 .. Len(Segs) : Segs[i] \in ToSet(Segs)
  BY <1>1 DEF ToSet
<1>3. Segs \in Seq(Nat)
  BY <1>1, <1>2
<1>4. << Segs[1] >> \in Seq(Nat) /\ Len(<< Segs[1] >>) = 1
  BY <1>1, <1>2
<1>5. QED
  BY <1>1, <1>2, <1>3, <1>4 DEF Distinct

(* What a sequence holds. *)
LEMMA HoldsElements ==
    ASSUME NEW segs \in Seq(Nat)
    PROVE  \A s : s \in ToSet(segs) <=> \E i \in 1 .. Len(segs) : segs[i] = s
<1>1. DOMAIN segs = 1 .. Len(segs)
  OBVIOUS
<1>2. QED
  BY <1>1 DEF ToSet

(* Freeing distinct segments frees each of them once. *)
LEMMA FreedOnce ==
    ASSUME NEW f \in [ToSet(Segs) -> Nat], NEW segs, Distinct(segs)
    PROVE  /\ FreeAll(f, segs) \in [ToSet(Segs) -> Nat]
           /\ \A s \in ToSet(Segs) :
                 FreeAll(f, segs)[s] = IF s \in ToSet(segs) THEN f[s] + 1 ELSE f[s]
<1>1. segs \in Seq(Nat) /\ \A i, j \in 1 .. Len(segs) : segs[i] = segs[j] => i = j
  BY DEF Distinct
<1>2. ASSUME NEW s \in ToSet(Segs)
      PROVE  Cardinality({i \in 1 .. Len(segs) : segs[i] = s}) = IF s \in ToSet(segs) THEN 1 ELSE 0
  <2>1. CASE s \in ToSet(segs)
    <3>1. PICK k \in 1 .. Len(segs) : segs[k] = s
      BY <1>1, <2>1, HoldsElements
    <3>2. {i \in 1 .. Len(segs) : segs[i] = s} = {k}
      BY <1>1, <3>1
    <3>3. QED
      BY <2>1, <3>2, FS_Singleton
  <2>2. CASE s \notin ToSet(segs)
    <3>1. {i \in 1 .. Len(segs) : segs[i] = s} = {}
      BY <1>1, <2>2, HoldsElements
    <3>2. QED
      BY <2>2, <3>1, FS_EmptySet
  <2>3. QED
    BY <2>1, <2>2
<1>3. FreeAll(f, segs) = [s \in ToSet(Segs) |-> f[s] + Cardinality({i \in 1 .. Len(segs) : segs[i] = s})]
  BY DEF FreeAll
<1>4. \A s \in ToSet(Segs) : FreeAll(f, segs)[s] = IF s \in ToSet(segs) THEN f[s] + 1 ELSE f[s]
  <2>1. ASSUME NEW s \in ToSet(Segs)
        PROVE  FreeAll(f, segs)[s] = IF s \in ToSet(segs) THEN f[s] + 1 ELSE f[s]
    <3>1. FreeAll(f, segs)[s] = f[s] + Cardinality({i \in 1 .. Len(segs) : segs[i] = s})
      BY <1>3
    <3>2. f[s] \in Nat
      OBVIOUS
    <3>3. QED
      BY <1>2, <3>1, <3>2
  <2>2. QED
    BY <2>1
<1>5. FreeAll(f, segs) \in [ToSet(Segs) -> Nat]
  <2>1. \A s \in ToSet(Segs) : FreeAll(f, segs)[s] \in Nat
    BY <1>4
  <2>2. FreeAll(f, segs) = [s \in ToSet(Segs) |-> FreeAll(f, segs)[s]]
    BY <1>3
  <2>3. QED
    BY <2>1, <2>2
<1>6. QED
  BY <1>4, <1>5

(* When the packet is over, its segments were freed once, or it was cut. *)
LEMMA OverKeeps ==
    ASSUME NEW cut \in BOOLEAN, rx' = [at |-> "over", chain |-> << >>, cut |-> cut],
           freed' \in [ToSet(Segs) -> Nat],
           ~ cut => \A s \in ToSet(Segs) : freed'[s] = 1
    PROVE  SegInvariant'
<1>1. << >> \in Seq(Nat)
  OBVIOUS
<1>2. /\ rx' \in [at : {"none", "gethdr", "get", "stack", "over"}, chain : Seq(Nat), cut : BOOLEAN]
      /\ rx'.at = "over" /\ rx'.cut = cut
  BY <1>1
<1>3. SegmentsOnce'
  BY <1>2 DEF SegmentsOnce
<1>4. QED
  BY <1>2, <1>3 DEF SegInvariant

(* A packet that is given back before any mbuf refers to it. *)
LEMMA PacketFreed ==
    ASSUME SegInvariant, ~ rx.cut, rx.at \in {"none", "gethdr"},
           rx' = Returned(FALSE), freed' = FreeAll(freed, Segs)
    PROVE  SegInvariant'
<1>1. rx' = [at |-> "over", chain |-> << >>, cut |-> FALSE]
  BY DEF Returned, NoRx
<1>2. /\ freed' \in [ToSet(Segs) -> Nat]
      /\ \A s \in ToSet(Segs) : freed'[s] = IF s \in ToSet(Segs) THEN freed[s] + 1 ELSE freed[s]
  BY FreedOnce, SegsDistinct DEF SegInvariant
<1>3. \A s \in ToSet(Segs) : freed[s] = 0
  BY DEF SegInvariant, SegmentsOnce
<1>4. \A s \in ToSet(Segs) : freed'[s] = 1
  BY <1>2, <1>3
<1>5. QED
  BY <1>1, <1>2, <1>4, OverKeeps

(* Distinct segments cut in two. *)
LEMMA DistinctSplit ==
    ASSUME NEW c, Distinct(c), NEW n \in 1 .. Len(c)
    PROVE  LET front == SubSeq(c, 1, n)
               back  == SubSeq(c, n + 1, Len(c))
           IN  /\ Distinct(front) /\ Distinct(back) /\ Len(back) = Len(c) - n
               /\ \A s : s \in ToSet(c) <=> s \in ToSet(front) \/ s \in ToSet(back)
               /\ \A s : ~ (s \in ToSet(front) /\ s \in ToSet(back))
<1> DEFINE front == SubSeq(c, 1, n)
           back  == SubSeq(c, n + 1, Len(c))
<1>1. /\ c \in Seq(Nat) /\ Len(c) \in Nat /\ n \in Nat /\ n >= 1 /\ n <= Len(c)
      /\ \A i, j \in 1 .. Len(c) : c[i] = c[j] => i = j
  BY DEF Distinct
<1>2. front \in Seq(Nat) /\ Len(front) = n /\ \A i \in 1 .. n : front[i] = c[i]
  BY <1>1
<1>3. back \in Seq(Nat) /\ Len(back) = Len(c) - n
  BY <1>1
<1>4. \A i \in 1 .. Len(c) - n : back[i] = c[n + i]
  BY <1>1
<1> HIDE DEF front, back
<1>5. Distinct(front)
  <2>1. ASSUME NEW i \in 1 .. Len(front), NEW j \in 1 .. Len(front), front[i] = front[j]
        PROVE  i = j
    <3>1. i \in 1 .. Len(c) /\ j \in 1 .. Len(c)
      BY <1>1, <1>2
    <3>2. front[i] = c[i] /\ front[j] = c[j]
      BY <1>2
    <3>3. QED
      BY <1>1, <2>1, <3>1, <3>2
  <2>2. QED
    BY <1>2, <2>1 DEF Distinct
<1>6. Distinct(back)
  <2>1. ASSUME NEW i \in 1 .. Len(back), NEW j \in 1 .. Len(back), back[i] = back[j]
        PROVE  i = j
    <3>1. n + i \in 1 .. Len(c) /\ n + j \in 1 .. Len(c) /\ i \in Int /\ j \in Int
      BY <1>1, <1>3
    <3>2. n + i = n + j
      BY <1>1, <1>3, <1>4, <2>1, <3>1
    <3>3. QED
      BY <1>1, <3>1, <3>2
  <2>2. QED
    BY <1>3, <2>1 DEF Distinct
<1>7. ASSUME NEW s
      PROVE  /\ s \in ToSet(front) <=> \E i \in 1 .. n : c[i] = s
             /\ s \in ToSet(c) <=> \E i \in 1 .. Len(c) : c[i] = s
             /\ s \in ToSet(back) <=> \E i \in 1 .. Len(c) - n : c[n + i] = s
  <2>1. s \in ToSet(front) <=> \E i \in 1 .. Len(front) : front[i] = s
    BY <1>2, HoldsElements
  <2>2. s \in ToSet(back) <=> \E i \in 1 .. Len(back) : back[i] = s
    BY <1>3, HoldsElements
  <2>3. s \in ToSet(c) <=> \E i \in 1 .. Len(c) : c[i] = s
    BY <1>1, HoldsElements
  <2>4. s \in ToSet(front) <=> \E i \in 1 .. n : c[i] = s
    BY <1>2, <2>1
  <2>5. s \in ToSet(back) <=> \E i \in 1 .. Len(c) - n : c[n + i] = s
    BY <1>3, <1>4, <2>2
  <2>6. QED
    BY <2>3, <2>4, <2>5
<1>8. ASSUME NEW s
      PROVE  s \in ToSet(c) <=> s \in ToSet(front) \/ s \in ToSet(back)
  <2>1. ASSUME s \in ToSet(c)
        PROVE  s \in ToSet(front) \/ s \in ToSet(back)
    <3>1. PICK i \in 1 .. Len(c) : c[i] = s
      BY <1>7, <2>1
    <3>2. CASE i <= n
      BY <1>1, <1>7, <3>1, <3>2
    <3>3. CASE i > n
      <4>1. i - n \in 1 .. Len(c) - n /\ n + (i - n) = i
        BY <1>1, <3>3
      <4>2. QED
        BY <1>7, <3>1, <4>1
    <3>4. QED
      BY <1>1, <3>2, <3>3
  <2>2. ASSUME s \in ToSet(front)
        PROVE  s \in ToSet(c)
    <3>1. PICK i \in 1 .. n : c[i] = s
      BY <1>7, <2>2
    <3>2. i \in 1 .. Len(c)
      BY <1>1
    <3>3. QED
      BY <1>7, <3>1, <3>2
  <2>3. ASSUME s \in ToSet(back)
        PROVE  s \in ToSet(c)
    <3>1. PICK i \in 1 .. Len(c) - n : c[n + i] = s
      BY <1>7, <2>3
    <3>2. n + i \in 1 .. Len(c)
      BY <1>1
    <3>3. QED
      BY <1>7, <3>1, <3>2
  <2>4. QED
    BY <2>1, <2>2, <2>3
<1>9. ASSUME NEW s, s \in ToSet(front), s \in ToSet(back)
      PROVE  FALSE
  <2>1. PICK i \in 1 .. n : c[i] = s
    BY <1>7, <1>9
  <2>2. PICK k \in 1 .. Len(c) - n : c[n + k] = s
    BY <1>7, <1>9
  <2>3. i \in 1 .. Len(c) /\ n + k \in 1 .. Len(c) /\ i # n + k
    BY <1>1
  <2>4. QED
    BY <1>1, <2>1, <2>2, <2>3
<1>10. QED
  BY <1>3, <1>5, <1>6, <1>8, <1>9 DEF front, back

(* The stack frees the first of its mbufs. *)
LEMMA StackFrees ==
    ASSUME SegInvariant, NEW n \in 1 .. Len(Segs), stack_free(n)
    PROVE  SegInvariant'
<1>1. /\ rx.at = "stack" /\ ~ rx.cut /\ n \in 1 .. Len(rx.chain) /\ Distinct(rx.chain)
      /\ freed \in [ToSet(Segs) -> Nat]
  <2>1. /\ rx.at = "stack" /\ n <= Len(rx.chain) /\ Distinct(rx.chain)
        /\ freed \in [ToSet(Segs) -> Nat] /\ (rx.cut => rx.at = "over")
    BY DEF SegInvariant, stack_free
  <2>2. n \in Nat /\ n >= 1 /\ Len(rx.chain) \in Nat
    BY <2>1, SegsDistinct DEF Distinct
  <2>3. QED
    BY <2>1, <2>2
<1>2. \A s \in ToSet(Segs) : freed[s] = IF s \notin ToSet(rx.chain) THEN 1 ELSE 0
  BY <1>1 DEF SegInvariant, SegmentsOnce
<1>3. PICK front, back : front = SubSeq(rx.chain, 1, n) /\ back = SubSeq(rx.chain, n + 1, Len(rx.chain))
  OBVIOUS
<1>4. /\ Distinct(front) /\ Distinct(back) /\ Len(back) = Len(rx.chain) - n
      /\ \A s : s \in ToSet(rx.chain) <=> s \in ToSet(front) \/ s \in ToSet(back)
      /\ \A s : ~ (s \in ToSet(front) /\ s \in ToSet(back))
  BY <1>1, <1>3, DistinctSplit, Zenon
<1>5. freed' = FreeAll(freed, front)
  BY <1>3 DEF stack_free, lazybsd_mbuf_ext_free
<1>6. /\ freed' \in [ToSet(Segs) -> Nat]
      /\ \A s \in ToSet(Segs) : freed'[s] = IF s \in ToSet(front) THEN freed[s] + 1 ELSE freed[s]
  BY <1>1, <1>4, <1>5, FreedOnce
<1>7. \A s \in ToSet(Segs) : freed'[s] = IF s \notin ToSet(back) THEN 1 ELSE 0
  BY <1>2, <1>4, <1>6
<1>8. CASE n = Len(rx.chain)
  <2>1. rx' = [at |-> "over", chain |-> << >>, cut |-> FALSE]
    BY <1>8 DEF stack_free, Returned, NoRx
  <2>2. \A s : s \notin ToSet(back)
    <3>1. back \in Seq(Nat) /\ Len(back) = 0
      BY <1>1, <1>4, <1>8 DEF Distinct
    <3>2. 1 .. Len(back) = {}
      BY <3>1
    <3>3. QED
      BY <3>1, <3>2, HoldsElements, Zenon
  <2>3. \A s \in ToSet(Segs) : freed'[s] = 1
    BY <1>7, <2>2
  <2>4. QED
    BY <1>6, <2>1, <2>3, OverKeeps
<1>9. CASE n # Len(rx.chain)
  <2>1. rx' = [rx EXCEPT !.chain = back]
    BY <1>3, <1>9 DEF stack_free
  <2>2. rx'.at = "stack" /\ rx'.chain = back /\ rx'.cut = FALSE
    BY <1>1, <2>1 DEF SegInvariant
  <2>3. rx' \in [at : {"none", "gethdr", "get", "stack", "over"}, chain : Seq(Nat), cut : BOOLEAN]
    BY <1>4, <2>1 DEF SegInvariant, Distinct
  <2>4. QED
    BY <1>4, <1>6, <1>7, <2>2, <2>3 DEF SegInvariant, SegmentsOnce
<1>10. QED
  BY <1>8, <1>9

(* The first segments of the packet are distinct. *)
LEMMA PrefixDistinct ==
    ASSUME NEW c \in Seq(Nat), Len(c) <= Len(Segs), \A i \in 1 .. Len(c) : c[i] = Segs[i]
    PROVE  Distinct(c)
<1>1. ASSUME NEW i \in 1 .. Len(c), NEW j \in 1 .. Len(c), c[i] = c[j]
      PROVE  i = j
  <2>1. i \in 1 .. Len(Segs) /\ j \in 1 .. Len(Segs)
    BY SegsDistinct
  <2>2. Segs[i] = Segs[j]
    BY <1>1
  <2>3. QED
    BY <2>1, <2>2, SegsDistinct DEF Distinct
<1>2. QED
  BY <1>1 DEF Distinct

(* The mbufs go on to refer to the first segments of the packet. *)
LEMMA WrappingKeeps ==
    ASSUME SegInvariant, ~ rx.cut, rx.at \in {"gethdr", "get"}, freed' = freed,
           NEW c \in Seq(Nat), rx' = [at |-> "get", chain |-> c, cut |-> FALSE],
           Len(c) <= Len(Segs), \A i \in 1 .. Len(c) : c[i] = Segs[i]
    PROVE  SegInvariant'
<1>1. /\ rx' \in [at : {"none", "gethdr", "get", "stack", "over"}, chain : Seq(Nat), cut : BOOLEAN]
      /\ rx'.at = "get" /\ rx'.cut = FALSE /\ rx'.chain = c
  OBVIOUS
<1>2. freed \in [ToSet(Segs) -> Nat] /\ \A s \in ToSet(Segs) : freed[s] = 0
  BY DEF SegInvariant, SegmentsOnce
<1>3. SegmentsOnce'
  BY <1>1, <1>2 DEF SegmentsOnce
<1>4. QED
  BY <1>1, <1>2, <1>3 DEF SegInvariant

(* Every step of the interface keeps the segments accounted for. *)
LEMMA InputStep ==
    ASSUME SegInvariant, InputNext
    PROVE  SegInvariant'
<1>1. /\ rx \in [at : {"none", "gethdr", "get", "stack", "over"}, chain : Seq(Nat), cut : BOOLEAN]
      /\ freed \in [ToSet(Segs) -> Nat] /\ SegmentsOnce
      /\ rx.cut => rx.at = "over"
      /\ rx.at = "get" => /\ Len(rx.chain) <= Len(Segs)
                          /\ \A i \in 1 .. Len(rx.chain) : rx.chain[i] = Segs[i]
  BY DEF SegInvariant
<1>2. CASE lazybsd_veth_input
  <2>1. rx.at = "none" /\ ~ rx.cut
    BY <1>1, <1>2 DEF lazybsd_veth_input
  <2>2. CASE rx' = Returned(FALSE) /\ freed' = FreeAll(freed, Segs)
    BY <2>1, <2>2, PacketFreed
  <2>3. CASE rx' = [rx EXCEPT !.at = "gethdr"] /\ UNCHANGED freed
    BY <1>1, <2>1, <2>3 DEF SegInvariant, SegmentsOnce
  <2>4. QED
    BY <1>2, <2>2, <2>3 DEF lazybsd_veth_input
<1>3. CASE lazybsd_mbuf_gethdr
  <2>1. rx.at = "gethdr" /\ ~ rx.cut
    BY <1>1, <1>3 DEF lazybsd_mbuf_gethdr
  <2>2. CASE rx' = [rx EXCEPT !.at = "get", !.chain = << Segs[1] >>] /\ UNCHANGED freed
    <3>1. PICK one \in Seq(Nat) : one = << Segs[1] >> /\ Len(one) = 1 /\ one[1] = Segs[1]
      BY SegsDistinct DEF Distinct
    <3>2. rx' = [at |-> "get", chain |-> one, cut |-> FALSE]
      BY <1>1, <2>1, <2>2, <3>1
    <3>3. Len(one) <= Len(Segs) /\ \A i \in 1 .. Len(one) : one[i] = Segs[i]
      BY <3>1, SegsDistinct
    <3>4. QED
      BY <1>1, <2>1, <2>2, <3>2, <3>3, WrappingKeeps
  <2>3. CASE rx' = Returned(FALSE) /\ freed' = FreeAll(freed, Segs)
    BY <2>1, <2>3, PacketFreed
  <2>4. QED
    BY <1>3, <2>2, <2>3 DEF lazybsd_mbuf_gethdr
<1>4. CASE lazybsd_mbuf_get
  <2>1. /\ rx.at = "get" /\ rx.cut = FALSE /\ Len(rx.chain) < Len(Segs)
        /\ rx.chain \in Seq(Nat) /\ Len(rx.chain) \in Nat
    BY <1>1, <1>4 DEF lazybsd_mbuf_get
  <2>2. CASE rx' = [rx EXCEPT !.chain = Append(@, Segs[Len(@) + 1])] /\ UNCHANGED freed
    <3>1. Len(rx.chain) + 1 \in 1 .. Len(Segs) /\ Segs[Len(rx.chain) + 1] \in Nat
      BY <2>1, SegsDistinct, VethAssumption
    <3>2. PICK more \in Seq(Nat) :
              /\ more = Append(rx.chain, Segs[Len(rx.chain) + 1])
              /\ Len(more) = Len(rx.chain) + 1
              /\ \A i \in 1 .. Len(rx.chain) : more[i] = rx.chain[i]
              /\ more[Len(rx.chain) + 1] = Segs[Len(rx.chain) + 1]
      <4>1. \A c \in Seq(Nat), e \in Nat : /\ Append(c, e) \in Seq(Nat)
                                          /\ Len(Append(c, e)) = Len(c) + 1
                                          /\ \A i \in 1 .. Len(c) : Append(c, e)[i] = c[i]
                                          /\ Append(c, e)[Len(c) + 1] = e
        OBVIOUS
      <4>2. PICK c \in Seq(Nat), e \in Nat : c = rx.chain /\ e = Segs[Len(rx.chain) + 1]
        BY <2>1, <3>1
      <4>3. PICK more \in Seq(Nat) : more = Append(c, e)
        BY <4>1
      <4>4. /\ Len(more) = Len(c) + 1 /\ \A i \in 1 .. Len(c) : more[i] = c[i]
            /\ more[Len(c) + 1] = e
        BY <4>1, <4>3
      <4>5. QED
        BY <4>2, <4>3, <4>4, Zenon
    <3>3. rx' = [at |-> "get", chain |-> more, cut |-> FALSE]
      BY <1>1, <2>1, <2>2, <3>2
    <3>4. ASSUME NEW i \in 1 .. Len(more)
          PROVE  more[i] = Segs[i]
      <4>1. CASE i \in 1 .. Len(rx.chain)
        BY <1>1, <2>1, <3>2, <4>1
      <4>2. CASE i = Len(rx.chain) + 1
        BY <3>2, <4>2
      <4>3. QED
        BY <2>1, <3>2, <4>1, <4>2
    <3>5. Len(more) <= Len(Segs)
      BY <2>1, <3>1, <3>2, SegsDistinct
    <3>6. QED
      BY <1>1, <2>1, <2>2, <3>3, <3>4, <3>5, WrappingKeeps
  <2>3. CASE /\ rx' = Returned(TRUE)
             /\ freed' = FreeAll(lazybsd_mbuf_ext_free(freed, rx.chain), << Segs[1] >>)
    <3>1. Distinct(rx.chain)
      BY <1>1, <2>1, PrefixDistinct
    <3>2. FreeAll(freed, rx.chain) \in [ToSet(Segs) -> Nat]
      BY <1>1, <3>1, FreedOnce
    <3>3. freed' \in [ToSet(Segs) -> Nat]
      BY <2>3, <3>2, FreedOnce, SegsDistinct DEF lazybsd_mbuf_ext_free
    <3>4. rx' = [at |-> "over", chain |-> << >>, cut |-> TRUE]
      BY <2>3 DEF Returned, NoRx
    <3>5. QED
      BY <3>3, <3>4, OverKeeps
  <2>4. QED
    BY <1>4, <2>2, <2>3 DEF lazybsd_mbuf_get
<1>5. CASE lazybsd_veth_process_packet
  <2>1. /\ rx.at = "get" /\ rx.cut = FALSE /\ Len(rx.chain) = Len(Segs) /\ rx.chain \in Seq(Nat)
        /\ UNCHANGED freed
    BY <1>1, <1>5 DEF lazybsd_veth_process_packet
  <2>2. rx' = [at |-> "stack", chain |-> rx.chain, cut |-> FALSE]
    BY <1>1, <1>5, <2>1 DEF lazybsd_veth_process_packet
  <2>3. Distinct(rx.chain)
    BY <1>1, <2>1, PrefixDistinct
  <2>4. ASSUME NEW s \in ToSet(Segs)
        PROVE  s \in ToSet(rx.chain)
    <3>1. PICK i \in 1 .. Len(Segs) : Segs[i] = s
      BY SegsDistinct
    <3>2. i \in 1 .. Len(rx.chain) /\ rx.chain[i] = s
      BY <1>1, <2>1, <3>1
    <3>3. QED
      BY <2>1, <3>2, HoldsElements
  <2>5. \A s \in ToSet(Segs) : freed[s] = 0
    BY <1>1, <2>1 DEF SegmentsOnce
  <2>6. QED
    BY <1>1, <2>1, <2>2, <2>3, <2>4, <2>5 DEF SegInvariant, SegmentsOnce
<1>6. QED
  BY <1>2, <1>3, <1>4, <1>5, StackFrees DEF InputNext

(* A segment of a received packet goes back to its pool once, whether the  *)
(* packet is dropped at a check, for want of the first mbuf, or freed by   *)
(* the stack piece by piece, for a packet of any number of segments.       *)
THEOREM SegmentsFreedOnce ==
    VethSpec => []SegmentsOnce
<1>1. VethInit => SegInvariant
  <2>1. SUFFICES ASSUME VethInit PROVE SegInvariant
    OBVIOUS
  <2>2. rx = [at |-> "none", chain |-> << >>, cut |-> FALSE] /\ freed = [s \in ToSet(Segs) |-> 0]
    BY <2>1 DEF VethInit, NoRx
  <2>3. << >> \in Seq(Nat)
    OBVIOUS
  <2>4. QED
    BY <2>2, <2>3 DEF SegInvariant, SegmentsOnce
<1>2. SegInvariant /\ [VethNext]_vethVars => SegInvariant'
  <2>1. SUFFICES ASSUME SegInvariant, [VethNext]_vethVars PROVE SegInvariant'
    OBVIOUS
  <2>2. InputNext \/ UNCHANGED <<rx, freed>>
    BY <2>1 DEF VethNext, vethVars, ZcNext, lazybsd_zc_mbuf_get, lazybsd_zc_mbuf_write, zc_mbuf_sent,
                AttachNext, lazybsd_veth_attach, register_if, lazybsd_veth_setup_interface,
                lazybsd_veth_detach
  <2>3. UNCHANGED <<rx, freed>> => SegInvariant'
    BY <2>1 DEF SegInvariant, SegmentsOnce, Distinct
  <2>4. InputNext => SegInvariant'
    BY <2>1, InputStep
  <2>5. QED
    BY <2>2, <2>3, <2>4
<1>3. SegInvariant => SegmentsOnce
  BY DEF SegInvariant
<1>4. QED
  BY <1>1, <1>2, <1>3, PTL DEF VethSpec

-----------------------------------------------------------------------------
(* The start of the kernel.                                                *)

(* e is an element of s. *)
In(s, e) == \E k \in 1 .. Len(s) : s[k] = e

(* The types of the start. *)
StartType ==
    /\ table \in Seq(Entries) /\ newtable \in Seq(Entries) /\ ran \in Seq(Entries)
    /\ sipp \in Nat /\ xipp \in Nat /\ inside \in BOOLEAN
    /\ subsystem \in [Entries -> Nat] /\ added \subseteq ModuleSets

(* An entry is checked off once it has returned, and a placeholder never   *)
(* runs.                                                                   *)
CheckedOff ==
    \A e \in Entries :
        /\ In(ran, e) => Subsystem[e] # SI_SUB_DUMMY
        /\ subsystem[e] = IF In(ran, e) /\ ~ (inside /\ e = table[sipp]) THEN SI_SUB_DONE ELSE Subsystem[e]

(* Where the start can be: entries are added only by a routine that runs. *)
Position ==
    /\ sipp = 0 => added = {} /\ xipp = 0
    /\ inside => xipp = 0 /\ sipp \in 1 .. Len(table) /\ In(ran, table[sipp])
    /\ newtable # << >> => inside
    /\ xipp > 0 => sipp > 0 /\ sipp < xipp

(* The invariant of the two loops of the sort: every entry before the      *)
(* outer position is in its place, and the one at it is the least of those *)
(* that the inner loop has visited.                                        *)
RowsSorted ==
    xipp > 0 =>
        \A k, l \in 1 .. Len(table) :
            k < l /\ (k < sipp \/ (k = sipp /\ l < xipp)) => Skip(table[k], table[l])

(* While the table is run, what lies behind is done with, and what is not  *)
(* done with is sorted.                                                    *)
RunSorted ==
    xipp = 0 /\ sipp > 0 =>
        /\ \A k \in 1 .. Len(table) : k < sipp => ~ Runs(table[k])
        /\ \A k, l \in 1 .. Len(table) :
              /\ k < l /\ subsystem[table[k]] # SI_SUB_DONE /\ subsystem[table[l]] # SI_SUB_DONE
              => Skip(table[k], table[l])

(* No entry is lost: the table, or the one that will replace it, has all   *)
(* of them.                                                                *)
AllListed ==
    sipp > 0 =>
        /\ newtable = << >> => \A e : e \in Registered <=> In(table, e)
        /\ newtable # << >> => \A e : e \in Registered <=> In(newtable, e)

RanOnce == \A k, l \in 1 .. Len(ran) : ran[k] = ran[l] => k = l

StartInvariant ==
    StartType /\ CheckedOff /\ Position /\ RowsSorted /\ RunSorted /\ AllListed /\ RanOnce

(* The set of a sequence. *)
LEMMA SetOf ==
    ASSUME NEW S, NEW s \in Seq(S), NEW e
    PROVE  e \in ToSet(s) <=> In(s, e)
BY DEF ToSet, In

(* What the sort compares by is a total order. *)
LEMMA SkipOrders ==
    ASSUME subsystem \in [Entries -> Nat], NEW a \in Entries, NEW b \in Entries, NEW c \in Entries
    PROVE  /\ Skip(a, b) /\ Skip(b, c) => Skip(a, c)
           /\ ~ Skip(a, b) => Skip(b, a)
BY StartupAssumption DEF Skip

(* The start of the sort of a table that has all entries. *)
LEMMA RestartStep ==
    ASSUME StartType', CheckedOff', RanOnce', ~ inside', newtable' = << >>,
           NEW t, Restart(t), \A e : e \in Registered' <=> In(t, e)
    PROVE  StartInvariant'
<1>1. table' = t /\ sipp' = 1 /\ xipp' = 2
  BY DEF Restart
<1>2. Position'
  BY <1>1 DEF Position
<1>3. RowsSorted'
  BY <1>1 DEF RowsSorted
<1>4. RunSorted' /\ AllListed'
  BY <1>1 DEF RunSorted, AllListed
<1>5. QED
  BY <1>2, <1>3, <1>4 DEF StartInvariant

(* The linked entries are the first table. *)
LEMMA FirstStep ==
    ASSUME StartInvariant, mi_startup
    PROVE  StartInvariant'
<1>1. /\ sipp = 0 /\ table' = Linked /\ sipp' = 1 /\ xipp' = 2 /\ Restart(Linked)
      /\ UNCHANGED <<newtable, inside, subsystem, added, ran>>
  BY DEF mi_startup, Restart
<1>2. added = {} /\ ~ inside /\ newtable = << >>
  BY <1>1 DEF StartInvariant, StartType, Position
<1>3. StartType'
  BY <1>1, StartupAssumption DEF StartInvariant, StartType
<1>4. CheckedOff'
  BY <1>1, <1>2 DEF StartInvariant, CheckedOff, In
<1>5. RanOnce'
  BY <1>1 DEF StartInvariant, RanOnce
<1>6. ASSUME NEW e PROVE e \in Registered' <=> In(Linked, e)
  <2>1. Registered' = ToSet(Linked)
    BY <1>1, <1>2 DEF Registered
  <2>2. QED
    BY <2>1, SetOf, StartupAssumption
<1>7. QED
  BY <1>1, <1>2, <1>3, <1>4, <1>5, <1>6, RestartStep

(* A round of the inner loop. *)
LEMMA SortStep ==
    ASSUME StartInvariant, mi_startup_sort
    PROVE  StartInvariant'
<1>1. /\ xipp \in 1 .. Len(table) /\ xipp' = xipp + 1
      /\ table' = IF Skip(table[sipp], table[xipp]) THEN table
                  ELSE [table EXCEPT ![sipp] = table[xipp], ![xipp] = table[sipp]]
      /\ UNCHANGED <<newtable, sipp, inside, subsystem, added, ran>>
  BY DEF mi_startup_sort
<1>2. /\ table \in Seq(Entries) /\ subsystem \in [Entries -> Nat]
      /\ sipp \in 1 .. Len(table) /\ sipp < xipp /\ xipp \in Nat /\ xipp > 0 /\ ~ inside
      /\ Len(table) \in Nat /\ newtable = << >>
  BY SMTT(30), <1>1 DEF StartInvariant, StartType, Position
<1>3. \A k \in 1 .. Len(table) : table[k] \in Entries
  BY <1>2
<1>4. \A k, l \in 1 .. Len(table) :
         k < l /\ (k < sipp \/ (k = sipp /\ l < xipp)) => Skip(table[k], table[l])
  BY <1>2 DEF StartInvariant, RowsSorted
<1>5. \A a, b : Skip(a, b)' <=> Skip(a, b)
  BY <1>1 DEF Skip
<1>6. /\ table' \in Seq(Entries) /\ Len(table') = Len(table)
      /\ \A e : In(table', e) <=> In(table, e)
      /\ \A k, l \in 1 .. Len(table) :
            k < l /\ (k < sipp \/ (k = sipp /\ l < xipp + 1)) => Skip(table'[k], table'[l])
  <2>1. CASE Skip(table[sipp], table[xipp])
    <3>1. table' = table
      BY <1>1, <2>1
    <3>2. ASSUME NEW k \in 1 .. Len(table), NEW l \in 1 .. Len(table), k < l,
                 k < sipp \/ (k = sipp /\ l < xipp + 1)
          PROVE  Skip(table[k], table[l])
      <4>1. (k < sipp \/ (k = sipp /\ l < xipp)) \/ (k = sipp /\ l = xipp)
        BY <1>2, <3>2
      <4>2. QED
        BY <1>4, <2>1, <3>2, <4>1
    <3>3. QED
      BY <1>2, <3>1, <3>2
  <2>2. CASE ~ Skip(table[sipp], table[xipp])
    <3>1. PICK u : u = [table EXCEPT ![sipp] = table[xipp], ![xipp] = table[sipp]] /\ table' = u
      BY <1>1, <2>2
    <3>2. /\ u \in Seq(Entries) /\ Len(u) = Len(table) /\ \A e : In(u, e) <=> In(table, e)
          /\ \A k \in 1 .. Len(table) :
                u[k] = IF k = sipp THEN table[xipp] ELSE IF k = xipp THEN table[sipp] ELSE table[k]
      <4>1. xipp \in 1 .. Len(table) /\ sipp \in 1 .. Len(table) /\ sipp < xipp /\ table \in Seq(Entries)
        BY <1>1, <1>2
      <4>2. u = [table EXCEPT ![sipp] = table[xipp], ![xipp] = table[sipp]]
        BY <3>1
      <4>3. table \in [1 .. Len(table) -> Entries]
        BY <4>1
      <4>4. \A k \in 1 .. Len(table) :
               u[k] = IF k = sipp THEN table[xipp] ELSE IF k = xipp THEN table[sipp] ELSE table[k]
        BY <4>1, <4>2, <4>3
      <4>5. u \in [1 .. Len(table) -> Entries]
        BY <4>1, <4>2, <4>3
      <4>6. u \in Seq(Entries) /\ Len(u) = Len(table) /\ \A e : In(u, e) <=> In(table, e)
        <5>1. Len(table) \in Nat
          BY <4>1
        <5>2. u \in Seq(Entries) /\ Len(u) = Len(table)
          BY <4>5, <5>1
        <5>3. ASSUME NEW e PROVE In(u, e) <=> In(table, e)
          BY <4>1, <4>4, <5>2 DEF In
        <5>4. QED
          BY <5>2, <5>3
      <4>7. QED
        BY <4>4, <4>6
    <3>3. ASSUME NEW k \in 1 .. Len(table), NEW l \in 1 .. Len(table), k < l,
                 k < sipp \/ (k = sipp /\ l < xipp + 1)
          PROVE  Skip(u[k], u[l])
      <4>1. /\ xipp \in 1 .. Len(table) /\ sipp \in 1 .. Len(table) /\ sipp < xipp
            /\ Len(table) \in Nat /\ subsystem \in [Entries -> Nat]
        BY <1>1, <1>2
      <4>2. CASE k < sipp
        <5>1. u[k] = table[k]
          BY <4>1, <3>2, <4>2
        <5>2. PICK m \in 1 .. Len(table) : u[l] = table[m] /\ k < m
          BY <4>1, <3>2, <3>3, <4>2
        <5>3. QED
          BY <1>4, <4>2, <5>1, <5>2
      <4>3. CASE k = sipp /\ l = xipp
        <5>1. u[k] = table[xipp] /\ u[l] = table[sipp]
          BY <4>1, <3>2, <4>3
        <5>2. QED
          BY <4>1, <1>3, <2>2, <5>1, SkipOrders
      <4>4. CASE k = sipp /\ l < xipp
        <5>1. u[k] = table[xipp] /\ u[l] = table[l] /\ Skip(table[sipp], table[l])
          BY <4>1, <1>4, <3>2, <3>3, <4>4
        <5>2. Skip(table[xipp], table[sipp])
          BY <4>1, <1>3, <2>2, SkipOrders
        <5>3. QED
          BY <4>1, <1>3, <5>1, <5>2, SkipOrders
      <4>5. QED
        BY <3>3, <4>1, <4>2, <4>3, <4>4
    <3>4. QED
      BY <3>1, <3>2, <3>3
  <2>3. QED
    BY <2>1, <2>2
<1>7. StartType' /\ RanOnce' /\ Position'
  BY <1>1, <1>2, <1>6 DEF StartInvariant, StartType, RanOnce, Position
<1>8. CheckedOff'
  BY <1>1, <1>2 DEF StartInvariant, CheckedOff, In
<1>9. RowsSorted' /\ RunSorted'
  BY <1>1, <1>2, <1>5, <1>6 DEF RowsSorted, RunSorted
<1>10. AllListed'
  BY <1>1, <1>2, <1>6 DEF StartInvariant, AllListed, Registered
<1>11. QED
  BY <1>7, <1>8, <1>9, <1>10 DEF StartInvariant

(* The end of the inner loop. *)
LEMMA RowStep ==
    ASSUME StartInvariant, mi_startup_row
    PROVE  StartInvariant'
<1>1. /\ xipp > Len(table)
      /\ \/ sipp < Len(table) /\ sipp' = sipp + 1 /\ xipp' = sipp + 2
         \/ ~ (sipp < Len(table)) /\ sipp' = 1 /\ xipp' = 0
      /\ UNCHANGED <<table, newtable, inside, subsystem, added, ran>>
  BY DEF mi_startup_row
<1>2. /\ Len(table) \in Nat /\ xipp \in Nat /\ sipp \in Nat /\ xipp > 0 /\ sipp > 0 /\ sipp < xipp
      /\ ~ inside
  BY <1>1 DEF StartInvariant, StartType, Position
<1>3. \A k, l \in 1 .. Len(table) :
         k < l /\ (k < sipp \/ (k = sipp /\ l < xipp)) => Skip(table[k], table[l])
  BY <1>2 DEF StartInvariant, RowsSorted
<1>4. \A k, l \in 1 .. Len(table) : k < l /\ k <= sipp => Skip(table[k], table[l])
  BY <1>1, <1>2, <1>3
<1>5. \A a, b : Skip(a, b)' <=> Skip(a, b)
  BY <1>1 DEF Skip
<1>6. StartType' /\ RanOnce' /\ Position'
  <2>1. sipp' \in Nat /\ xipp' \in Nat /\ (xipp' > 0 => sipp' > 0 /\ sipp' < xipp') /\ sipp' # 0
    BY <1>1, <1>2
  <2>2. StartType' /\ RanOnce'
    BY <1>1, <2>1 DEF StartInvariant, StartType, RanOnce
  <2>3. QED
    BY <1>1, <1>2, <2>1, <2>2 DEF StartInvariant, Position
<1>7. CheckedOff'
  BY <1>1, <1>2 DEF StartInvariant, CheckedOff, In
<1>8. RowsSorted'
  BY <1>1, <1>2, <1>4, <1>5 DEF RowsSorted
<1>9. RunSorted'
  BY <1>1, <1>2, <1>4, <1>5 DEF RunSorted
<1>10. AllListed'
  BY <1>1, <1>2 DEF StartInvariant, AllListed, Registered, In
<1>11. QED
  BY <1>6, <1>7, <1>8, <1>9, <1>10 DEF StartInvariant

(* An entry that does not run is passed over. *)
LEMMA SkipStep ==
    ASSUME StartInvariant, mi_startup_skip
    PROVE  StartInvariant'
<1>1. /\ xipp = 0 /\ sipp \in 1 .. Len(table) /\ ~ inside /\ ~ Runs(table[sipp]) /\ sipp' = sipp + 1
      /\ UNCHANGED <<table, newtable, xipp, inside, subsystem, added, ran>>
  BY DEF mi_startup_skip
<1>2. Len(table) \in Nat /\ sipp \in Nat
  BY DEF StartInvariant, StartType
<1>3. StartType' /\ RanOnce' /\ Position' /\ RowsSorted'
  BY <1>1, <1>2 DEF StartInvariant, StartType, RanOnce, Position, RowsSorted
<1>4. CheckedOff'
  BY <1>1 DEF StartInvariant, CheckedOff, In
<1>5. RunSorted'
  <2>1. /\ \A k \in 1 .. Len(table) : k < sipp => ~ Runs(table[k])
        /\ \A k, l \in 1 .. Len(table) :
              /\ k < l /\ subsystem[table[k]] # SI_SUB_DONE /\ subsystem[table[l]] # SI_SUB_DONE
              => Skip(table[k], table[l])
    BY <1>1, <1>2 DEF StartInvariant, RunSorted
  <2>2. \A k \in 1 .. Len(table) : k < sipp + 1 => ~ Runs(table[k])
    BY <1>1, <1>2, <2>1
  <2>3. QED
    BY <1>1, <2>1, <2>2 DEF RunSorted, Runs, Skip
<1>6. AllListed'
  <2>1. /\ sipp > 0 /\ Registered' = Registered /\ newtable' = newtable
        /\ \A e : (In(table, e)' <=> In(table, e)) /\ (In(newtable, e)' <=> In(newtable, e))
    BY <1>1, <1>2 DEF Registered, In
  <2>2. QED
    BY <2>1 DEF StartInvariant, AllListed
<1>7. QED
  BY <1>3, <1>4, <1>5, <1>6 DEF StartInvariant

(* A routine is called: it has not run before. *)
LEMMA CallStep ==
    ASSUME StartInvariant, mi_startup_call
    PROVE  StartInvariant'
<1>1. /\ xipp = 0 /\ sipp \in 1 .. Len(table) /\ ~ inside /\ Runs(table[sipp]) /\ inside' = TRUE
      /\ ran' = Append(ran, table[sipp])
      /\ UNCHANGED <<table, newtable, sipp, xipp, subsystem, added>>
  BY DEF mi_startup_call
<1>2. PICK e \in Entries : e = table[sipp]
  BY <1>1 DEF StartInvariant, StartType
<1>3. /\ ran \in Seq(Entries) /\ Len(ran) \in Nat /\ ran' = Append(ran, e) /\ ran' \in Seq(Entries)
      /\ Len(ran') = Len(ran) + 1 /\ ran'[Len(ran) + 1] = e
      /\ \A k \in 1 .. Len(ran) : ran'[k] = ran[k]
  BY <1>1, <1>2 DEF StartInvariant, StartType
<1>4. ~ In(ran, e) /\ subsystem[e] = Subsystem[e] /\ Subsystem[e] # SI_SUB_DUMMY
  BY <1>1, <1>2 DEF StartInvariant, CheckedOff, Runs
<1>5. \A f : In(ran', f) <=> In(ran, f) \/ f = e
  BY <1>3 DEF In
<1>6. CheckedOff'
  <2>1. \A f \in Entries :
           /\ In(ran, f) => Subsystem[f] # SI_SUB_DUMMY
           /\ subsystem[f] = IF In(ran, f) THEN SI_SUB_DONE ELSE Subsystem[f]
    BY <1>1 DEF StartInvariant, CheckedOff
  <2>2. ASSUME NEW f \in Entries
        PROVE  /\ In(ran', f) => Subsystem[f] # SI_SUB_DUMMY
               /\ subsystem[f] = IF In(ran', f) /\ ~ (f = e) THEN SI_SUB_DONE ELSE Subsystem[f]
    BY <1>4, <1>5, <2>1
  <2>3. \A f : In(ran, f)' <=> In(ran', f)
    BY DEF In
  <2>4. QED
    BY <1>1, <1>2, <2>2, <2>3 DEF CheckedOff
<1>7. RanOnce'
  <2>1. \A k, l \in 1 .. Len(ran) : ran[k] = ran[l] => k = l
    BY DEF StartInvariant, RanOnce
  <2>2. \A k \in 1 .. Len(ran) : ran[k] # e
    BY <1>4 DEF In
  <2>3. QED
    BY <1>3, <2>1, <2>2 DEF RanOnce
<1>8. In(ran, table[sipp])'
  BY <1>1, <1>2, <1>3 DEF In
<1>9. StartType'
  BY <1>1, <1>3 DEF StartInvariant, StartType
<1>10. Position'
  BY <1>1, <1>8 DEF StartInvariant, Position
<1>11. RowsSorted' /\ RunSorted'
  BY <1>1 DEF StartInvariant, RowsSorted, RunSorted, Runs, Skip
<1>12. AllListed'
  BY <1>1 DEF StartInvariant, AllListed, Registered, In
<1>13. QED
  BY <1>6, <1>7, <1>9, <1>10, <1>11, <1>12 DEF StartInvariant

(* A routine adds entries. *)
LEMMA LoadStep ==
    ASSUME StartInvariant, NEW set \in ModuleSets, module_load(set)
    PROVE  StartInvariant'
<1>1. /\ inside /\ added' = added \cup {set}
      /\ newtable' = (IF newtable # << >> THEN newtable ELSE table) \o set
      /\ UNCHANGED <<table, sipp, xipp, inside, subsystem, ran>>
  BY DEF module_load, sysinit_add
<1>2. PICK t \in Seq(Entries) : /\ t = IF newtable # << >> THEN newtable ELSE table
                                /\ newtable' = t \o set
  BY <1>1 DEF StartInvariant, StartType
<1>3. set \in Seq(Entries) /\ Len(set) \in Nat /\ Len(set) > 0
  BY StartupAssumption
<1>4. /\ newtable' \in Seq(Entries) /\ Len(newtable') = Len(t) + Len(set) /\ Len(t) \in Nat
      /\ \A k \in 1 .. Len(t) : newtable'[k] = t[k]
      /\ \A k \in 1 .. Len(set) : newtable'[Len(t) + k] = set[k]
  BY <1>2, <1>3
<1>5. newtable' # << >>
  BY <1>3, <1>4
<1>6. ASSUME NEW e PROVE In(newtable', e) <=> In(t, e) \/ In(set, e)
  <2>1. In(t, e) => In(newtable', e)
    BY <1>3, <1>4 DEF In
  <2>2. In(set, e) => In(newtable', e)
    BY <1>3, <1>4 DEF In
  <2>3. ASSUME NEW k \in 1 .. Len(newtable') PROVE newtable'[k] = e => In(t, e) \/ In(set, e)
    <3>1. CASE k <= Len(t)
      BY <1>4, <3>1 DEF In
    <3>2. CASE k > Len(t)
      <4>1. k - Len(t) \in 1 .. Len(set) /\ newtable'[k] = set[k - Len(t)]
        BY SMTT(30), <1>3, <1>4, <3>2
      <4>2. QED
        BY <4>1 DEF In
    <3>3. QED
      BY <1>4, <3>1, <3>2
  <2>4. QED
    BY <2>1, <2>2, <2>3 DEF In
<1>7. sipp > 0
  BY <1>1 DEF StartInvariant, Position
<1>8. \A e : e \in Registered <=> In(t, e)
  BY <1>2, <1>7 DEF StartInvariant, AllListed
<1>9. \A e : e \in Registered' <=> e \in Registered \/ In(set, e)
  <2>1. \A e : e \in Registered' <=> e \in Registered \/ e \in ToSet(set)
    BY <1>1 DEF Registered
  <2>2. QED
    BY <1>3, <2>1, SetOf
<1>10. \A e : In(newtable, e)' <=> In(newtable', e)
  BY DEF In
<1>11. AllListed'
  BY <1>5, <1>6, <1>8, <1>9, <1>10 DEF AllListed
<1>12. StartType'
  BY <1>1, <1>4 DEF StartInvariant, StartType
<1>13. Position' /\ RanOnce'
  BY <1>1, <1>7 DEF StartInvariant, Position, In, RanOnce
<1>14. CheckedOff' /\ RowsSorted' /\ RunSorted'
  BY <1>1 DEF StartInvariant, CheckedOff, In, RowsSorted, RunSorted, Runs, Skip
<1>15. QED
  BY <1>11, <1>12, <1>13, <1>14 DEF StartInvariant

(* A routine has returned, and is checked off. *)
LEMMA ReturnStep ==
    ASSUME StartInvariant, mi_startup_return
    PROVE  StartInvariant'
<1>1. /\ inside /\ inside' = FALSE /\ newtable' = << >>
      /\ subsystem' = [subsystem EXCEPT ![table[sipp]] = SI_SUB_DONE]
      /\ \/ newtable = << >> /\ sipp' = sipp + 1 /\ UNCHANGED <<table, xipp>>
         \/ newtable # << >> /\ Restart(newtable)
      /\ UNCHANGED <<added, ran>>
  BY DEF mi_startup_return
<1>2. /\ xipp = 0 /\ sipp \in 1 .. Len(table) /\ sipp \in Nat /\ Len(table) \in Nat
      /\ subsystem \in [Entries -> Nat] /\ table \in Seq(Entries) /\ newtable \in Seq(Entries)
  BY <1>1 DEF StartInvariant, StartType, Position
<1>3. PICK e \in Entries : e = table[sipp] /\ In(ran, e)
  BY <1>1, <1>2 DEF StartInvariant, Position
<1>4. /\ subsystem' \in [Entries -> Nat]
      /\ \A f \in Entries : subsystem'[f] = IF f = e THEN SI_SUB_DONE ELSE subsystem[f]
  BY <1>1, <1>2, <1>3 DEF SI_SUB_DONE
<1>5. CheckedOff'
  <2>1. \A f \in Entries :
           /\ In(ran, f) => Subsystem[f] # SI_SUB_DUMMY
           /\ subsystem[f] = IF In(ran, f) /\ ~ (f = e) THEN SI_SUB_DONE ELSE Subsystem[f]
    BY <1>1, <1>3 DEF StartInvariant, CheckedOff
  <2>2. \A f \in Entries : subsystem'[f] = IF In(ran, f) THEN SI_SUB_DONE ELSE Subsystem[f]
    BY <1>3, <1>4, <2>1
  <2>3. \A f : In(ran, f)' <=> In(ran, f)
    BY <1>1 DEF In
  <2>4. QED
    BY <1>1, <2>1, <2>2, <2>3 DEF CheckedOff
<1>6. RanOnce'
  BY <1>1 DEF StartInvariant, RanOnce
<1>7. Registered' = Registered
  BY <1>1 DEF Registered
<1>8. CASE newtable # << >> /\ Restart(newtable)
  <2>1. StartType'
    <3>1. newtable' \in Seq(Entries)
      BY <1>1, EmptySeq
    <3>2. table' = newtable /\ sipp' = 1 /\ xipp' = 2
      BY <1>8 DEF Restart
    <3>3. QED
      BY <1>1, <1>2, <1>4, <3>1, <3>2 DEF StartInvariant, StartType
  <2>2. \A f : f \in Registered' <=> In(newtable, f)
    BY <1>2, <1>7, <1>8 DEF StartInvariant, AllListed
  <2>3. QED
    BY <1>1, <1>5, <1>6, <1>8, <2>1, <2>2, RestartStep
<1>9. CASE newtable = << >> /\ sipp' = sipp + 1 /\ UNCHANGED <<table, xipp>>
  <2>1. StartType' /\ Position' /\ RowsSorted'
    <3>1. newtable' \in Seq(Entries)
      BY <1>1, EmptySeq
    <3>2. /\ table' = table /\ xipp' = 0 /\ sipp' \in Nat /\ sipp' > 0 /\ ~ inside' /\ newtable' = << >>
          /\ ran' = ran /\ added' = added
      BY <1>1, <1>2, <1>9
    <3>3. StartType'
      BY <1>1, <1>4, <3>1, <3>2 DEF StartInvariant, StartType
    <3>4. QED
      BY <3>2, <3>3 DEF Position, RowsSorted
  <2>2. AllListed'
    BY <1>1, <1>2, <1>7, <1>9 DEF StartInvariant, AllListed, In
  <2>3. /\ \A k \in 1 .. Len(table) : k < sipp => ~ Runs(table[k])
        /\ \A k, l \in 1 .. Len(table) :
              /\ k < l /\ subsystem[table[k]] # SI_SUB_DONE /\ subsystem[table[l]] # SI_SUB_DONE
              => Skip(table[k], table[l])
        /\ \A k \in 1 .. Len(table) : table[k] \in Entries
    BY <1>2 DEF StartInvariant, RunSorted
  <2>4. \A k \in 1 .. Len(table) : k < sipp + 1 => ~ Runs(table[k])'
    BY <1>2, <1>3, <1>4, <1>9, <2>3 DEF Runs
  <2>5. ASSUME NEW k \in 1 .. Len(table), NEW l \in 1 .. Len(table),
               k < l, subsystem'[table[k]] # SI_SUB_DONE, subsystem'[table[l]] # SI_SUB_DONE
        PROVE  Skip(table[k], table[l])'
    <3>1. /\ subsystem'[table[k]] = subsystem[table[k]] /\ subsystem'[table[l]] = subsystem[table[l]]
      BY <1>4, <2>3, <2>5
    <3>2. Skip(table[k], table[l])
      BY <2>3, <2>5, <3>1
    <3>3. QED
      BY <1>9, <3>1, <3>2 DEF Skip
  <2>6. RunSorted'
    BY <1>9, <2>4, <2>5 DEF RunSorted
  <2>7. QED
    BY <1>5, <1>6, <2>1, <2>2, <2>6 DEF StartInvariant
<1>10. QED
  BY <1>1, <1>8, <1>9

(* Every entry that is linked, or added by a routine that runs, is run     *)
(* once, and none before one that belongs before it, for every table,      *)
(* every order of the keys and every moment at which entries are added.    *)
THEOREM EachStartedOnce ==
    StartSpec => []StartedOnce
<1>1. StartInit => StartInvariant
  <2>1. SUFFICES ASSUME StartInit PROVE StartInvariant
    OBVIOUS
  <2>2. /\ table = << >> /\ newtable = << >> /\ sipp = 0 /\ xipp = 0 /\ inside = FALSE
        /\ subsystem = Subsystem /\ added = {} /\ ran = << >>
    BY <2>1 DEF StartInit
  <2>3. StartType
    <3>1. table \in Seq(Entries) /\ newtable \in Seq(Entries) /\ ran \in Seq(Entries)
      BY <2>2, EmptySeq
    <3>2. Subsystem \in [Entries -> Nat]
      BY StartupAssumption
    <3>3. QED
      BY <2>2, <3>1, <3>2 DEF StartType
  <2>4. \A e : ~ In(ran, e)
    BY <2>2 DEF In
  <2>5. QED
    BY <2>2, <2>3, <2>4 DEF StartInvariant, CheckedOff, Position, RowsSorted, RunSorted, AllListed, RanOnce
<1>2. StartInvariant /\ [StartNext]_startVars => StartInvariant'
  <2>1. SUFFICES ASSUME StartInvariant, [StartNext]_startVars PROVE StartInvariant'
    OBVIOUS
  <2>2. CASE UNCHANGED startVars
    <3>1. /\ table' = table /\ newtable' = newtable /\ sipp' = sipp /\ xipp' = xipp /\ inside' = inside
          /\ subsystem' = subsystem /\ added' = added /\ ran' = ran
      BY <2>2 DEF startVars
    <3>2. Registered' = Registered
      BY <3>1 DEF Registered
    <3>3. StartType' /\ RanOnce' /\ Position'
      BY <2>1, <3>1 DEF StartInvariant, StartType, RanOnce, Position, In
    <3>4. CheckedOff'
      BY <2>1, <3>1 DEF StartInvariant, CheckedOff, In
    <3>5. RowsSorted' /\ RunSorted'
      BY <2>1, <3>1 DEF StartInvariant, RowsSorted, RunSorted, Runs, Skip
    <3>6. AllListed'
      BY <2>1, <3>1, <3>2 DEF StartInvariant, AllListed, In
    <3>7. QED
      BY <3>3, <3>4, <3>5, <3>6 DEF StartInvariant
  <2>3. QED
    BY <2>1, <2>2, FirstStep, SortStep, RowStep, SkipStep, CallStep, LoadStep, ReturnStep DEF StartNext
<1>3. StartInvariant => StartedOnce
  <2>1. SUFFICES ASSUME StartInvariant PROVE StartedOnce
    OBVIOUS
  <2>2. /\ table \in Seq(Entries) /\ ran \in Seq(Entries) /\ newtable \in Seq(Entries)
        /\ Len(table) \in Nat /\ sipp \in Nat
        /\ \A k \in 1 .. Len(table) : table[k] \in Entries
        /\ DOMAIN ran = 1 .. Len(ran)
    BY <2>1 DEF StartInvariant, StartType
  <2>3. \A e : (e \in ToSet(ran) <=> In(ran, e)) /\ (e \in ToSet(table) <=> In(table, e))
    BY <2>2, SetOf
  <2>4. IsInjective(ran)
    BY <2>1, <2>2 DEF IsInjective, StartInvariant, RanOnce
  <2>5. ASSUME inside, NEW e, In(table, e), Before(e, table[sipp]), Subsystem[e] # SI_SUB_DUMMY
        PROVE  In(ran, e)
    <3>1. xipp = 0 /\ sipp \in 1 .. Len(table) /\ sipp > 0
      BY <2>1, <2>2, <2>5 DEF StartInvariant, Position
    <3>2. PICK k \in 1 .. Len(table) : table[k] = e
      BY <2>5 DEF In
    <3>3. PICK a \in Entries : a = table[sipp]
      BY <2>2, <3>1
    <3>4. e \in Entries /\ e # a /\ Before(e, a)
      BY <2>2, <2>5, <3>2, <3>3, StartupAssumption DEF Before
    <3>5. SUFFICES ASSUME ~ In(ran, e) PROVE FALSE
      OBVIOUS
    <3>6. subsystem[e] = Subsystem[e] /\ subsystem[a] = Subsystem[a]
      BY <2>1, <2>5, <3>3, <3>4, <3>5 DEF StartInvariant, CheckedOff
    <3>7. /\ Subsystem[e] \in Nat /\ Subsystem[a] \in Nat /\ Order[e] \in Nat /\ Order[a] \in Nat
          /\ Subsystem[e] # SI_SUB_DONE /\ Subsystem[a] # SI_SUB_DONE
      BY <3>4, StartupAssumption
    <3>8. Runs(e)
      BY <2>5, <3>6, <3>7 DEF Runs
    <3>9. ~ (k < sipp) /\ k # sipp
      BY <2>1, <3>1, <3>2, <3>3, <3>4, <3>8 DEF StartInvariant, RunSorted
    <3>10. Skip(a, e)
      BY <2>1, <2>2, <3>1, <3>2, <3>3, <3>6, <3>7, <3>9, SMTT(60) DEF StartInvariant, RunSorted
    <3>11. QED
      BY <3>4, <3>6, <3>7, <3>10 DEF Skip, Before
  <2>6. ASSUME sipp > Len(table), sipp > 0, xipp = 0, NEW e \in Registered
        PROVE  In(ran, e) <=> Subsystem[e] # SI_SUB_DUMMY
    <3>1. ~ inside /\ newtable = << >>
      BY <2>1, <2>2, <2>6 DEF StartInvariant, StartType, Position
    <3>2. PICK k \in 1 .. Len(table) : table[k] = e
      BY <2>1, <2>6, <3>1 DEF StartInvariant, AllListed, In
    <3>3. e \in Entries /\ ~ Runs(e)
      BY <2>1, <2>2, <2>6, <3>2 DEF StartInvariant, RunSorted
    <3>4. Subsystem[e] # SI_SUB_DONE
      BY <3>3, StartupAssumption
    <3>5. QED
      BY <2>1, <3>1, <3>3, <3>4 DEF StartInvariant, CheckedOff, Runs
  <2>7. QED
    BY <2>3, <2>4, <2>5, <2>6 DEF StartedOnce, OnceInOrder, NoneForgotten
<1>4. QED
  BY <1>1, <1>2, <1>3, PTL DEF StartSpec

-----------------------------------------------------------------------------
(* The addresses of an interface.                                          *)

(* One more address that parses. *)
Taken(s, v) == IF v[2] THEN Append(s, v[1]) ELSE s

LEMMA TakenElements ==
    ASSUME NEW s \in Seq(Nat), NEW v \in Nat \X BOOLEAN
    PROVE  /\ Taken(s, v) \in Seq(Nat)
           /\ ToSet(Taken(s, v)) = ToSet(s) \cup {x \in {v[1]} : v[2]}
<1>1. CASE v[2]
  <2>1. PICK a \in Nat : a = v[1]
    OBVIOUS
  <2>2. PICK t \in Seq(Nat) : t = Append(s, a) /\ Len(t) = Len(s) + 1 /\ t[Len(s) + 1] = a
                              /\ \A i \in 1 .. Len(s) : t[i] = s[i]
    <3>1. Append(s, a) \in Seq(Nat) /\ Len(Append(s, a)) = Len(s) + 1 /\ Append(s, a)[Len(s) + 1] = a
          /\ \A i \in 1 .. Len(s) : Append(s, a)[i] = s[i]
      OBVIOUS
    <3>2. QED
      BY <3>1
  <2>3. Len(s) \in Nat
    OBVIOUS
  <2>4. \A x : x \in ToSet(s) <=> \E i \in 1 .. Len(s) : s[i] = x
    BY FewElements
  <2>5. \A x : x \in ToSet(t) <=> \E i \in 1 .. Len(t) : t[i] = x
    BY FewElements
  <2>6. ASSUME NEW x PROVE x \in ToSet(t) <=> x \in ToSet(s) \/ x = a
    <3>1. ASSUME x \in ToSet(t) PROVE x \in ToSet(s) \/ x = a
      <4>1. PICK i \in 1 .. Len(t) : t[i] = x
        BY <2>5, <3>1
      <4>2. CASE i = Len(s) + 1
        BY <2>2, <4>1, <4>2
      <4>3. CASE i # Len(s) + 1
        <5>1. i \in 1 .. Len(s)
          BY <2>2, <2>3, <4>3
        <5>2. QED
          BY <2>2, <2>4, <4>1, <5>1
      <4>4. QED
        BY <4>2, <4>3
    <3>2. ASSUME x \in ToSet(s) PROVE x \in ToSet(t)
      <4>1. PICK i \in 1 .. Len(s) : s[i] = x
        BY <2>4, <3>2
      <4>2. i \in 1 .. Len(t) /\ t[i] = x
        BY <2>2, <2>3, <4>1
      <4>3. QED
        BY <2>5, <4>2
    <3>3. a \in ToSet(t)
      <4>1. Len(s) + 1 \in 1 .. Len(t)
        BY <2>2, <2>3
      <4>2. QED
        BY <2>2, <2>5, <4>1
    <3>4. QED
      BY <3>1, <3>2, <3>3
  <2>7. Taken(s, v) = t /\ {x \in {v[1]} : v[2]} = {a}
    BY <1>1, <2>1, <2>2 DEF Taken
  <2>8. QED
    BY <2>6, <2>7
<1>2. CASE ~ v[2]
  BY <1>2 DEF Taken
<1>3. QED
  BY <1>1, <1>2

(* The addresses that are kept are those that can be read. *)
LEMMA ParsedReadable ==
    ASSUME NEW list \in Seq(Nat \X BOOLEAN)
    PROVE  ToSet(Parsed(list)) = Readable(list)
<1> DEFINE Fold(g) == [n \in 0 .. Len(list) |->
                          IF n = 0 THEN << >>
                          ELSE IF list[n][2] THEN Append(g[n - 1], list[n][1]) ELSE g[n - 1]]
<1> DEFINE upto == CHOOSE g : g = Fold(g)
<1> DEFINE Step(g) == [n \in 0 .. Len(list) |-> IF n = 0 THEN << >> ELSE Taken(g[n - 1], list[n])]
<1>1. Parsed(list) = upto[Len(list)]
  BY Zenon DEF Parsed
<1>2. \A g : Fold(g) = Step(g)
  BY Zenon DEF Taken
<1>3. PICK N \in Nat : N = Len(list)
  BY LenProperties
<1>4. \A n \in 1 .. N : list[n] \in Nat \X BOOLEAN
  BY <1>3, ElementOfSeq
<1>5. PICK B : B = Seq(Nat)
  OBVIOUS
<1>6. PICK e \in B : e = << >>
  <2>1. << >> \in B
    BY <1>5
  <2>2. QED
    BY <2>1, Zenon
<1>7. PICK G \in [1 .. N -> [B -> B]] : G = [n \in 1 .. N |-> [s \in B |-> Taken(s, list[n])]]
  <2>1. \A n \in 1 .. N : \A s \in B : Taken(s, list[n]) \in B
    BY <1>4, <1>5, TakenElements
  <2>2. \A n \in 1 .. N : [s \in B |-> Taken(s, list[n])] \in [B -> B]
    BY <2>1
  <2>3. QED
    BY <2>2
<1>8. PICK f : Recurs(f, B, N, e, G)
  BY Recursion
<1>9. f \in [0 .. N -> B] /\ f[0] = << >>
  BY <1>6, <1>8 DEF Recurs
<1>10. ASSUME NEW n \in 1 .. N PROVE f[n - 1] \in B /\ f[n] = Taken(f[n - 1], list[n])
  <2>1. PICK s \in B : s = f[n - 1]
    BY <1>9
  <2>2. G[n][s] = Taken(s, list[n])
    BY <1>7
  <2>3. QED
    BY <1>8, <2>1, <2>2 DEF Recurs
<1> HIDE DEF Fold
<1>11. f = Step(f)
  <2>1. f = [n \in 0 .. N |-> f[n]]
    BY <1>9
  <2>2. \A n \in 0 .. N : n # 0 => n \in 1 .. N
    OBVIOUS
  <2>3. QED
    BY <1>3, <1>9, <1>10, <2>1, <2>2
<1>12. upto = Fold(upto)
  <2>1. f = Fold(f)
    BY <1>2, <1>11
  <2>2. QED
    BY <2>1
<1> HIDE DEF upto
<1>13. upto = Step(upto)
  BY <1>2, <1>12
<1>14. upto[N] = f[N]
  <2>1. \A n \in 0 .. N : upto[n] = IF n = 0 THEN << >> ELSE Taken(upto[n - 1], list[n])
    BY <1>3, <1>13, Zenon
  <2>2. 0 \in 0 .. N /\ \A n \in 1 .. N : n \in 0 .. N /\ n # 0
    OBVIOUS
  <2>3. upto[0] = f[0] /\ \A n \in 1 .. N : upto[n - 1] = f[n - 1] => upto[n] = f[n]
    BY <1>9, <1>10, <2>1, <2>2, Zenon
  <2>4. QED
    BY <2>3, SameRecursion
<1> DEFINE Read(n) == {x \in Nat : \E i \in 1 .. n : list[i][2] /\ list[i][1] = x}
<1> DEFINE T == {n \in Nat : n <= N => ToSet(f[n]) = Read(n)}
<1>15. 0 \in T
  <2>1. ToSet(f[0]) = {}
    BY <1>9 DEF ToSet
  <2>2. QED
    BY <2>1
<1>16. ASSUME NEW n \in Nat, n \in T PROVE n + 1 \in T
  <2>1. SUFFICES ASSUME n + 1 <= N PROVE ToSet(f[n + 1]) = Read(n + 1)
    OBVIOUS
  <2>2. ToSet(f[n]) = Read(n)
    BY <1>16, <2>1
  <2>3. PICK s \in Seq(Nat), v \in Nat \X BOOLEAN : s = f[n] /\ v = list[n + 1] /\ f[n + 1] = Taken(s, v)
    <3>1. n + 1 \in 1 .. N /\ (n + 1) - 1 = n
      BY <2>1
    <3>2. f[(n + 1) - 1] \in B /\ f[n + 1] = Taken(f[(n + 1) - 1], list[n + 1]) /\ list[n + 1] \in Nat \X BOOLEAN
      BY <1>4, <1>10, <3>1
    <3>3. QED
      BY <1>5, <3>1, <3>2
  <2>4. ToSet(f[n + 1]) = Read(n) \cup {x \in {v[1]} : v[2]}
    <3> HIDE DEF Read
    <3>1. ToSet(Taken(s, v)) = ToSet(s) \cup {x \in {v[1]} : v[2]}
      BY TakenElements, Zenon
    <3>2. QED
      BY <2>2, <2>3, <3>1, Zenon
  <2>5. 1 .. n + 1 = (1 .. n) \cup {n + 1}
    OBVIOUS
  <2>6. ASSUME NEW x PROVE x \in Read(n + 1) <=> x \in Read(n) \/ (x = v[1] /\ v[2])
    <3>1. v[1] \in Nat
      OBVIOUS
    <3>2. x \in Read(n + 1) <=> x \in Nat /\ \E i \in (1 .. n) \cup {n + 1} : list[i][2] /\ list[i][1] = x
      BY <2>5
    <3>3. x \in Read(n) <=> x \in Nat /\ \E i \in 1 .. n : list[i][2] /\ list[i][1] = x
      OBVIOUS
    <3> HIDE DEF Read
    <3>4. QED
      BY <2>3, <3>1, <3>2, <3>3, Zenon
  <2>7. QED
    BY <2>4, <2>6
<1> HIDE DEF T, Read
<1>17. N \in T
  BY <1>15, <1>16, SetInduction
<1>18. ToSet(Parsed(list)) = Read(N)
  BY <1>1, <1>3, <1>14, <1>17 DEF T
<1>19. Read(N) = Readable(list)
  <2>1. \A v : v \in ToSet(list) <=> \E i \in 1 .. N : list[i] = v
    BY <1>3, FewElements
  <2>2. ASSUME NEW x PROVE x \in Readable(list) <=> x \in Read(N)
    <3>1. x \in Readable(list) <=> \E v \in ToSet(list) : v[2] /\ v[1] = x
      BY DEF Readable
    <3>2. x \in Read(N) <=> x \in Nat /\ \E i \in 1 .. N : list[i][2] /\ list[i][1] = x
      BY DEF Read
    <3>3. \A i \in 1 .. N : list[i][1] \in Nat
      BY <1>4
    <3>4. QED
      BY <2>1, <3>1, <3>2, <3>3
  <2>3. QED
    BY <2>2
<1>20. QED
  BY <1>18, <1>19

(* The mask of a prefix has its first n bits. *)
LEMMA MaskOfPrefix ==
    ASSUME NEW n \in 0 .. AddrBits, NEW b \in 1 .. AddrBits
    PROVE  PrefixMask(n)[b] = 1 <=> b <= n
<1>1. PICK w \in Nat, m \in Nat : w = ByteBits /\ w > 0 /\ m = AddrBits
  BY VethAssumption
<1>2. PICK c \in Nat : c = b - 1
  BY <1>1
<1>3. PICK q \in Int, r \in 0 .. w - 1 : q = c \div w /\ r = c % w /\ c = w * q + r
  BY <1>1, DivMod
<1>4. PICK k \in Int, s \in 0 .. w - 1 : k = n \div w /\ s = n % w /\ n = w * k + s
  <2>1. n \in Int
    BY <1>1
  <2>2. QED
    BY <1>1, <2>1, DivMod
<1>5. PICK x \in Int, y \in Int : x = w * q /\ y = w * k
  OBVIOUS
<1>6. PrefixMask(n)[b] = IF q < k THEN 1 ELSE IF q = k /\ r < s THEN 1 ELSE 0
  BY <1>2, <1>3, <1>4, <1>1 DEF PrefixMask
<1>7. c = x + r /\ n = y + s
  BY <1>3, <1>4, <1>5
<1>8. CASE q < k
  <2>1. PICK d \in Nat : k = q + 1 + d
    <3>1. k - q - 1 \in Nat /\ k = q + 1 + (k - q - 1)
      BY <1>8
    <3>2. QED
      BY <3>1
  <2>2. w * k = w * q + w + w * d /\ w * d \in Nat
    BY <2>1
  <2>3. y >= x + w
    BY <1>5, <2>2
  <2>4. c < n
    BY <1>1, <1>7, <2>3
  <2>5. QED
    BY <1>1, <1>2, <1>6, <1>8, <2>4
<1>9. CASE q = k
  <2>1. x = y
    BY <1>5, <1>9
  <2>2. c < n <=> r < s
    BY <1>1, <1>7, <2>1
  <2>3. QED
    BY <1>1, <1>2, <1>6, <1>9, <2>2
<1>10. CASE q > k
  <2>1. PICK d \in Nat : q = k + 1 + d
    <3>1. q - k - 1 \in Nat /\ q = k + 1 + (q - k - 1)
      BY <1>10
    <3>2. QED
      BY <3>1
  <2>2. w * q = w * k + w + w * d /\ w * d \in Nat
    BY <2>1
  <2>3. x >= y + w
    BY <1>5, <2>2
  <2>4. c >= n
    BY <1>1, <1>7, <2>3
  <2>5. QED
    BY <1>1, <1>2, <1>6, <1>10, <2>4
<1>11. QED
  BY <1>8, <1>9, <1>10

(* The prefix that an interface is given. *)
PrefixGiven(asked) == IF asked = 0 THEN DefaultPrefix ELSE asked

(* What holds of an attachment: the addresses it was given, refused or     *)
(* not, are those of its configuration, with the prefix it asked for.      *)
IfInvariant ==
    /\ DOMAIN ifc = DOMAIN NoIf
    /\ ifc.at \in {"setup", "addr", "attached"} =>
          ifc.asked \in PrefixLens /\ (ifc.ip6 => ifc.prefix = PrefixGiven(ifc.asked))
    /\ ifc.at = "attached" => ifc.addrs \cup ifc.refused = AddressesOf(ifc.ip6, ifc.gw6, ifc.prefix)
    /\ ifc.at = "failed" => ~ ifc.softc /\ ~ ifc.ctx

LEMMA AddressesRight ==
    IfInvariant => AddressesSet
<1> SUFFICES ASSUME IfInvariant PROVE AddressesSet
  OBVIOUS
<1>1. SUFFICES ASSUME ifc.at = "attached"
               PROVE  /\ VirtualOf("vip") = Readable(Vips)
                      /\ VirtualOf("vip6") = Readable(Vips6)
                      /\ \A a \in ifc.addrs :
                            a[1] = "ip6" => \A b \in 1 .. AddrBits : (a[2][b] = 1) <=> b <= PrefixGiven(ifc.asked)
  BY DEF AddressesSet, IfInvariant, PrefixGiven
<1>2. PICK A, V, V6, M, G, G6 :
         /\ A = ifc.addrs \cup ifc.refused
         /\ V = ToSet(Parsed(Vips)) /\ V6 = ToSet(Parsed(Vips6)) /\ M = PrefixMask(ifc.prefix)
         /\ G = (IF ifc.ip6 THEN lazybsd_veth_setaddr6(ifc.prefix) ELSE {})
         /\ G6 = (IF ifc.ip6 /\ ifc.gw6 THEN lazybsd_veth_set_gateway6 ELSE {})
  BY Zenon
<1>3. /\ A = {<< "ip" >>} \cup {<< "gateway" >>} \cup {<< "vip", v >> : v \in V} \cup G \cup G6
             \cup {<< "vip6", v, M >> : v \in V6}
      /\ G = IF ifc.ip6 THEN {<< "ip6", M >>} ELSE {}
      /\ G6 \in SUBSET {<< "gateway6" >>}
  <2>1. A = AddressesOf(ifc.ip6, ifc.gw6, ifc.prefix)
    BY <1>1, <1>2 DEF IfInvariant
  <2>2. /\ G = IF ifc.ip6 THEN {<< "ip6", M >>} ELSE {}
        /\ G6 \in SUBSET {<< "gateway6" >>}
    BY <1>2 DEF lazybsd_veth_setaddr6, lazybsd_veth_set_gateway6
  <2>3. QED
    BY <1>2, <2>1, <2>2, Zenon DEF AddressesOf, lazybsd_veth_setaddr, lazybsd_veth_set_gateway, lazybsd_veth_setvaddr,
                  lazybsd_veth_setvaddr6
<1>4. VirtualOf("vip") = V
  <2>1. \A a \in A : a[1] = "vip" <=> \E v \in V : a = << "vip", v >>
    BY <1>3
  <2>2. \A v \in V : << "vip", v >> \in A
    BY <1>3
  <2>3. ASSUME NEW x PROVE x \in VirtualOf("vip") <=> x \in V
    <3>1. x \in VirtualOf("vip") <=> \E a \in A : a[1] = "vip" /\ a[2] = x
      BY <1>2 DEF VirtualOf
    <3>2. \A v : << "vip", v >>[1] = "vip" /\ << "vip", v >>[2] = v
      OBVIOUS
    <3>3. QED
      BY <2>1, <2>2, <3>1, <3>2
  <2>4. QED
    BY <2>3
<1>5. VirtualOf("vip6") = V6
  <2>1. \A a \in A : a[1] = "vip6" <=> \E v \in V6 : a = << "vip6", v, M >>
    BY <1>3
  <2>2. \A v \in V6 : << "vip6", v, M >> \in A
    BY <1>3
  <2>3. ASSUME NEW x PROVE x \in VirtualOf("vip6") <=> x \in V6
    <3>1. x \in VirtualOf("vip6") <=> \E a \in A : a[1] = "vip6" /\ a[2] = x
      BY <1>2 DEF VirtualOf
    <3>2. \A v : << "vip6", v, M >>[1] = "vip6" /\ << "vip6", v, M >>[2] = v
      OBVIOUS
    <3>3. QED
      BY <2>1, <2>2, <3>1, <3>2
  <2>4. QED
    BY <2>3
<1>6. V = Readable(Vips) /\ V6 = Readable(Vips6)
  BY <1>2, VethAssumption, ParsedReadable
<1>7. ASSUME NEW a \in ifc.addrs, a[1] = "ip6", NEW b \in 1 .. AddrBits
      PROVE  a[2][b] = 1 <=> b <= PrefixGiven(ifc.asked)
  <2>1. a \in A
    BY <1>2
  <2>2. ifc.ip6 /\ a = << "ip6", M >>
    BY <1>3, <1>7, <2>1
  <2>3. a[2] = PrefixMask(PrefixGiven(ifc.asked)) /\ ifc.asked \in PrefixLens
    BY <1>1, <1>2, <2>2 DEF IfInvariant
  <2>4. PrefixGiven(ifc.asked) \in 0 .. AddrBits
    <3>1. AddrBits \in Nat /\ DefaultPrefix \in Nat /\ DefaultPrefix <= AddrBits /\ PrefixLens \subseteq 0 .. AddrBits
      BY VethAssumption
    <3>2. PICK asked \in 0 .. AddrBits : asked = ifc.asked
      BY <2>3, <3>1
    <3>3. PrefixGiven(asked) \in 0 .. AddrBits
      BY <3>1 DEF PrefixGiven
    <3>4. QED
      BY <3>2, <3>3
  <2>5. QED
    BY <2>3, <2>4, MaskOfPrefix
<1>8. QED
  BY <1>4, <1>5, <1>6, <1>7

LEMMA IfInvariantNext ==
    IfInvariant /\ [VethNext]_vethVars => IfInvariant'
<1> SUFFICES ASSUME IfInvariant, [VethNext]_vethVars PROVE IfInvariant'
  OBVIOUS
<1>1. ASSUME UNCHANGED ifc PROVE IfInvariant'
  BY <1>1 DEF IfInvariant, NoIf
<1>2. CASE InputNext
  BY <1>1, <1>2 DEF InputNext, lazybsd_veth_input, lazybsd_mbuf_gethdr, lazybsd_mbuf_get,
     lazybsd_veth_process_packet, stack_free
<1>3. CASE ZcNext
  BY <1>1, <1>3 DEF ZcNext, lazybsd_zc_mbuf_get, lazybsd_zc_mbuf_write, zc_mbuf_sent
<1>4. ASSUME NEW ip6 \in BOOLEAN, NEW gw6 \in BOOLEAN, NEW prefix \in PrefixLens, lazybsd_veth_attach(ip6, gw6, prefix)
      PROVE  IfInvariant'
  <2>1. PICK pf : pf = IF ~ ip6 THEN 0 ELSE PrefixGiven(prefix)
    OBVIOUS
  <2>2. ifc' = [NoIf EXCEPT !.at = "setup", !.softc = TRUE, !.asked = prefix, !.ip6 = ip6, !.gw6 = gw6, !.prefix = pf]
    BY <1>4, <2>1 DEF lazybsd_veth_attach, PrefixGiven
  <2>3. ifc' = [at |-> "setup", softc |-> TRUE, ctx |-> FALSE, prefix |-> pf, asked |-> prefix, ip6 |-> ip6,
                gw6 |-> gw6, addrs |-> {}, refused |-> {}]
    BY <2>2 DEF NoIf
  <2>4. DOMAIN ifc' = DOMAIN NoIf /\ ifc'.at = "setup" /\ ifc'.asked = prefix /\ ifc'.prefix = pf /\ ifc'.ip6 = ip6
    BY <2>3 DEF NoIf
  <2>5. ifc'.ip6 => ifc'.prefix = PrefixGiven(ifc'.asked)
    BY <2>1, <2>4, Zenon
  <2>6. QED
    BY <2>4, <2>5 DEF IfInvariant, NoIf
<1>5. CASE register_if
  <2>1. DOMAIN ifc = DOMAIN NoIf /\ DOMAIN NoIf = {"at", "softc", "ctx", "prefix", "asked", "ip6", "gw6", "addrs", "refused"}
    BY DEF IfInvariant, NoIf
  <2>2. CASE ifc.at = "setup" /\ ifc' = [ifc EXCEPT !.at = "addr", !.ctx = TRUE]
    <3>1. DOMAIN ifc' = DOMAIN ifc /\ ifc'.at = "addr"
      BY <2>1, <2>2
    <3>2. ifc'.asked = ifc.asked /\ ifc'.prefix = ifc.prefix /\ ifc'.ip6 = ifc.ip6
      BY <2>1, <2>2, Zenon
    <3>3. ifc.asked \in PrefixLens /\ (ifc.ip6 => ifc.prefix = PrefixGiven(ifc.asked))
      BY <2>2 DEF IfInvariant
    <3>4. ifc'.asked \in PrefixLens /\ (ifc'.ip6 => ifc'.prefix = PrefixGiven(ifc'.asked))
      BY <3>2, <3>3, Zenon
    <3>5. QED
      BY <2>1, <3>1, <3>4 DEF IfInvariant, NoIf
  <2>3. CASE ifc' = [NoIf EXCEPT !.at = "failed"]
    BY <2>3 DEF IfInvariant, NoIf
  <2>4. QED
    BY <1>5, <2>2, <2>3 DEF register_if
<1>6. CASE lazybsd_veth_setup_interface
  <2>1. DOMAIN ifc = DOMAIN NoIf /\ DOMAIN NoIf = {"at", "softc", "ctx", "prefix", "asked", "ip6", "gw6", "addrs", "refused"}
    BY DEF IfInvariant, NoIf
  <2>2. PICK given : given = AddressesOf(ifc.ip6, ifc.gw6, ifc.prefix)
    OBVIOUS
  <2>3. PICK refused \in SUBSET given :
           ifc.at = "addr" /\ ifc' = [ifc EXCEPT !.at = "attached", !.refused = refused, !.addrs = given \ refused]
    BY <1>6, <2>2 DEF lazybsd_veth_setup_interface
  <2>4. DOMAIN ifc' = DOMAIN ifc /\ ifc'.at = "attached" /\ ifc'.refused = refused /\ ifc'.addrs = given \ refused
    BY <2>1, <2>3
  <2>5. ifc'.asked = ifc.asked /\ ifc'.prefix = ifc.prefix /\ ifc'.ip6 = ifc.ip6 /\ ifc'.gw6 = ifc.gw6
    BY <2>1, <2>3, Zenon
  <2>6. ifc.asked \in PrefixLens /\ (ifc.ip6 => ifc.prefix = PrefixGiven(ifc.asked))
    BY <2>3 DEF IfInvariant
  <2>7. ifc'.asked \in PrefixLens /\ (ifc'.ip6 => ifc'.prefix = PrefixGiven(ifc'.asked))
    BY <2>5, <2>6, Zenon
  <2>8. ifc'.addrs \cup ifc'.refused = given
    BY <2>3, <2>4
  <2>9. AddressesOf(ifc'.ip6, ifc'.gw6, ifc'.prefix) = given
    BY <2>2, <2>5, Zenon
  <2>10. QED
    BY <2>1, <2>4, <2>7, <2>8, <2>9, Zenon DEF IfInvariant, NoIf
<1>7. CASE lazybsd_veth_detach
  BY <1>7 DEF lazybsd_veth_detach, IfInvariant, NoIf
<1>8. CASE UNCHANGED vethVars
  BY <1>1, <1>8 DEF vethVars
<1>9. QED
  BY <1>2, <1>3, <1>4, <1>5, <1>6, <1>7, <1>8 DEF VethNext, AttachNext

(* For every list of virtual addresses, of which any may be unreadable,    *)
(* every prefix length and width of a byte, an attached interface has the  *)
(* readable addresses but those it refused, the mask of its IPv6 address   *)
(* has the bits of the prefix, and a failed attachment keeps nothing       *)
(* (lazybsd_veth_config, lazybsd_veth_setup_interface).                    *)
THEOREM AddressesAreSet ==
    VethSpec => []AddressesSet
<1>1. VethInit => IfInvariant
  BY DEF VethInit, IfInvariant, NoIf
<1>2. IfInvariant /\ [VethNext]_vethVars => IfInvariant'
  BY IfInvariantNext
<1>3. IfInvariant => AddressesSet
  BY AddressesRight
<1>4. QED
  BY <1>1, <1>2, <1>3, PTL DEF VethSpec

-----------------------------------------------------------------------------
(* Bytes through a uio.                                                    *)

(* What holds of the buffers of a call: the bytes in them are numbered     *)
(* through, the buffers before the current one are full and those behind   *)
(* it empty.                                                               *)
UioPlaced(given, left, out, i, cp, resid) ==
    /\ given \in Seq(Nat) /\ left \in Seq(Nat) /\ out \in Seq(Seq(Nat))
    /\ Len(left) = Len(given) /\ Len(out) = Len(given)
    /\ i \in Nat \ {0} /\ cp \in Nat \ {0} /\ resid \in Nat
    /\ resid = UpTo(left, Len(left)) /\ resid <= SubrIntMax
    /\ \A j \in 1 .. Len(out) :
          Len(out[j]) = given[j] - left[j] /\ (j < i => left[j] = 0) /\ (j > i => Len(out[j]) = 0)
    /\ Numbered(out)
    /\ cp = UpTo(Lens(out), Len(out)) + 1

UioAts == {"none", "ready", "moving", "refused"}

UioInvariant ==
    /\ uio \in [at : UioAts, given : Seq(Nat), left : Seq(Nat), i : Nat, resid : Nat, n : Nat, cp : Nat,
                out : Seq(Seq(Nat))]
    /\ UioPlaced(uio.given, uio.left, uio.out, uio.i, uio.cp, uio.resid)

(* The sum of a sequence. *)
LEMMA SumOfSeq ==
    ASSUME NEW s \in Seq(Nat)
    PROVE  SumOf(s) = UpTo(s, Len(s)) /\ Len(s) \in Nat
<1>1. DOMAIN s = 1 .. Len(s) /\ Len(s) \in Nat
  OBVIOUS
<1>2. QED
  BY <1>1 DEF SumOf, SumFunction, UpTo

(* Lengths of which each fits after the ones before it fit together. *)
LEMMA FitsTogether ==
    ASSUME NEW s \in Seq(Nat), Fits(s)
    PROVE  UpTo(s, Len(s)) \in Nat /\ UpTo(s, Len(s)) <= SubrIntMax
<1>1. PICK n \in Nat : n = Len(s)
  BY LenProperties
<1>2. \A i \in 1 .. n : s[i] \in Nat
  BY <1>1, ElementOfSeq
<1>3. SubrIntMax \in Nat
  BY SubrAssumption
<1>4. CASE n = 0
  <2>1. UpTo(s, 0) = 0
    BY <1>2, UpToStep
  <2>2. QED
    BY <1>1, <1>3, <1>4, <2>1
<1>5. CASE n > 0
  <2>1. PICK m \in Nat : m = n - 1
    BY <1>5
  <2>2. PICK t \in Seq(Nat) : t = SubSeq(s, 1, m) /\ Len(t) = m /\ \A k \in 1 .. m : t[k] = s[k]
    <3>1. SubSeq(s, 1, m) \in Seq(Nat) /\ Len(SubSeq(s, 1, m)) = m /\ \A k \in 1 .. m : SubSeq(s, 1, m)[k] = s[k]
      BY <1>1, <2>1
    <3>2. QED
      BY <3>1
  <2>3. s[n] <= SubrIntMax - SumOf(t)
    BY <1>1, <1>5, <2>1, <2>2 DEF Fits
  <2>4. SumOf(t) = UpTo(s, m)
    <3>1. SumOf(t) = UpTo(t, m)
      BY <2>2, SumOfSeq
    <3>2. \A k \in 1 .. m : t[k] \in Int /\ t[k] = s[k]
      BY <1>2, <2>1, <2>2
    <3>3. UpTo(t, m) = UpTo(s, m)
      BY <3>2, UpToEqual
    <3>4. QED
      BY <3>1, <3>3
  <2>5. UpTo(s, m) \in Int /\ UpTo(s, n) = UpTo(s, m) + s[n]
    BY <1>2, <1>5, <2>1, UpToStep, SMTT(60)
  <2>6. UpTo(s, n) \in Nat
    <3>1. IsFiniteSet(1 .. n)
      BY FS_Interval
    <3>2. QED
      BY <1>2, <3>1, SumOfNat DEF UpTo
  <2>7. PICK a \in Int, b \in Nat : a = UpTo(s, m) /\ b = s[n]
    BY <1>2, <1>5, <2>5
  <2>8. QED
    BY <1>1, <1>3, <2>3, <2>4, <2>5, <2>6, <2>7
<1>6. QED
  BY <1>1, <1>4, <1>5

(* Nothing in the buffers yet. *)
LEMMA EmptyPlaced ==
    ASSUME NEW s \in Seq(Nat), UpTo(s, Len(s)) \in Nat, UpTo(s, Len(s)) <= SubrIntMax,
           NEW out, out = [j \in 1 .. Len(s) |-> << >>]
    PROVE  UioPlaced(s, s, out, 1, 1, UpTo(s, Len(s)))
<1>1. PICK n \in Nat : n = Len(s) /\ \A j \in 1 .. n : s[j] \in Nat
  BY LenProperties, ElementOfSeq
<1>2. << >> \in Seq(Nat) /\ Len(<< >>) = 0
  OBVIOUS
<1>3. out \in Seq(Seq(Nat)) /\ Len(out) = n /\ \A j \in 1 .. n : out[j] = << >>
  BY <1>1, <1>2
<1>4. \A j \in 1 .. n : Len(out[j]) = 0
  BY <1>2, <1>3
<1>5. Numbered(out)
  BY <1>3, <1>4 DEF Numbered
<1>6. UpTo(Lens(out), n) = 0
  <2>1. \A j \in 1 .. n : Lens(out)[j] = 0
    BY <1>3, <1>4 DEF Lens
  <2>2. IsFiniteSet(1 .. n)
    BY FS_Interval
  <2>3. QED
    BY <2>1, <2>2, SumOfZeros DEF UpTo
<1>7. \A j \in 1 .. n : Len(out[j]) = s[j] - s[j] /\ (j < 1 => s[j] = 0) /\ (j > 1 => Len(out[j]) = 0)
  BY <1>1, <1>4
<1>8. 1 \in Nat \ {0} /\ 1 = UpTo(Lens(out), n) + 1
  BY <1>6
<1>9. QED
  BY <1>1, <1>3, <1>5, <1>7, <1>8 DEF UioPlaced

(* A chunk of cnt bytes goes to the current buffer. *)
LEMMA ChunkPlaced ==
    ASSUME NEW given \in Seq(Nat), NEW left \in Seq(Nat), NEW out \in Seq(Seq(Nat)),
           NEW i \in Nat, NEW cp \in Nat, NEW resid \in Nat, UioPlaced(given, left, out, i, cp, resid),
           i <= Len(left), NEW cnt \in Nat, cnt <= left[i],
           NEW more \in Seq(Nat), Longer(more, out[i], cnt, cp - 1)
    PROVE  UioPlaced(given, [left EXCEPT ![i] = left[i] - cnt], [out EXCEPT ![i] = more], i, cp + cnt, resid - cnt)
<1>1. PICK n \in Nat : n = Len(given) /\ n = Len(left) /\ n = Len(out)
  BY LenProperties DEF UioPlaced
<1>2. i \in 1 .. n /\ cp > 0
  BY <1>1 DEF UioPlaced
<1>3. \A j \in 1 .. n : given[j] \in Nat /\ left[j] \in Nat /\ out[j] \in Seq(Nat)
  BY <1>1, ElementOfSeq
<1>4. \A j \in 1 .. n : Len(out[j]) = given[j] - left[j] /\ (j < i => left[j] = 0) /\ (j > i => Len(out[j]) = 0)
  BY <1>1 DEF UioPlaced
<1>5. resid = UpTo(left, n) /\ resid <= SubrIntMax /\ Numbered(out) /\ cp = UpTo(Lens(out), n) + 1
  BY <1>1 DEF UioPlaced
<1>6. PICK m \in Nat : m = Len(out[i]) /\ m = given[i] - left[i]
  <2>1. PICK o \in Seq(Nat) : o = out[i]
    BY <1>2, <1>3
  <2>2. Len(o) \in Nat /\ Len(o) = given[i] - left[i]
    BY <1>2, <1>4, <2>1, LenProperties
  <2>3. QED
    BY <2>1, <2>2
<1>7. Len(more) = m + cnt
  BY <1>6 DEF Longer
<1>8. PICK li \in Nat : li = left[i] - cnt
  BY <1>2, <1>3, SMTT(60)
<1>9. PICK l2, o2 : l2 = [left EXCEPT ![i] = left[i] - cnt] /\ o2 = [out EXCEPT ![i] = more]
  OBVIOUS
<1>10. l2 \in Seq(Nat) /\ Len(l2) = n /\ \A j \in 1 .. n : l2[j] = IF j = i THEN li ELSE left[j]
  <2>1. l2 = [left EXCEPT ![i] = li] /\ i \in 1 .. Len(left)
    BY <1>1, <1>2, <1>8, <1>9
  <2>2. /\ [left EXCEPT ![i] = li] \in Seq(Nat) /\ Len([left EXCEPT ![i] = li]) = Len(left)
        /\ \A j \in 1 .. Len(left) : [left EXCEPT ![i] = li][j] = IF j = i THEN li ELSE left[j]
    BY <2>1, ExceptSeq, SMTT(60)
  <2>3. QED
    BY <1>1, <2>1, <2>2
<1>11. o2 \in Seq(Seq(Nat)) /\ Len(o2) = n /\ \A j \in 1 .. n : o2[j] = IF j = i THEN more ELSE out[j]
  BY <1>1, <1>2, <1>3, <1>9
<1>12. PICK f, g : f = Lens(out) /\ g = Lens(o2)
  OBVIOUS
<1>13. \A j \in 1 .. n : f[j] \in Nat /\ f[j] = Len(out[j])
  BY <1>1, <1>12, LensNat
<1>14. \A j \in 1 .. n : g[j] \in Nat /\ g[j] = Len(o2[j])
  BY <1>11, <1>12, LensNat
<1>15. \A j \in 1 .. n : g[j] = IF j = i THEN m + cnt ELSE f[j]
  BY <1>7, <1>11, <1>13, <1>14
<1>16. IsFiniteSet(1 .. n)
  BY FS_Interval
<1>17. UpTo(l2, n) = resid - cnt /\ resid - cnt \in Nat
  <2>1. \A x \in 1 .. n : left[x] \in Int /\ l2[x] \in Int /\ (x # i => left[x] = l2[x])
    BY <1>3, <1>10, SMTT(60)
  <2>2. SumFunctionOnSet(left, 1 .. n) \in Int /\ SumFunctionOnSet(l2, 1 .. n) = SumFunctionOnSet(left, 1 .. n) - left[i] + l2[i]
    <3>1. PICK S : S = 1 .. n
      OBVIOUS
    <3>2. IsFiniteSet(S) /\ i \in S /\ DifferAt(left, l2, S, i)
      BY <1>2, <1>16, <2>1, <3>1 DEF DifferAt
    <3>3. SumFunctionOnSet(left, S) \in Int /\ SumFunctionOnSet(l2, S) = SumFunctionOnSet(left, S) - left[i] + l2[i]
      BY <3>2, SumChange
    <3>4. QED
      BY <3>1, <3>3
  <2>3. resid = SumFunctionOnSet(left, 1 .. n)
    BY <1>5 DEF UpTo
  <2>4. left[i] \in Nat /\ left[i] <= resid
    <3>1. left[i] <= SumFunctionOnSet(left, 1 .. n)
      BY <1>2, <1>3, <1>16, SumOfNat
    <3>2. QED
      BY <1>2, <1>3, <2>3, <3>1
  <2>5. l2[i] = left[i] - cnt
    BY <1>2, <1>8, <1>10
  <2>6. SumFunctionOnSet(l2, 1 .. n) = resid - cnt
    BY <2>2, <2>3, <2>4, <2>5
  <2>7. QED
    BY <2>4, <2>6 DEF UpTo
<1>18. f[i] = m /\ g[i] = m + cnt
  BY <1>2, <1>6, <1>13, <1>15
<1>19. cp + cnt = UpTo(g, n) + 1
  <2>1. SumFunctionOnSet(f, 1 .. n) \in Int /\ SumFunctionOnSet(g, 1 .. n) = SumFunctionOnSet(f, 1 .. n) - f[i] + g[i]
    <3>1. \A x \in 1 .. n : f[x] \in Int /\ g[x] \in Int
      BY <1>13, <1>14, SMTT(60)
    <3>2. \A x \in 1 .. n : x # i => f[x] = g[x]
      BY <1>15
    <3>3. PICK S : S = 1 .. n
      OBVIOUS
    <3>4. IsFiniteSet(S) /\ i \in S /\ DifferAt(f, g, S, i)
      BY <1>2, <1>16, <3>1, <3>2, <3>3 DEF DifferAt
    <3>5. SumFunctionOnSet(f, S) \in Int /\ SumFunctionOnSet(g, S) = SumFunctionOnSet(f, S) - f[i] + g[i]
      BY <3>4, SumChange
    <3>6. QED
      BY <3>3, <3>5
  <2>2. cp = SumFunctionOnSet(f, 1 .. n) + 1
    BY <1>5, <1>12 DEF UpTo
  <2>3. PICK a \in Int : a = SumFunctionOnSet(f, 1 .. n)
    BY <2>1
  <2>4. QED
    <3>1. SumFunctionOnSet(g, 1 .. n) = a - m + (m + cnt) /\ cp = a + 1
      BY <1>18, <2>1, <2>2, <2>3
    <3>2. QED
      BY <3>1 DEF UpTo
<1>20. cp - 1 = UpTo(f, i - 1) + m /\ UpTo(f, i - 1) \in Int
  <2>1. \A j \in 1 .. n : f[j] \in Int
    BY <1>13, SMTT(60)
  <2>2. ASSUME NEW j \in i + 1 .. n PROVE f[j] = 0
    <3>1. j \in 1 .. n /\ j > i
      BY <1>2
    <3>2. QED
      BY <1>4, <1>13, <3>1
  <2>3. UpTo(f, n) = UpTo(f, i)
    <3>1. i \in 0 .. n
      BY <1>2
    <3>2. QED
      BY <2>1, <2>2, <3>1, UpToZeros
  <2>4. UpTo(f, i - 1) \in Int /\ UpTo(f, i) = UpTo(f, i - 1) + f[i]
    <3>1. i > 0 /\ \A j \in 1 .. i : f[j] \in Int
      BY <1>2, <2>1
    <3>2. QED
      BY <3>1, UpToStep
  <2>5. cp = UpTo(f, n) + 1
    BY <1>5, <1>12
  <2>6. PICK a \in Int : a = UpTo(f, i - 1)
    BY <2>4
  <2>7. QED
    BY <1>18, <2>3, <2>4, <2>5, <2>6, SMTT(60)
<1>21. Numbered(o2)
  <2>1. \A j \in 1 .. n : j <= i => UpTo(g, j - 1) = UpTo(f, j - 1)
    <3>1. SUFFICES ASSUME NEW j \in 1 .. n, j <= i PROVE UpTo(g, j - 1) = UpTo(f, j - 1)
      OBVIOUS
    <3>2. j - 1 \in Nat /\ \A x \in 1 .. j - 1 : g[x] \in Int /\ g[x] = f[x]
      BY <1>2, <1>14, <1>15, <3>1, SMTT(60)
    <3>3. QED
      BY <3>2, UpToEqual
  <2>2. PICK add, base : /\ add = [j \in 1 .. n |-> IF j = i THEN cnt ELSE 0]
                         /\ base = [j \in 1 .. n |-> cp - 1]
    OBVIOUS
  <2>3. \A j \in 1 .. n : add[j] \in Nat /\ Longer(o2[j], out[j], add[j], base[j])
    <3>1. ASSUME NEW j \in 1 .. n PROVE add[j] \in Nat /\ Longer(o2[j], out[j], add[j], base[j])
      <4>1. add[j] = (IF j = i THEN cnt ELSE 0) /\ base[j] = cp - 1 /\ o2[j] = IF j = i THEN more ELSE out[j]
        BY <1>11, <2>2
      <4>2. CASE j = i
        BY <4>1, <4>2
      <4>3. CASE j # i
        <5>1. Longer(out[j], out[j], 0, cp - 1)
          <6>1. PICK o \in Seq(Nat) : o = out[j]
            BY <1>3
          <6>2. Longer(o, o, 0, cp - 1)
            BY LenProperties DEF Longer
          <6>3. QED
            BY <6>1, <6>2
        <5>2. QED
          BY <4>1, <4>3, <5>1
      <4>4. QED
        BY <4>2, <4>3
    <3>2. QED
      BY <3>1
  <2>4. \A j \in 1 .. n : Len(out[j]) > 0 => UpTo(g, j - 1) = UpTo(f, j - 1)
    <3>1. \A j \in 1 .. n : Len(out[j]) > 0 => j <= i
      <4>1. \A j \in 1 .. n : ~ (j <= i) => Len(out[j]) = 0
        BY <1>2, <1>4
      <4>2. QED
        BY <4>1
    <3>2. QED
      BY <2>1, <3>1
  <2>5. \A j \in 1 .. n : add[j] > 0 => base[j] = UpTo(g, j - 1) + Len(out[j])
    <3>1. ASSUME NEW j \in 1 .. n, add[j] > 0 PROVE base[j] = UpTo(g, j - 1) + Len(out[j])
      <4>1. j = i /\ base[j] = cp - 1
        BY <2>2, <3>1
      <4>2. UpTo(g, i - 1) = UpTo(f, i - 1)
        BY <1>2, <2>1
      <4>3. QED
        BY <1>6, <1>20, <4>1, <4>2
    <3>2. QED
      BY <3>1
  <2>6. QED
    <3>1. /\ Len(o2) = Len(out)
          /\ \A j \in 1 .. Len(out) : add[j] \in Nat /\ Longer(o2[j], out[j], add[j], base[j])
          /\ \A j \in 1 .. Len(out) : Len(out[j]) > 0 => UpTo(Lens(o2), j - 1) = UpTo(Lens(out), j - 1)
          /\ \A j \in 1 .. Len(out) : add[j] > 0 => base[j] = UpTo(Lens(o2), j - 1) + Len(out[j])
      BY <1>1, <1>11, <1>12, <2>3, <2>4, <2>5
    <3>2. Numbered(out) /\ o2 \in Seq(Seq(Nat))
      BY <1>5, <1>11
    <3>3. QED
      BY <3>1, <3>2, NumberedGrows
<1>22. \A j \in 1 .. n : Len(o2[j]) = given[j] - l2[j] /\ (j < i => l2[j] = 0) /\ (j > i => Len(o2[j]) = 0)
  <2>1. ASSUME NEW j \in 1 .. n PROVE Len(o2[j]) = given[j] - l2[j] /\ (j < i => l2[j] = 0) /\ (j > i => Len(o2[j]) = 0)
    <3>1. CASE j = i
      <4>1. Len(o2[j]) = m + cnt /\ l2[j] = left[i] - cnt
        BY <1>7, <1>8, <1>10, <1>11, <3>1
      <4>2. PICK gi \in Nat, le \in Nat : gi = given[i] /\ le = left[i]
        BY <1>2, <1>3
      <4>3. QED
        <5>1. m = gi - le /\ Len(o2[j]) = m + cnt /\ l2[j] = le - cnt
          BY <1>6, <4>1, <4>2
        <5>2. Len(o2[j]) = gi - l2[j]
          BY <5>1
        <5>3. QED
          BY <3>1, <4>2, <5>2
    <3>2. CASE j # i
      <4>1. o2[j] = out[j] /\ l2[j] = left[j]
        BY <1>10, <1>11, <3>2
      <4>2. QED
        BY <1>4, <4>1
    <3>3. QED
      BY <3>1, <3>2
  <2>2. QED
    BY <2>1
<1>23. cp + cnt \in Nat \ {0} /\ resid - cnt <= SubrIntMax /\ i \in Nat \ {0}
  <2>1. SubrIntMax \in Nat
    BY SubrAssumption
  <2>2. QED
    <3>1. resid <= SubrIntMax
      BY <1>5
    <3>2. QED
      BY <1>2, <2>1, <3>1
<1>24. UioPlaced(given, l2, o2, i, cp + cnt, resid - cnt)
  BY <1>1, <1>10, <1>11, <1>12, <1>17, <1>19, <1>21, <1>22, <1>23 DEF UioPlaced
<1>25. QED
  BY <1>9, <1>24

(* While something is left the current buffer is one of them. *)
LEMMA LeftIsAhead ==
    ASSUME NEW given \in Seq(Nat), NEW left \in Seq(Nat), NEW out \in Seq(Seq(Nat)),
           NEW i \in Nat, NEW cp \in Nat, NEW resid \in Nat, UioPlaced(given, left, out, i, cp, resid),
           resid > 0
    PROVE  i <= Len(left)
<1>1. PICK n \in Nat : n = Len(left)
  BY LenProperties
<1>2. SUFFICES ASSUME i > n PROVE FALSE
  BY <1>1
<1>3. \A j \in 1 .. n : j < i => left[j] = 0
  BY <1>1 DEF UioPlaced
<1>4. \A j \in 1 .. n : left[j] = 0
  BY <1>2, <1>3
<1>5. IsFiniteSet(1 .. n)
  BY FS_Interval
<1>6. UpTo(left, n) = 0
  BY <1>4, <1>5, SumOfZeros DEF UpTo
<1>7. resid = UpTo(left, n)
  BY <1>1 DEF UioPlaced
<1>8. QED
  BY <1>6, <1>7

(* Past a buffer that is full. *)
LEMMA SkipPlaced ==
    ASSUME NEW given \in Seq(Nat), NEW left \in Seq(Nat), NEW out \in Seq(Seq(Nat)),
           NEW i \in Nat, NEW cp \in Nat, NEW resid \in Nat, UioPlaced(given, left, out, i, cp, resid),
           left[i] = 0
    PROVE  UioPlaced(given, left, out, i + 1, cp, resid)
<1>1. PICK n \in Nat : n = Len(given) /\ n = Len(left) /\ n = Len(out)
  BY LenProperties DEF UioPlaced
<1>2. \A j \in 1 .. n : Len(out[j]) = given[j] - left[j] /\ (j < i => left[j] = 0) /\ (j > i => Len(out[j]) = 0)
  BY <1>1 DEF UioPlaced
<1>3. ASSUME NEW j \in 1 .. n
      PROVE  Len(out[j]) = given[j] - left[j] /\ (j < i + 1 => left[j] = 0) /\ (j > i + 1 => Len(out[j]) = 0)
  <2>1. j < i + 1 => j < i \/ j = i
    OBVIOUS
  <2>2. j > i + 1 => j > i
    OBVIOUS
  <2>3. QED
    BY <1>2, <2>1, <2>2
<1>4. /\ resid = UpTo(left, n) /\ resid <= SubrIntMax /\ Numbered(out) /\ cp = UpTo(Lens(out), n) + 1
      /\ i + 1 \in Nat \ {0} /\ cp \in Nat \ {0}
  BY <1>1 DEF UioPlaced
<1>5. QED
  BY <1>1, <1>3, <1>4 DEF UioPlaced

(* The bytes of a chunk behind the ones that are there. *)
LEMMA ChunkJoined ==
    ASSUME NEW o \in Seq(Nat), NEW cnt \in Nat, NEW cp \in Nat \ {0}, NEW m, m = Len(o)
    PROVE  /\ SubSeq(o, 1, m) \o [k \in 1 .. cnt |-> cp + k - 1] \in Seq(Nat)
           /\ Longer(SubSeq(o, 1, m) \o [k \in 1 .. cnt |-> cp + k - 1], o, cnt, cp - 1)
<1>1. SubSeq(o, 1, m) = o
  BY SubSeqFull
<1>2. PICK b \in Nat : b = cp - 1
  OBVIOUS
<1>3. PICK c : c = [k \in 1 .. cnt |-> b + k]
  OBVIOUS
<1>4. [k \in 1 .. cnt |-> cp + k - 1] = c
  BY <1>2, <1>3
<1>5. Joined(o, c) \in Seq(Nat) /\ Longer(Joined(o, c), o, cnt, b)
  BY <1>3, JoinedLonger
<1>6. SubSeq(o, 1, m) \o [k \in 1 .. cnt |-> cp + k - 1] = Joined(o, c)
  BY <1>1, <1>4 DEF Joined
<1>7. QED
  BY <1>2, <1>5, <1>6

LEMMA NoUioPlaced == UioPlaced(<< >>, << >>, << >>, 1, 1, 0)
<1>1. PICK s \in Seq(Nat) : s = << >>
  BY EmptySeq
<1>2. Len(s) = 0
  BY <1>1
<1>3. UpTo(s, 0) = 0
  <2>1. 0 \in Nat /\ \A j \in 1 .. 0 : s[j] \in Int
    OBVIOUS
  <2>2. QED
    BY <2>1, UpToStep
<1>4. [j \in 1 .. Len(s) |-> << >>] = s
  BY <1>1, <1>2
<1>5. UpTo(s, Len(s)) \in Nat /\ UpTo(s, Len(s)) <= SubrIntMax
  BY <1>2, <1>3, SubrAssumption
<1>6. UioPlaced(s, s, s, 1, 1, UpTo(s, Len(s)))
  BY <1>4, <1>5, EmptyPlaced
<1>7. QED
  BY <1>1, <1>2, <1>3, <1>6

LEMMA UioInvariantInit == uio = NoUio => UioInvariant
<1>1. ASSUME uio = NoUio PROVE UioInvariant
  <2>1. << >> \in Seq(Nat) /\ << >> \in Seq(Seq(Nat)) /\ 1 \in Nat /\ 0 \in Nat /\ "none" \in UioAts
    <3>1. << >> \in Seq(Nat)
      OBVIOUS
    <3>2. << >> \in Seq(Seq(Nat))
      OBVIOUS
    <3>3. "none" \in UioAts
      BY DEF UioAts
    <3>4. 1 \in Nat /\ 0 \in Nat
      OBVIOUS
    <3>5. QED
      BY <3>1, <3>2, <3>3, <3>4
  <2>2. uio.given = << >> /\ uio.left = << >> /\ uio.out = << >> /\ uio.i = 1 /\ uio.cp = 1 /\ uio.resid = 0
    BY <1>1 DEF NoUio
  <2>3. uio \in [at : UioAts, given : Seq(Nat), left : Seq(Nat), i : Nat, resid : Nat, n : Nat, cp : Nat,
                 out : Seq(Seq(Nat))]
    BY <1>1, <2>1 DEF NoUio
  <2>4. QED
    BY <2>2, <2>3, NoUioPlaced DEF UioInvariant
<1>2. QED
  BY <1>1

LEMMA UioInvariantNext == UioInvariant /\ UioNext => UioInvariant'
<1> SUFFICES ASSUME UioInvariant, UioNext PROVE UioInvariant'
  OBVIOUS
<1> DEFINE Type == [at : UioAts, given : Seq(Nat), left : Seq(Nat), i : Nat, resid : Nat, n : Nat, cp : Nat,
                    out : Seq(Seq(Nat))]
<1>1. uio \in Type /\ UioPlaced(uio.given, uio.left, uio.out, uio.i, uio.cp, uio.resid)
  BY DEF UioInvariant
<1>2. SUFFICES uio' \in Type /\ UioPlaced(uio'.given, uio'.left, uio'.out, uio'.i, uio'.cp, uio'.resid)
  BY DEF UioInvariant
<1>3. PICK given \in Seq(Nat), left \in Seq(Nat), out \in Seq(Seq(Nat)) :
          given = uio.given /\ left = uio.left /\ out = uio.out
  BY <1>1
<1>4. PICK i \in Nat, cp \in Nat, resid \in Nat, n \in Nat :
          i = uio.i /\ cp = uio.cp /\ resid = uio.resid /\ n = uio.n
  BY <1>1
<1>5. UioPlaced(given, left, out, i, cp, resid)
  BY <1>1, <1>3, <1>4
<1>6. ASSUME uio' = NoUio PROVE uio' \in Type /\ UioPlaced(uio'.given, uio'.left, uio'.out, uio'.i, uio'.cp, uio'.resid)
  <2>1. (uio = NoUio => UioInvariant)'
    BY UioInvariantInit, PTL
  <2>2. QED
    BY <1>6, <2>1 DEF UioInvariant
<1>7. ASSUME NEW k \in Nat, NEW lens \in [1 .. k -> IovLens], copyinuio(lens)
      PROVE  uio' \in Type /\ UioPlaced(uio'.given, uio'.left, uio'.out, uio'.i, uio'.cp, uio'.resid)
  <2>1. PICK s \in Seq(Nat) : s = lens
    <3>1. IovLens \subseteq Nat
      BY SubrAssumption
    <3>2. lens \in Seq(Nat)
      <4>1. lens \in [1 .. k -> Nat]
        BY <1>7, <3>1
      <4>2. QED
        BY <4>1, SeqDef
    <3>3. QED
      BY <3>2
  <2>2. CASE Len(lens) > MaxIov \/ ~ Fits(lens)
    <3>1. uio' = [NoUio EXCEPT !.at = "refused"]
      BY <1>7, <2>2 DEF copyinuio
    <3>2. << >> \in Seq(Nat) /\ << >> \in Seq(Seq(Nat))
      BY EmptySeq
    <3>3. uio' \in Type
      <4>1. uio' = [at |-> "refused", given |-> << >>, left |-> << >>, i |-> 1, resid |-> 0, n |-> 0, cp |-> 1, out |-> << >>]
        BY <3>1 DEF NoUio
      <4>2. "refused" \in UioAts
        BY DEF UioAts
      <4>3. QED
        BY <3>2, <4>1, <4>2
    <3>4. uio'.given = << >> /\ uio'.left = << >> /\ uio'.out = << >> /\ uio'.i = 1 /\ uio'.cp = 1 /\ uio'.resid = 0
      BY <3>1 DEF NoUio
    <3>5. QED
      BY <3>3, <3>4, NoUioPlaced
  <2>3. CASE ~ (Len(lens) > MaxIov \/ ~ Fits(lens))
    <3>1. PICK o : o = [j \in 1 .. Len(s) |-> << >>]
      OBVIOUS
    <3>2. UpTo(s, Len(s)) \in Nat /\ UpTo(s, Len(s)) <= SubrIntMax
      BY <2>1, <2>3, FitsTogether
    <3>3. PICK t \in Nat : t = UpTo(s, Len(s)) /\ t = SumOf(s)
      BY <3>2, SumOfSeq
    <3>4. UioPlaced(s, s, o, 1, 1, t)
      BY <3>1, <3>2, <3>3, EmptyPlaced
    <3>5. o \in Seq(Seq(Nat))
      BY <3>4 DEF UioPlaced
    <3>6. uio' = [NoUio EXCEPT !.at = "ready", !.given = s, !.left = s, !.resid = t, !.out = o]
      BY <1>7, <2>1, <2>3, <3>1, <3>3 DEF copyinuio
    <3>7. uio' = [at |-> "ready", given |-> s, left |-> s, i |-> 1, resid |-> t, n |-> 0, cp |-> 1, out |-> o]
      BY <3>6 DEF NoUio
    <3>8. uio' \in Type
      BY <3>5, <3>7 DEF UioAts
    <3>9. QED
      BY <3>4, <3>7, <3>8
  <2>4. QED
    BY <2>2, <2>3
<1>8. ASSUME NEW k \in Nat, uiomove(k)
      PROVE  uio' \in Type /\ UioPlaced(uio'.given, uio'.left, uio'.out, uio'.i, uio'.cp, uio'.resid)
  <2>1. uio' = [uio EXCEPT !.at = "moving", !.n = k]
    BY <1>8 DEF uiomove
  <2>2. uio' \in Type
    BY <1>1, <2>1 DEF UioAts
  <2>3. /\ uio'.given = given /\ uio'.left = left /\ uio'.out = out
        /\ uio'.i = i /\ uio'.cp = cp /\ uio'.resid = resid
    BY <1>1, <1>3, <1>4, <2>1
  <2>4. QED
    BY <1>5, <2>2, <2>3
<1>9. ASSUME uiomove_step
      PROVE  uio' \in Type /\ UioPlaced(uio'.given, uio'.left, uio'.out, uio'.i, uio'.cp, uio'.resid)
  <2>1. CASE n <= 0 \/ resid = 0
    <3>1. uio' = [uio EXCEPT !.at = "ready", !.n = 0]
      BY <1>4, <1>9, <2>1 DEF uiomove_step
    <3>2. uio' \in Type
      BY <1>1, <3>1 DEF UioAts
    <3>3. /\ uio'.given = given /\ uio'.left = left /\ uio'.out = out
          /\ uio'.i = i /\ uio'.cp = cp /\ uio'.resid = resid
      BY <1>1, <1>3, <1>4, <3>1
    <3>4. QED
      BY <1>5, <3>2, <3>3
  <2>2. CASE ~ (n <= 0 \/ resid = 0) /\ left[i] = 0
    <3>1. uio' = [uio EXCEPT !.i = @ + 1]
      BY <1>3, <1>4, <1>9, <2>2 DEF uiomove_step
    <3>2. uio' \in Type
      <4>1. i + 1 \in Nat
        OBVIOUS
      <4>2. uio' = [uio EXCEPT !.i = i + 1]
        BY <1>4, <3>1
      <4>3. QED
        BY <1>1, <4>1, <4>2
    <3>3. /\ uio'.given = given /\ uio'.left = left /\ uio'.out = out
          /\ uio'.i = i + 1 /\ uio'.cp = cp /\ uio'.resid = resid
      BY <1>1, <1>3, <1>4, <3>1
    <3>4. UioPlaced(given, left, out, i + 1, cp, resid)
      BY <1>5, <2>2, SkipPlaced
    <3>5. QED
      BY <3>2, <3>3, <3>4
  <2>3. CASE ~ (n <= 0 \/ resid = 0) /\ left[i] # 0
    <3>1. i <= Len(left) /\ i \in 1 .. Len(left) /\ Len(left) = Len(given) /\ Len(out) = Len(given) /\ cp \in Nat \ {0}
      <4>1. i <= Len(left)
        BY <1>5, <2>3, LeftIsAhead
      <4>2. QED
        BY <1>5, <4>1 DEF UioPlaced
    <3>2. PICK o \in Seq(Nat), m \in Nat, li \in Nat : o = out[i] /\ m = Len(o) /\ m = given[i] - left[i] /\ li = left[i]
      <4>1. left[i] \in Nat /\ out[i] \in Seq(Nat)
        BY <3>1, ElementOfSeq
      <4>2. Len(out[i]) = given[i] - left[i]
        BY <1>5, <3>1 DEF UioPlaced
      <4>3. Len(out[i]) \in Nat
        BY <4>1, LenProperties
      <4>4. QED
        BY <4>1, <4>2, <4>3
    <3>3. PICK cnt \in Nat : cnt = Chunk(uio) /\ cnt <= li /\ cnt <= n
      <4>1. Chunk(uio) = IF li > n THEN n ELSE li
        BY <1>3, <1>4, <3>2 DEF Chunk
      <4>2. QED
        BY <4>1
    <3>4. PICK more : more = SubSeq(o, 1, m) \o [k \in 1 .. cnt |-> cp + k - 1]
      OBVIOUS
    <3>5. more \in Seq(Nat) /\ Longer(more, o, cnt, cp - 1)
      BY <3>1, <3>2, <3>4, ChunkJoined
    <3>6. UioPlaced(given, [left EXCEPT ![i] = left[i] - cnt], [out EXCEPT ![i] = more], i, cp + cnt, resid - cnt)
      BY <1>5, <3>1, <3>2, <3>3, <3>5, ChunkPlaced
    <3>7. PICK w : w = Written(uio, uio.i, cnt)
      OBVIOUS
    <3>8. w = [uio EXCEPT !.out = [out EXCEPT ![i] = more]]
      <4>1. w = [uio EXCEPT !.out[i] = SubSeq(@, 1, given[i] - left[i]) \o [k \in 1 .. cnt |-> cp + k - 1]]
        BY <1>3, <1>4, <3>7 DEF Written
      <4>2. QED
        BY <1>3, <3>2, <3>4, <4>1
    <3>9. uio' = [w EXCEPT !.left[i] = @ - cnt, !.resid = @ - cnt, !.cp = @ + cnt, !.n = @ - cnt]
      BY <1>3, <1>4, <1>9, <2>3, <3>3, <3>7 DEF uiomove_step
    <3>10. PICK l2, o2 : l2 = [left EXCEPT ![i] = left[i] - cnt] /\ o2 = [out EXCEPT ![i] = more]
      OBVIOUS
    <3>11. /\ w.given = given /\ w.left = left /\ w.out = o2 /\ w.i = i /\ w.cp = cp /\ w.resid = resid /\ w.n = n
           /\ w.at = uio.at /\ DOMAIN w = {"at", "given", "left", "i", "resid", "n", "cp", "out"}
      BY <1>1, <1>3, <1>4, <3>8, <3>10
    <3>12. uio' = [at |-> uio.at, given |-> given, left |-> l2, i |-> i, resid |-> resid - cnt, n |-> n - cnt,
                   cp |-> cp + cnt, out |-> o2]
      BY <1>1, <3>8, <3>9, <3>10, <3>11
    <3>13. UioPlaced(given, l2, o2, i, cp + cnt, resid - cnt)
      BY <3>6, <3>10
    <3>14. l2 \in Seq(Nat) /\ o2 \in Seq(Seq(Nat)) /\ resid - cnt \in Nat /\ cp + cnt \in Nat /\ n - cnt \in Nat
      <4>1. l2 \in Seq(Nat) /\ o2 \in Seq(Seq(Nat)) /\ resid - cnt \in Nat
        BY <3>13 DEF UioPlaced
      <4>2. QED
        BY <3>3, <4>1, SMTT(60)
    <3>15. uio' \in Type
      BY <1>1, <3>12, <3>14
    <3>16. QED
      BY <3>12, <3>13, <3>15
  <2>4. QED
    BY <2>1, <2>2, <2>3
<1>10. ASSUME uio_done
       PROVE  uio' \in Type /\ UioPlaced(uio'.given, uio'.left, uio'.out, uio'.i, uio'.cp, uio'.resid)
  BY <1>6, <1>10 DEF uio_done
<1>11. 0 .. MaxIov + 1 \subseteq Nat /\ 0 .. MaxMove \subseteq Nat
  BY SubrAssumption
<1>12. QED
  BY <1>7, <1>8, <1>9, <1>10, <1>11 DEF UioNext

LEMMA UioPlacedInOrder == UioInvariant => UioInOrder
<1> SUFFICES ASSUME UioInvariant PROVE UioInOrder
  OBVIOUS
<1>1. PICK given \in Seq(Nat), left \in Seq(Nat), out \in Seq(Seq(Nat)) :
          given = uio.given /\ left = uio.left /\ out = uio.out
  BY DEF UioInvariant
<1>2. PICK i \in Nat, cp \in Nat, resid \in Nat : i = uio.i /\ cp = uio.cp /\ resid = uio.resid
  BY DEF UioInvariant
<1>3. UioPlaced(given, left, out, i, cp, resid)
  BY <1>1, <1>2 DEF UioInvariant
<1>4. PICK n \in Nat : n = Len(given) /\ n = Len(left) /\ n = Len(out)
  BY <1>3, LenProperties DEF UioPlaced
<1>5. resid = SumOf(left) /\ resid <= SubrIntMax
  BY <1>3, SumOfSeq DEF UioPlaced
<1>6. FlattenSeq(out) = [k \in 1 .. cp - 1 |-> k]
  <2>1. Numbered(out) /\ cp = UpTo(Lens(out), Len(out)) + 1
    BY <1>3 DEF UioPlaced
  <2>2. PICK a \in Nat : a = UpTo(Lens(out), Len(out))
    <3>1. Len(out) \in 0 .. Len(out)
      BY <1>4
    <3>2. QED
      BY <3>1, LensNat
  <2>3. FlattenSeq(out) = [k \in 1 .. a |-> k]
    BY <2>1, <2>2, NumberedFlat
  <2>4. a = cp - 1
    BY <2>1, <2>2
  <2>5. QED
    BY <2>3, <2>4
<1>7. \A j \in 1 .. Len(out) : Len(out[j]) = given[j] - left[j] /\ left[j] >= 0 /\ (j < i => left[j] = 0)
  <2>1. \A j \in 1 .. n : left[j] \in Nat
    BY <1>4, ElementOfSeq
  <2>2. \A j \in 1 .. n : left[j] >= 0
    BY <2>1
  <2>3. \A j \in 1 .. n : Len(out[j]) = given[j] - left[j] /\ (j < i => left[j] = 0)
    BY <1>3, <1>4 DEF UioPlaced
  <2>4. QED
    BY <1>4, <2>2, <2>3
<1>8. resid > 0 => i <= Len(left)
  BY <1>3, LeftIsAhead
<1>9. QED
  BY <1>1, <1>2, <1>5, <1>6, <1>7, <1>8 DEF UioInOrder

-----------------------------------------------------------------------------
(* Bytes in a chain of mbufs.                                              *)

(* What holds of a chain for len bytes that has off of them: the bytes are *)
(* numbered through, the mbufs before cur are full and those behind it     *)
(* empty, and all of them have room for len bytes.                         *)
ChainPlaced(space, bytes, cur, off, len) ==
    /\ space \in Seq(Nat) /\ bytes \in Seq(Seq(Nat)) /\ Len(bytes) = Len(space)
    /\ cur \in 1 .. Len(space) /\ off \in Nat /\ len \in Nat
    /\ \A j \in 1 .. Len(space) :
          /\ Len(bytes[j]) <= space[j]
          /\ j < cur => Len(bytes[j]) = space[j]
          /\ j > cur => Len(bytes[j]) = 0
    /\ Numbered(bytes)
    /\ off = UpTo(Lens(bytes), Len(bytes)) /\ off <= len
    /\ len <= UpTo(space, Len(space))

ZmInvariant ==
    zm # NoZm =>
        /\ zm = [off |-> zm.off, len |-> zm.len, space |-> zm.space, bytes |-> zm.bytes, cur |-> zm.cur]
        /\ ChainPlaced(zm.space, zm.bytes, zm.cur, zm.off, zm.len)

LEMMA ChainInOrder == ZmInvariant => ZcInOrder
<1> SUFFICES ASSUME ZmInvariant, zm # NoZm
             PROVE  /\ FlattenSeq(zm.bytes) = [k \in 1 .. zm.off |-> k]
                    /\ \A i \in 1 .. Len(zm.space) : Len(zm.bytes[i]) <= zm.space[i]
                    /\ zm.cur \in 1 .. Len(zm.space)
  BY DEF ZcInOrder
<1>1. ChainPlaced(zm.space, zm.bytes, zm.cur, zm.off, zm.len)
  BY DEF ZmInvariant
<1>2. PICK bytes \in Seq(Seq(Nat)) : bytes = zm.bytes /\ Numbered(bytes) /\ zm.off = UpTo(Lens(bytes), Len(bytes))
  BY <1>1 DEF ChainPlaced
<1>3. FlattenSeq(bytes) = [k \in 1 .. UpTo(Lens(bytes), Len(bytes)) |-> k]
  BY <1>2, NumberedFlat
<1>4. QED
  BY <1>1, <1>2, <1>3 DEF ChainPlaced

(* A new chain. *)
LEMMA NewChain ==
    ASSUME NEW space \in Seq(Nat), NEW len \in Nat, Len(space) > 0, len <= UpTo(space, Len(space)),
           NEW bytes, bytes = [i \in 1 .. Len(space) |-> << >>]
    PROVE  ChainPlaced(space, bytes, 1, 0, len)
<1>1. PICK n \in Nat : n = Len(space) /\ n > 0 /\ \A j \in 1 .. n : space[j] \in Nat
  BY LenProperties, ElementOfSeq
<1>2. << >> \in Seq(Nat) /\ Len(<< >>) = 0
  BY EmptySeq
<1>3. bytes \in Seq(Seq(Nat)) /\ Len(bytes) = n /\ \A j \in 1 .. n : bytes[j] = << >>
  BY <1>1, <1>2
<1>4. \A j \in 1 .. n : Len(bytes[j]) = 0
  BY <1>2, <1>3
<1>5. Numbered(bytes)
  BY <1>3, <1>4 DEF Numbered
<1>6. UpTo(Lens(bytes), n) = 0
  <2>1. \A j \in 1 .. n : Lens(bytes)[j] = 0
    BY <1>3, <1>4 DEF Lens
  <2>2. IsFiniteSet(1 .. n)
    BY FS_Interval
  <2>3. QED
    BY <2>1, <2>2, SumOfZeros DEF UpTo
<1>7. \A j \in 1 .. n : Len(bytes[j]) <= space[j] /\ (j < 1 => Len(bytes[j]) = space[j]) /\ (j > 1 => Len(bytes[j]) = 0)
  BY <1>1, <1>4
<1>8. 1 \in 1 .. n /\ 0 \in Nat /\ 0 <= len
  BY <1>1
<1>9. QED
  BY <1>1, <1>3, <1>5, <1>6, <1>7, <1>8 DEF ChainPlaced

LEMMA ChainOfSpace ==
    ASSUME NEW len \in Nat, NEW space \in m_getm2(len)
    PROVE  space \in Seq(Nat) /\ Len(space) > 0 /\ len <= UpTo(space, Len(space))
<1>1. PICK n \in 1 .. 3 : space \in [1 .. n -> ClusterSizes]
  BY DEF m_getm2
<1>2. SpaceOf(space) >= (IF len > 1 THEN len ELSE 1)
  BY DEF m_getm2
<1>3. space \in Seq(Nat) /\ Len(space) = n
  <2>1. ClusterSizes \subseteq Nat
    BY VethAssumption
  <2>2. space \in [1 .. n -> Nat]
    BY <1>1, <2>1
  <2>3. n \in Nat
    OBVIOUS
  <2>4. QED
    BY <2>2, <2>3, SeqDef
<1>4. PICK t \in Nat : t = SpaceOf(space) /\ t = UpTo(space, n)
  <2>1. SpaceOf(space) = UpTo(space, Len(space))
    <3>1. DOMAIN space = 1 .. n
      BY <1>1
    <3>2. QED
      BY <1>3, <3>1 DEF SpaceOf, SumFunction, UpTo
  <2>2. UpTo(space, n) \in Nat
    <3>1. \A j \in 1 .. n : space[j] \in Nat
      BY <1>3, ElementOfSeq
    <3>2. IsFiniteSet(1 .. n)
      BY FS_Interval
    <3>3. QED
      BY <3>1, <3>2, SumOfNat DEF UpTo
  <2>3. QED
    BY <1>3, <2>1, <2>2
<1>5. len <= t
  BY <1>2, <1>4
<1>6. QED
  BY <1>3, <1>4, <1>5

(* How w bytes are shared out from mbuf cur on: room is what each mbuf     *)
(* takes, rb what the ones before it take.                                 *)
Shared(n, cur, w, room, rb, share) ==
    /\ n \in Nat /\ cur \in 1 .. n /\ w \in Nat
    /\ \A j \in 1 .. n : room[j] \in Nat /\ rb[j] \in Nat /\ rb[j + 1] \in Nat /\ share[j] \in Nat
    /\ rb[cur] = 0
    /\ \A j \in cur .. n : rb[j + 1] = rb[j] + room[j]
    /\ \A j \in 1 .. n : share[j] = IF j < cur \/ w - rb[j] <= 0 THEN 0
                                    ELSE IF room[j] < w - rb[j] THEN room[j] ELSE w - rb[j]

LEMMA RoomGrows ==
    ASSUME NEW n \in Nat, NEW cur \in Nat, NEW w \in Nat, NEW room, NEW rb, NEW share, Shared(n, cur, w, room, rb, share),
           NEW j \in cur .. n, NEW d \in Nat, j + d <= n + 1
    PROVE  rb[j] \in Nat /\ rb[j + d] \in Nat /\ rb[j] <= rb[j + d]
<1>1. cur \in 1 .. n /\ \A k \in 1 .. n : room[k] \in Nat /\ rb[k] \in Nat /\ rb[k + 1] \in Nat
  BY DEF Shared
<1>2. \A k \in cur .. n : rb[k + 1] = rb[k] + room[k]
  BY DEF Shared
<1>3. j \in 1 .. n /\ j \in Nat
  BY <1>1
<1> DEFINE T == {e \in Nat : j + e <= n + 1 => rb[j + e] \in Nat /\ rb[j] <= rb[j + e]}
<1>4. 0 \in T
  <2>1. j + 0 = j
    BY <1>3
  <2>2. QED
    BY <1>1, <1>3, <2>1
<1>5. ASSUME NEW e \in Nat, e \in T PROVE e + 1 \in T
  <2>1. SUFFICES ASSUME j + (e + 1) <= n + 1 PROVE rb[j + (e + 1)] \in Nat /\ rb[j] <= rb[j + (e + 1)]
    OBVIOUS
  <2>2. PICK k \in cur .. n : k = j + e /\ k + 1 = j + (e + 1) /\ k \in 1 .. n
    BY <1>1, <1>3, <2>1
  <2>3. rb[j] <= rb[k]
    BY <1>3, <1>5, <2>1, <2>2
  <2>4. PICK a \in Nat, b \in Nat, c \in Nat : a = rb[j] /\ b = rb[k] /\ c = room[k] /\ rb[k + 1] = b + c
    BY <1>1, <1>2, <1>3, <2>2
  <2>5. QED
    BY <2>2, <2>3, <2>4
<1> HIDE DEF T
<1>6. d \in T
  BY <1>4, <1>5, SetInduction
<1>7. QED
  BY <1>1, <1>3, <1>6 DEF T

(* What there is room for ends at one of the mbufs. *)
LEMMA LastExists ==
    ASSUME NEW n \in Nat, NEW cur \in Nat, NEW w \in Nat, NEW room, NEW rb, NEW share, Shared(n, cur, w, room, rb, share),
           w <= rb[n + 1]
    PROVE  \E i \in cur .. n : rb[i] + share[i] = w
<1>1. cur \in 1 .. n /\ \A k \in 1 .. n : room[k] \in Nat /\ rb[k] \in Nat /\ rb[k + 1] \in Nat
  BY DEF Shared
<1>2. rb[cur] = 0 /\ \A k \in cur .. n : rb[k + 1] = rb[k] + room[k]
  BY DEF Shared
<1>3. \A k \in 1 .. n : share[k] = IF k < cur \/ w - rb[k] <= 0 THEN 0
                                   ELSE IF room[k] < w - rb[k] THEN room[k] ELSE w - rb[k]
  BY DEF Shared
<1> DEFINE Ends == \E i \in cur .. n : rb[i] + share[i] = w
           T == {e \in Nat : cur + e <= n + 1 /\ w <= rb[cur + e] => Ends}
<1>4. cur \in cur .. n /\ cur \in 1 .. n
  BY <1>1
<1>5. 0 \in T
  <2>1. SUFFICES ASSUME w <= rb[cur + 0] PROVE Ends
    OBVIOUS
  <2>2. cur + 0 = cur /\ w = 0
    BY <1>2, <2>1
  <2>3. share[cur] = 0
    BY <1>2, <1>3, <1>4, <2>2
  <2>4. rb[cur] + share[cur] = w
    BY <1>2, <2>2, <2>3
  <2>5. QED
    BY <1>4, <2>4
<1>6. ASSUME NEW e \in Nat, e \in T PROVE e + 1 \in T
  <2>1. SUFFICES ASSUME cur + (e + 1) <= n + 1, w <= rb[cur + (e + 1)] PROVE Ends
    OBVIOUS
  <2>2. PICK k \in cur .. n : k = cur + e /\ k + 1 = cur + (e + 1) /\ k \in 1 .. n
    BY <1>1, <2>1
  <2>3. PICK b \in Nat, c \in Nat : b = rb[k] /\ c = room[k] /\ rb[k + 1] = b + c
    BY <1>1, <1>2, <2>2
  <2>4. CASE w <= b
    BY <1>6, <2>1, <2>2, <2>3, <2>4
  <2>5. CASE ~ (w <= b)
    <3>1. share[k] = IF k < cur \/ w - b <= 0 THEN 0 ELSE IF c < w - b THEN c ELSE w - b
      BY <1>3, <2>2, <2>3
    <3>2. w <= b + c /\ ~ (k < cur)
      BY <2>1, <2>2, <2>3
    <3>3. share[k] = w - b
      BY <2>5, <3>1, <3>2
    <3>4. rb[k] + share[k] = w
      BY <2>3, <3>3
    <3>5. QED
      BY <2>2, <3>4
  <2>6. QED
    BY <2>4, <2>5
<1> HIDE DEF T, Ends
<1>7. PICK e \in Nat : e = (n + 1) - cur /\ cur + e = n + 1
  BY <1>1
<1>8. e \in T
  BY <1>5, <1>6, <1>7, SetInduction
<1>9. QED
  BY <1>7, <1>8 DEF T, Ends

(* Up to that mbuf each is filled, and behind it nothing is added. *)
LEMMA SharesFill ==
    ASSUME NEW n \in Nat, NEW cur \in Nat, NEW w \in Nat, NEW room, NEW rb, NEW share, Shared(n, cur, w, room, rb, share),
           NEW c \in cur .. n, rb[c] + share[c] = w, NEW j \in cur .. n
    PROVE  (j < c => share[j] = room[j]) /\ (j > c => share[j] = 0)
<1>1. cur \in 1 .. n /\ c \in 1 .. n /\ j \in 1 .. n /\ ~ (j < cur) /\ ~ (c < cur)
  BY DEF Shared
<1>2. \A k \in 1 .. n : room[k] \in Nat /\ rb[k] \in Nat /\ rb[k + 1] \in Nat /\ share[k] \in Nat
  BY DEF Shared
<1>3. \A k \in cur .. n : rb[k + 1] = rb[k] + room[k]
  BY DEF Shared
<1>4. \A k \in 1 .. n : share[k] = IF k < cur \/ w - rb[k] <= 0 THEN 0
                                   ELSE IF room[k] < w - rb[k] THEN room[k] ELSE w - rb[k]
  BY DEF Shared
<1>5. PICK rj \in Nat, bj \in Nat, sj \in Nat : rj = room[j] /\ bj = rb[j] /\ sj = share[j] /\ rb[j + 1] = bj + rj
  BY <1>1, <1>2, <1>3
<1>6. PICK rc \in Nat, bc \in Nat, sc \in Nat : rc = room[c] /\ bc = rb[c] /\ sc = share[c] /\ rb[c + 1] = bc + rc
  BY <1>1, <1>2, <1>3
<1>7. sj = IF w - bj <= 0 THEN 0 ELSE IF rj < w - bj THEN rj ELSE w - bj
  BY <1>1, <1>4, <1>5
<1>8. sc = IF w - bc <= 0 THEN 0 ELSE IF rc < w - bc THEN rc ELSE w - bc
  BY <1>1, <1>4, <1>6
<1>9. bc + sc = w
  BY <1>6
<1>10. CASE j < c
  <2>1. PICK d \in Nat : j + 1 \in cur .. n /\ (j + 1) + d = c /\ (j + 1) + d <= n + 1
    <3>1. c - (j + 1) \in Nat /\ j + 1 \in cur .. n /\ (j + 1) + (c - (j + 1)) = c /\ c <= n + 1
      BY <1>1, <1>10
    <3>2. QED
      BY <3>1
  <2>2. rb[j + 1] <= rb[(j + 1) + d]
    BY <2>1, RoomGrows
  <2>3. bj + rj <= bc
    BY <1>5, <1>6, <2>1, <2>2
  <2>4. sj = rj
    BY <1>7, <1>9, <2>3
  <2>5. QED
    BY <1>5, <1>10, <2>4
<1>11. CASE j > c
  <2>1. PICK d \in Nat : c + 1 \in cur .. n /\ (c + 1) + d = j /\ (c + 1) + d <= n + 1
    <3>1. j - (c + 1) \in Nat /\ c + 1 \in cur .. n /\ (c + 1) + (j - (c + 1)) = j /\ j <= n + 1
      BY <1>1, <1>11
    <3>2. QED
      BY <3>1
  <2>2. rb[c + 1] <= rb[(c + 1) + d]
    BY <2>1, RoomGrows
  <2>3. bc + rc <= bj
    BY <1>5, <1>6, <2>1, <2>2
  <2>4. sc <= rc
    BY <1>8
  <2>5. sj = 0
    BY <1>7, <1>9, <2>3, <2>4
  <2>6. QED
    BY <1>5, <1>11, <2>5
<1>12. QED
  BY <1>10, <1>11

(* A chain that is full before cur and empty behind it. *)
FullUpTo(f, space, n, cur) ==
    \A j \in 1 .. n : f[j] \in Nat /\ space[j] \in Nat /\ (j < cur => f[j] = space[j]) /\ (j > cur => f[j] = 0)

LEMMA HeldSum ==
    ASSUME NEW n \in Nat, NEW cur \in 1 .. n, NEW f, NEW space, FullUpTo(f, space, n, cur)
    PROVE  /\ UpTo(f, cur - 1) \in Nat /\ UpTo(f, n) = UpTo(f, cur - 1) + f[cur]
           /\ UpTo(space, cur - 1) = UpTo(f, cur - 1)
<1>1. \A j \in 1 .. n : f[j] \in Int /\ f[j] \in Nat /\ space[j] \in Nat
  BY DEF FullUpTo
<1>2. ASSUME NEW j \in cur + 1 .. n PROVE f[j] = 0
  <2>1. j \in 1 .. n /\ j > cur
    OBVIOUS
  <2>2. QED
    BY <2>1 DEF FullUpTo
<1>3. UpTo(f, n) = UpTo(f, cur)
  <2>1. cur \in 0 .. n
    OBVIOUS
  <2>2. QED
    BY <1>1, <1>2, <2>1, UpToZeros
<1>4. UpTo(f, cur - 1) \in Int /\ UpTo(f, cur) = UpTo(f, cur - 1) + f[cur]
  <2>1. cur \in Nat /\ cur > 0 /\ \A j \in 1 .. cur : f[j] \in Int
    BY <1>1
  <2>2. QED
    BY <2>1, UpToStep
<1>5. UpTo(f, cur - 1) \in Nat
  <2>1. cur - 1 \in Nat /\ \A j \in 1 .. cur - 1 : f[j] \in Nat
    BY <1>1
  <2>2. IsFiniteSet(1 .. cur - 1)
    BY <2>1, FS_Interval
  <2>3. QED
    BY <2>1, <2>2, SumOfNat DEF UpTo
<1>6. UpTo(f, cur - 1) = UpTo(space, cur - 1)
  <2>1. cur - 1 \in Nat
    OBVIOUS
  <2>2. ASSUME NEW j \in 1 .. cur - 1 PROVE f[j] \in Int /\ f[j] = space[j]
    <3>1. j \in 1 .. n /\ j < cur
      OBVIOUS
    <3>2. QED
      BY <1>1, <3>1 DEF FullUpTo
  <2>3. QED
    BY <2>1, <2>2, UpToEqual
<1>7. QED
  BY <1>3, <1>4, <1>5, <1>6

(* The room of each mbuf, and what each holds after its share. *)
RoomOf(room, space, f, n) == \A j \in 1 .. n : room[j] = space[j] - f[j]

Added(g, f, share, n) == \A j \in 1 .. n : g[j] = f[j] + share[j]

(* What is held and what there is room for is the space of the chain. *)
LEMMA SpaceLeft ==
    ASSUME NEW n \in Nat, NEW cur \in 1 .. n, NEW w \in Nat, NEW room, NEW rb, NEW share,
           Shared(n, cur, w, room, rb, share), NEW f, NEW space, FullUpTo(f, space, n, cur),
           RoomOf(room, space, f, n)
    PROVE  UpTo(f, n) \in Nat /\ rb[n + 1] \in Nat /\ UpTo(space, n) = UpTo(f, n) + rb[n + 1]
<1>1. \A k \in 1 .. n : room[k] \in Nat /\ rb[k] \in Nat /\ rb[k + 1] \in Nat
  BY DEF Shared
<1>2. rb[cur] = 0 /\ \A k \in cur .. n : rb[k + 1] = rb[k] + room[k]
  BY DEF Shared
<1>3. \A j \in 1 .. n : f[j] \in Nat /\ space[j] \in Nat /\ (j > cur => f[j] = 0) /\ room[j] = space[j] - f[j]
  BY DEF FullUpTo, RoomOf
<1>4. PICK u \in Nat, a \in Nat : u = UpTo(f, cur - 1) /\ a = f[cur] /\ UpTo(f, n) = u + a /\ UpTo(space, cur - 1) = u
  BY <1>3, HeldSum
<1>5. \A k \in 1 .. n : UpTo(space, k) = UpTo(space, k - 1) + space[k] /\ UpTo(space, k - 1) \in Int
  <2>1. ASSUME NEW k \in 1 .. n PROVE UpTo(space, k) = UpTo(space, k - 1) + space[k] /\ UpTo(space, k - 1) \in Int
    <3>1. k \in Nat /\ k > 0 /\ \A j \in 1 .. k : space[j] \in Int
      BY <1>3
    <3>2. QED
      BY <3>1, UpToStep
  <2>2. QED
    BY <2>1
<1> DEFINE T == {e \in Nat : cur + e <= n => UpTo(space, cur + e) = u + a + rb[cur + e + 1]}
<1>6. 0 \in T
  <2>1. cur + 0 = cur /\ cur \in cur .. n
    OBVIOUS
  <2>2. PICK r \in Nat, s \in Nat : r = room[cur] /\ s = space[cur] /\ r = s - a /\ rb[cur + 1] = r
    <3>1. PICK r \in Nat, s \in Nat : r = room[cur] /\ s = space[cur]
      BY <1>1, <1>3, <2>1
    <3>2. r = s - a
      BY <1>3, <1>4, <2>1, <3>1
    <3>3. rb[cur + 1] = r
      BY <1>2, <2>1, <3>1
    <3>4. QED
      BY <3>1, <3>2, <3>3
  <2>3. UpTo(space, cur) = u + s
    BY <1>4, <1>5, <2>2
  <2>4. QED
    BY <2>1, <2>2, <2>3
<1>7. ASSUME NEW e \in Nat, e \in T PROVE e + 1 \in T
  <2>1. SUFFICES ASSUME cur + (e + 1) <= n PROVE UpTo(space, cur + (e + 1)) = u + a + rb[cur + (e + 1) + 1]
    OBVIOUS
  <2>2. PICK k \in cur .. n : /\ k = cur + (e + 1) /\ k - 1 = cur + e /\ cur + e + 1 = k /\ k > cur /\ k \in 1 .. n
                              /\ cur + (e + 1) + 1 = k + 1
    BY <2>1
  <2>3. PICK r \in Nat, b \in Nat : r = room[k] /\ b = rb[k] /\ rb[k + 1] = b + r /\ space[k] = r
    <3>1. PICK r \in Nat, b \in Nat : r = room[k] /\ b = rb[k]
      BY <1>1, <2>2
    <3>2. PICK s \in Nat : s = space[k] /\ f[k] = 0 /\ r = s - f[k]
      BY <1>3, <2>2, <3>1
    <3>3. s = r
      BY <3>2
    <3>4. QED
      BY <1>2, <2>2, <3>1, <3>2, <3>3
  <2>4. UpTo(space, k - 1) = u + a + b
    BY <1>7, <2>1, <2>2, <2>3
  <2>5. UpTo(space, k) = UpTo(space, k - 1) + r
    BY <1>5, <2>2, <2>3
  <2>6. QED
    BY <2>2, <2>3, <2>4, <2>5
<1> HIDE DEF T
<1>8. PICK e \in Nat : e = n - cur /\ cur + e = n /\ cur + e + 1 = n + 1
  OBVIOUS
<1>9. e \in T
  BY <1>6, <1>7, <1>8, SetInduction
<1>10. n \in 1 .. n /\ rb[n + 1] \in Nat
  BY <1>1
<1>11. UpTo(space, n) = u + a + rb[n + 1]
  BY <1>8, <1>9 DEF T
<1>12. QED
  BY <1>4, <1>10, <1>11

(* What the mbufs hold when w bytes more were shared out. *)
FilledSums(g, f, rb, w, cur, n) ==
    /\ \A j \in 1 .. cur : UpTo(g, j - 1) = UpTo(f, j - 1)
    /\ \A j \in cur .. n : UpTo(g, j) = UpTo(f, n) + (IF w <= rb[j + 1] THEN w ELSE rb[j + 1])

LEMMA SharesSum ==
    ASSUME NEW n \in Nat, NEW cur \in 1 .. n, NEW w \in Nat, NEW room, NEW rb, NEW share,
           Shared(n, cur, w, room, rb, share), NEW f, NEW space, FullUpTo(f, space, n, cur),
           RoomOf(room, space, f, n), NEW g, Added(g, f, share, n)
    PROVE  FilledSums(g, f, rb, w, cur, n)
<1>1. \A k \in 1 .. n : room[k] \in Nat /\ rb[k] \in Nat /\ rb[k + 1] \in Nat /\ share[k] \in Nat
  BY DEF Shared
<1>2. rb[cur] = 0 /\ \A k \in cur .. n : rb[k + 1] = rb[k] + room[k]
  BY DEF Shared
<1>3. \A k \in 1 .. n : share[k] = IF k < cur \/ w - rb[k] <= 0 THEN 0
                                   ELSE IF room[k] < w - rb[k] THEN room[k] ELSE w - rb[k]
  BY DEF Shared
<1>4. \A j \in 1 .. n : /\ f[j] \in Nat /\ space[j] \in Nat /\ (j > cur => f[j] = 0)
                         /\ room[j] = space[j] - f[j] /\ g[j] = f[j] + share[j]
  BY DEF FullUpTo, RoomOf, Added
<1>5. \A j \in 1 .. n : g[j] \in Int
  BY <1>1, <1>4
<1>6. ASSUME NEW j \in 1 .. cur PROVE UpTo(g, j - 1) = UpTo(f, j - 1)
  <2>1. j - 1 \in Nat
    OBVIOUS
  <2>2. ASSUME NEW k \in 1 .. j - 1 PROVE g[k] \in Int /\ g[k] = f[k]
    <3>1. k \in 1 .. n /\ k < cur
      OBVIOUS
    <3>2. share[k] = 0
      BY <1>3, <3>1
    <3>3. QED
      BY <1>4, <1>5, <3>1, <3>2
  <2>3. QED
    BY <2>1, <2>2, UpToEqual
<1>7. PICK u \in Nat, a \in Nat : u = UpTo(f, cur - 1) /\ a = f[cur] /\ UpTo(f, n) = u + a
  BY <1>4, HeldSum
<1>8. \A k \in 1 .. n : UpTo(g, k) = UpTo(g, k - 1) + g[k] /\ UpTo(g, k - 1) \in Int
  <2>1. ASSUME NEW k \in 1 .. n PROVE UpTo(g, k) = UpTo(g, k - 1) + g[k] /\ UpTo(g, k - 1) \in Int
    <3>1. k \in Nat /\ k > 0 /\ \A j \in 1 .. k : g[j] \in Int
      BY <1>5
    <3>2. QED
      BY <3>1, UpToStep
  <2>2. QED
    BY <2>1
<1> DEFINE Filled(j) == UpTo(g, j) = u + a + (IF w <= rb[j + 1] THEN w ELSE rb[j + 1])
           T == {e \in Nat : cur + e <= n => Filled(cur + e)}
<1>9. 0 \in T
  <2>1. cur + 0 = cur /\ cur \in cur .. n /\ cur \in 1 .. cur /\ cur \in 1 .. n
    OBVIOUS
  <2>2. PICK r \in Nat, s \in Nat : r = room[cur] /\ s = share[cur] /\ rb[cur + 1] = r
    BY <1>1, <1>2, <2>1
  <2>3. s = IF w - 0 <= 0 THEN 0 ELSE IF r < w - 0 THEN r ELSE w - 0
    BY <1>2, <1>3, <2>1, <2>2
  <2>4. s = IF w <= r THEN w ELSE r
    BY <2>3
  <2>5. UpTo(g, cur - 1) = u
    BY <1>6, <1>7, <2>1
  <2>6. UpTo(g, cur) = u + (a + s)
    BY <1>4, <1>7, <1>8, <2>1, <2>2, <2>5
  <2>7. Filled(cur)
    BY <2>2, <2>4, <2>6
  <2>8. QED
    BY <2>1, <2>7
<1>10. ASSUME NEW e \in Nat, e \in T PROVE e + 1 \in T
  <2>1. SUFFICES ASSUME cur + (e + 1) <= n PROVE Filled(cur + (e + 1))
    OBVIOUS
  <2>2. PICK k \in cur .. n : k = cur + (e + 1) /\ k - 1 = cur + e /\ (k - 1) + 1 = k /\ k > cur /\ k \in 1 .. n
    BY <2>1
  <2>3. PICK r \in Nat, b \in Nat, s \in Nat : r = room[k] /\ b = rb[k] /\ s = share[k] /\ rb[k + 1] = b + r /\ g[k] = s
    <3>1. PICK r \in Nat, b \in Nat, s \in Nat : r = room[k] /\ b = rb[k] /\ s = share[k]
      BY <1>1, <2>2
    <3>2. f[k] = 0 /\ g[k] = f[k] + share[k]
      BY <1>4, <2>2
    <3>3. QED
      BY <1>2, <2>2, <3>1, <3>2
  <2>4. s = IF w - b <= 0 THEN 0 ELSE IF r < w - b THEN r ELSE w - b
    BY <1>3, <2>2, <2>3
  <2>5. Filled(k - 1)
    BY <1>10, <2>1, <2>2
  <2>6. UpTo(g, k - 1) = u + a + (IF w <= b THEN w ELSE b)
    BY <2>2, <2>3, <2>5
  <2>7. UpTo(g, k) = UpTo(g, k - 1) + s
    BY <1>8, <2>2, <2>3
  <2>8. (IF w <= b THEN w ELSE b) + s = IF w <= b + r THEN w ELSE b + r
    BY <2>4
  <2>9. UpTo(g, k) = u + a + (IF w <= b + r THEN w ELSE b + r)
    BY <2>6, <2>7, <2>8
  <2>10. Filled(k)
    BY <2>3, <2>9
  <2>11. QED
    BY <2>2, <2>10
<1> HIDE DEF T
<1>11. ASSUME NEW j \in cur .. n PROVE UpTo(g, j) = UpTo(f, n) + (IF w <= rb[j + 1] THEN w ELSE rb[j + 1])
  <2>1. PICK e \in Nat : e = j - cur /\ cur + e = j /\ j <= n
    OBVIOUS
  <2>2. e \in T
    BY <1>9, <1>10, <2>1, SetInduction
  <2>3. Filled(j)
    BY <2>1, <2>2 DEF T
  <2>4. QED
    BY <1>7, <2>3
<1>12. QED
  BY <1>6, <1>11 DEF FilledSums

(* The room before an mbuf of a chain is the sum over the mbufs from cur on. *)
LEMMA RoomShared ==
    ASSUME NEW z, NEW n \in Nat, NEW cur \in 1 .. n, NEW w \in Nat, cur = z.cur,
           \A k \in 1 .. n : Room(z, k) \in Nat,
           NEW room, room = [k \in 1 .. n |-> Room(z, k)],
           NEW rb, rb = [j \in 1 .. n + 1 |-> RoomBefore(z, j)],
           NEW share, share = [j \in 1 .. n |-> Share(z, w, j)]
    PROVE  Shared(n, cur, w, room, rb, share)
<1>1. \A k \in 1 .. n : room[k] \in Nat /\ room[k] = Room(z, k)
  OBVIOUS
<1>2. \A j \in 1 .. n + 1 : rb[j] = SumFunctionOnSet(room, cur .. j - 1) /\ rb[j] \in Nat
  <2>1. SUFFICES ASSUME NEW j \in 1 .. n + 1 PROVE rb[j] = SumFunctionOnSet(room, cur .. j - 1) /\ rb[j] \in Nat
    OBVIOUS
  <2>2. PICK S : S = cur .. j - 1 /\ IsFiniteSet(S) /\ \A k \in S : k \in 1 .. n
    <3>1. cur \in Int /\ j - 1 \in Int
      OBVIOUS
    <3>2. IsFiniteSet(cur .. j - 1)
      BY <3>1, FS_Interval
    <3>3. QED
      BY <3>2
  <2>3. \A k \in S : room[k] \in Nat /\ room[k] = Room(z, k)
    BY <1>1, <2>2
  <2>4. rb[j] = SumFunction([k \in S |-> Room(z, k)])
    BY <2>2 DEF RoomBefore
  <2>5. [k \in S |-> Room(z, k)] = [k \in S |-> room[k]]
    BY <2>3
  <2>6. SumFunction([k \in S |-> room[k]]) = SumFunctionOnSet(room, S) /\ SumFunctionOnSet(room, S) \in Nat
    BY <2>2, <2>3, SumOfPart
  <2>7. QED
    BY <2>2, <2>4, <2>5, <2>6
<1>3. rb[cur] = 0
  <2>1. cur \in 1 .. n + 1 /\ cur .. cur - 1 = {}
    OBVIOUS
  <2>2. SumFunctionOnSet(room, {}) = 0
    BY FS_EmptySet, SumStep
  <2>3. QED
    BY <1>2, <2>1, <2>2
<1>4. \A j \in cur .. n : rb[j + 1] = rb[j] + room[j]
  <2>1. SUFFICES ASSUME NEW j \in cur .. n PROVE rb[j + 1] = rb[j] + room[j]
    OBVIOUS
  <2>2. PICK S : S = cur .. j - 1 /\ IsFiniteSet(S) /\ j \notin S /\ S \cup {j} = cur .. j /\ \A k \in S \cup {j} : k \in 1 .. n
    <3>1. cur \in Int /\ j - 1 \in Int
      OBVIOUS
    <3>2. IsFiniteSet(cur .. j - 1)
      BY <3>1, FS_Interval
    <3>3. QED
      BY <3>2, SMTT(60)
  <2>3. \A k \in S \cup {j} : room[k] \in Int
    BY <1>1, <2>2
  <2>4. SumFunctionOnSet(room, S) \in Int /\ SumFunctionOnSet(room, S \cup {j}) = room[j] + SumFunctionOnSet(room, S)
    BY <2>2, <2>3, SumAdd
  <2>5. j \in 1 .. n + 1 /\ j + 1 \in 1 .. n + 1 /\ (j + 1) - 1 = j /\ j \in 1 .. n
    OBVIOUS
  <2>6. rb[j] = SumFunctionOnSet(room, S) /\ rb[j + 1] = SumFunctionOnSet(room, S \cup {j})
    BY <1>2, <2>2, <2>5
  <2>7. PICK a \in Nat, b \in Nat : a = room[j] /\ b = rb[j]
    BY <1>1, <1>2, <2>5
  <2>8. QED
    BY <2>4, <2>6, <2>7
<1>5. \A j \in 1 .. n : share[j] = IF j < cur \/ w - rb[j] <= 0 THEN 0
                                   ELSE IF room[j] < w - rb[j] THEN room[j] ELSE w - rb[j]
  <2>1. SUFFICES ASSUME NEW j \in 1 .. n
                 PROVE  share[j] = IF j < cur \/ w - rb[j] <= 0 THEN 0
                                   ELSE IF room[j] < w - rb[j] THEN room[j] ELSE w - rb[j]
    OBVIOUS
  <2>2. rb[j] = RoomBefore(z, j) /\ room[j] = Room(z, j) /\ share[j] = Share(z, w, j)
    <3>1. j \in 1 .. n + 1
      OBVIOUS
    <3>2. QED
      BY <3>1
  <2>3. QED
    BY <2>2 DEF Share
<1>6. \A j \in 1 .. n : share[j] \in Nat
  <2>1. SUFFICES ASSUME NEW j \in 1 .. n PROVE share[j] \in Nat
    OBVIOUS
  <2>2. PICK a \in Nat, b \in Nat : a = room[j] /\ b = rb[j]
    <3>1. j \in 1 .. n + 1
      OBVIOUS
    <3>2. QED
      BY <1>1, <1>2, <3>1
  <2>3. share[j] = IF j < cur \/ w - b <= 0 THEN 0 ELSE IF a < w - b THEN a ELSE w - b
    BY <1>5, <2>2
  <2>4. QED
    BY <2>3
<1>7. \A j \in 1 .. n : rb[j] \in Nat /\ rb[j + 1] \in Nat
  <2>1. \A j \in 1 .. n : j \in 1 .. n + 1 /\ j + 1 \in 1 .. n + 1
    OBVIOUS
  <2>2. QED
    BY <1>2, <2>1
<1>8. QED
  BY <1>1, <1>3, <1>4, <1>5, <1>6, <1>7 DEF Shared

(* What each mbuf holds after a write: its share from its place on. *)
Grown(tt, ss, share, rb, off, n) == \A j \in 1 .. n : Longer(tt[j], ss[j], share[j], off + rb[j])

(* A write of w bytes to a chain. *)
Writing(space, ss, tt, n, cur, off, len, w, room, rb, share) ==
    /\ n = Len(space) /\ n = Len(ss) /\ n = Len(tt)
    /\ ChainPlaced(space, ss, cur, off, len)
    /\ off + w <= len
    /\ Shared(n, cur, w, room, rb, share)
    /\ RoomOf(room, space, Lens(ss), n)
    /\ Grown(tt, ss, share, rb, off, n)

(* A chain has room for what is left of its length. *)
LEMMA ChainHasRoom ==
    ASSUME NEW space \in Seq(Nat), NEW ss \in Seq(Seq(Nat)), NEW tt \in Seq(Seq(Nat)),
           NEW n \in Nat, NEW cur \in 1 .. n, NEW off \in Nat, NEW len \in Nat, NEW w \in Nat,
           NEW room, NEW rb, NEW share, Writing(space, ss, tt, n, cur, off, len, w, room, rb, share)
    PROVE  w <= rb[n + 1] /\ FullUpTo(Lens(ss), space, n, cur)
<1>1. /\ n = Len(space) /\ n = Len(ss) /\ n = Len(tt)
      /\ ChainPlaced(space, ss, cur, off, len)
      /\ off + w <= len
      /\ Shared(n, cur, w, room, rb, share)
      /\ RoomOf(room, space, Lens(ss), n)
      /\ Grown(tt, ss, share, rb, off, n)
  BY DEF Writing
<1>2. off = UpTo(Lens(ss), n) /\ len <= UpTo(space, n)
  BY <1>1 DEF ChainPlaced
<1>3. PICK f : f = Lens(ss)
  OBVIOUS
<1>4. \A j \in 1 .. n : f[j] \in Nat /\ f[j] = Len(ss[j])
  BY <1>1, <1>3, LensNat
<1>5. \A j \in 1 .. n : space[j] \in Nat
  BY <1>1, ElementOfSeq
<1>6. \A j \in 1 .. n : (j < cur => f[j] = space[j]) /\ (j > cur => f[j] = 0)
  BY <1>1, <1>4 DEF ChainPlaced
<1>7. FullUpTo(f, space, n, cur)
  BY <1>4, <1>5, <1>6 DEF FullUpTo
<1>8. RoomOf(room, space, f, n)
  BY <1>1, <1>3
<1>9. UpTo(f, n) \in Nat /\ rb[n + 1] \in Nat /\ UpTo(space, n) = UpTo(f, n) + rb[n + 1]
  BY <1>1, <1>7, <1>8, SpaceLeft
<1>10. off + w <= off + rb[n + 1]
  BY <1>1, <1>2, <1>3, <1>9
<1>11. w <= rb[n + 1]
  BY <1>9, <1>10
<1>12. QED
  BY <1>3, <1>7, <1>11

LEMMA GrownLens ==
    ASSUME NEW ss \in Seq(Seq(Nat)), NEW tt \in Seq(Seq(Nat)), NEW n \in Nat, n = Len(ss), n = Len(tt),
           NEW share, NEW rb, NEW off, Grown(tt, ss, share, rb, off, n)
    PROVE  Added(Lens(tt), Lens(ss), share, n)
<1>1. \A j \in 1 .. n : Lens(ss)[j] = Len(ss[j])
  BY LensNat
<1>2. \A j \in 1 .. n : Lens(tt)[j] = Len(tt[j])
  BY LensNat
<1>3. \A j \in 1 .. n : Len(tt[j]) = Len(ss[j]) + share[j]
  BY DEF Grown, Longer
<1>4. QED
  BY <1>1, <1>2, <1>3 DEF Added

(* A write of w bytes that ends at mbuf c. *)
LEMMA WriteNumbered ==
    ASSUME NEW space \in Seq(Nat), NEW ss \in Seq(Seq(Nat)), NEW tt \in Seq(Seq(Nat)),
           NEW n \in Nat, NEW cur \in 1 .. n, NEW off \in Nat, NEW len \in Nat, NEW w \in Nat,
           NEW room, NEW rb, NEW share, Writing(space, ss, tt, n, cur, off, len, w, room, rb, share)
    PROVE  Numbered(tt) /\ UpTo(Lens(tt), n) = off + w
<1>1. /\ n = Len(space) /\ n = Len(ss) /\ n = Len(tt)
      /\ ChainPlaced(space, ss, cur, off, len)
      /\ off + w <= len
      /\ Shared(n, cur, w, room, rb, share)
      /\ RoomOf(room, space, Lens(ss), n)
      /\ Grown(tt, ss, share, rb, off, n)
  BY DEF Writing
<1>2. w <= rb[n + 1] /\ FullUpTo(Lens(ss), space, n, cur)
  BY ChainHasRoom
<1>3. PICK f, g : f = Lens(ss) /\ g = Lens(tt)
  OBVIOUS
<1>4. FullUpTo(f, space, n, cur) /\ RoomOf(room, space, f, n)
  BY <1>1, <1>2, <1>3
<1>5. Added(g, f, share, n)
  BY <1>1, <1>3, GrownLens
<1>6. /\ \A j \in 1 .. cur : UpTo(g, j - 1) = UpTo(f, j - 1)
      /\ \A j \in cur .. n : UpTo(g, j) = UpTo(f, n) + (IF w <= rb[j + 1] THEN w ELSE rb[j + 1])
  <2>1. FilledSums(g, f, rb, w, cur, n)
    BY <1>1, <1>4, <1>5, SharesSum
  <2>2. QED
    BY <2>1 DEF FilledSums
<1>7. off = UpTo(f, n) /\ Numbered(ss)
  BY <1>1, <1>3 DEF ChainPlaced
<1>8. UpTo(g, n) = off + w
  <2>1. n \in cur .. n
    OBVIOUS
  <2>2. UpTo(g, n) = UpTo(f, n) + (IF w <= rb[n + 1] THEN w ELSE rb[n + 1])
    BY <1>6, <2>1
  <2>3. QED
    BY <1>2, <1>7, <2>2
<1>9. \A j \in 1 .. n : rb[j] \in Nat /\ share[j] \in Nat
  BY <1>1 DEF Shared
<1>10. rb[cur] = 0 /\ \A j \in 1 .. n : share[j] = IF j < cur \/ w - rb[j] <= 0 THEN 0
                                                  ELSE IF room[j] < w - rb[j] THEN room[j] ELSE w - rb[j]
  BY <1>1 DEF Shared
<1>11. PICK base : base = [j \in 1 .. n |-> off + rb[j]]
  OBVIOUS
<1>12. \A j \in 1 .. n : share[j] \in Nat /\ Longer(tt[j], ss[j], share[j], base[j])
  BY <1>1, <1>9, <1>11 DEF Grown
<1>13. \A j \in 1 .. n : f[j] \in Nat /\ f[j] = Len(ss[j])
  BY <1>1, <1>3, LensNat
<1>14. ASSUME NEW j \in 1 .. n, Len(ss[j]) > 0 PROVE UpTo(g, j - 1) = UpTo(f, j - 1)
  <2>1. ~ (f[j] = 0)
    BY <1>13, <1>14
  <2>2. ~ (j > cur)
    BY <1>4, <2>1 DEF FullUpTo
  <2>3. j \in 1 .. cur
    BY <2>2
  <2>4. QED
    BY <1>6, <2>3
<1>15. ASSUME NEW j \in 1 .. n, share[j] > 0 PROVE base[j] = UpTo(g, j - 1) + Len(ss[j])
  <2>1. PICK b \in Nat : b = rb[j] /\ base[j] = off + b
    BY <1>9, <1>11
  <2>2. ~ (j < cur) /\ ~ (w - b <= 0)
    BY <1>10, <1>15, <2>1
  <2>3. CASE j = cur
    <3>1. UpTo(f, cur - 1) \in Nat /\ UpTo(f, n) = UpTo(f, cur - 1) + f[cur]
      BY <1>4, HeldSum
    <3>2. cur \in 1 .. cur
      OBVIOUS
    <3>3. UpTo(g, j - 1) = UpTo(f, cur - 1)
      BY <1>6, <2>3, <3>2
    <3>4. b = 0 /\ f[cur] = Len(ss[j])
      BY <1>10, <1>13, <2>1, <2>3
    <3>5. QED
      BY <1>7, <2>1, <3>1, <3>3, <3>4
  <2>4. CASE j # cur
    <3>1. j > cur /\ j - 1 \in cur .. n /\ (j - 1) + 1 = j
      BY <2>2, <2>4
    <3>2. UpTo(g, j - 1) = UpTo(f, n) + (IF w <= rb[j] THEN w ELSE rb[j])
      BY <1>6, <3>1
    <3>3. UpTo(g, j - 1) = off + b
      BY <1>7, <2>1, <2>2, <3>2
    <3>4. f[j] = 0
      BY <1>4, <3>1 DEF FullUpTo
    <3>5. QED
      BY <1>13, <2>1, <3>3, <3>4
  <2>5. QED
    BY <2>3, <2>4
<1>16. Numbered(tt)
  <2>1. /\ Len(tt) = Len(ss)
        /\ \A j \in 1 .. Len(ss) : share[j] \in Nat /\ Longer(tt[j], ss[j], share[j], base[j])
        /\ \A j \in 1 .. Len(ss) : Len(ss[j]) > 0 => UpTo(Lens(tt), j - 1) = UpTo(Lens(ss), j - 1)
        /\ \A j \in 1 .. Len(ss) : share[j] > 0 => base[j] = UpTo(Lens(tt), j - 1) + Len(ss[j])
    BY <1>1, <1>3, <1>12, <1>14, <1>15
  <2>2. QED
    BY <1>7, <2>1, NumberedGrows
<1>17. QED
  BY <1>3, <1>8, <1>16

LEMMA WritePlaced ==
    ASSUME NEW space \in Seq(Nat), NEW ss \in Seq(Seq(Nat)), NEW tt \in Seq(Seq(Nat)),
           NEW n \in Nat, NEW cur \in 1 .. n, NEW off \in Nat, NEW len \in Nat, NEW w \in Nat,
           NEW room, NEW rb, NEW share, Writing(space, ss, tt, n, cur, off, len, w, room, rb, share),
           NEW c \in cur .. n, rb[c] + share[c] = w
    PROVE  ChainPlaced(space, tt, c, off + w, len)
<1>1. /\ n = Len(space) /\ n = Len(ss) /\ n = Len(tt)
      /\ ChainPlaced(space, ss, cur, off, len)
      /\ off + w <= len
      /\ Shared(n, cur, w, room, rb, share)
      /\ RoomOf(room, space, Lens(ss), n)
      /\ Grown(tt, ss, share, rb, off, n)
  BY DEF Writing
<1>2. FullUpTo(Lens(ss), space, n, cur)
  BY ChainHasRoom
<1>3. Added(Lens(tt), Lens(ss), share, n)
  BY <1>1, GrownLens
<1>4. PICK f, g : f = Lens(ss) /\ g = Lens(tt)
  OBVIOUS
<1>5. \A j \in 1 .. n : g[j] = Len(tt[j])
  BY <1>1, <1>4, LensNat
<1>6. ASSUME NEW j \in 1 .. n
      PROVE  Len(tt[j]) <= space[j] /\ (j < c => Len(tt[j]) = space[j]) /\ (j > c => Len(tt[j]) = 0)
  <2>1. PICK s \in Nat, a \in Nat : s = space[j] /\ a = f[j] /\ (j < cur => a = s) /\ (j > cur => a = 0)
    BY <1>2, <1>4 DEF FullUpTo
  <2>2. PICK h \in Nat, r \in Nat, b \in Nat : h = share[j] /\ r = room[j] /\ b = rb[j]
    BY <1>1 DEF Shared
  <2>3. h = IF j < cur \/ w - b <= 0 THEN 0 ELSE IF r < w - b THEN r ELSE w - b
    BY <1>1, <2>2 DEF Shared
  <2>4. h <= r /\ (j < cur => h = 0)
    BY <2>3
  <2>5. r = s - a
    BY <1>1, <1>4, <2>1, <2>2 DEF RoomOf
  <2>6. Len(tt[j]) = a + h
    BY <1>3, <1>4, <1>5, <2>1, <2>2 DEF Added
  <2>7. CASE j < cur
    BY <2>1, <2>4, <2>6, <2>7
  <2>8. CASE ~ (j < cur)
    <3>1. j \in cur .. n
      BY <2>8
    <3>2. (j < c => share[j] = room[j]) /\ (j > c => share[j] = 0)
      BY <1>1, <3>1, SharesFill
    <3>3. (j < c => h = r) /\ (j > c => h = 0)
      BY <2>2, <3>2
    <3>4. j > c => a = 0
      BY <2>1
    <3>5. Len(tt[j]) <= s
      BY <2>4, <2>5, <2>6
    <3>6. j < c => Len(tt[j]) = s
      BY <2>5, <2>6, <3>3
    <3>7. j > c => Len(tt[j]) = 0
      BY <2>6, <3>3, <3>4
    <3>8. QED
      BY <2>1, <3>5, <3>6, <3>7
  <2>9. QED
    BY <2>7, <2>8
<1>7. Numbered(tt) /\ UpTo(Lens(tt), n) = off + w
  BY WriteNumbered
<1>8. len <= UpTo(space, n)
  BY <1>1 DEF ChainPlaced
<1>9. c \in 1 .. n /\ off + w \in Nat
  OBVIOUS
<1>10. QED
  BY <1>1, <1>6, <1>7, <1>8, <1>9 DEF ChainPlaced

LEMMA WrittenPlaced ==
    ASSUME NEW z, ChainPlaced(z.space, z.bytes, z.cur, z.off, z.len), NEW w \in Nat, z.off + w <= z.len, NEW tt,
           tt = [i \in 1 .. Len(z.space) |-> z.bytes[i] \o [k \in 1 .. Share(z, w, i) |-> z.off + RoomBefore(z, i) + k]]
    PROVE  ChainPlaced(z.space, tt, LastOf(z, w), z.off + w, z.len)
<1>1. PICK space \in Seq(Nat), ss \in Seq(Seq(Nat)) : space = z.space /\ ss = z.bytes
  BY DEF ChainPlaced
<1>2. PICK n \in Nat : n = Len(space) /\ n = Len(ss)
  BY <1>1, LenProperties DEF ChainPlaced
<1>3. PICK cur \in 1 .. n, off \in Nat, len \in Nat : cur = z.cur /\ off = z.off /\ len = z.len
  BY <1>1, <1>2 DEF ChainPlaced
<1>4. ChainPlaced(space, ss, cur, off, len) /\ off + w <= len
  BY <1>1, <1>3
<1>5. \A j \in 1 .. n : space[j] \in Nat /\ ss[j] \in Seq(Nat) /\ Len(ss[j]) \in Nat /\ Lens(ss)[j] = Len(ss[j])
  <2>1. \A j \in 1 .. n : space[j] \in Nat
    BY <1>2, ElementOfSeq
  <2>2. \A j \in 1 .. n : ss[j] \in Seq(Nat) /\ Len(ss[j]) \in Nat /\ Lens(ss)[j] = Len(ss[j])
    BY <1>2, LensNat
  <2>3. QED
    BY <2>1, <2>2
<1>6. \A j \in 1 .. n : Len(ss[j]) <= space[j]
  BY <1>2, <1>4 DEF ChainPlaced
<1>7. \A j \in 1 .. n : Room(z, j) \in Nat /\ Room(z, j) = space[j] - Lens(ss)[j]
  <2>1. ASSUME NEW j \in 1 .. n PROVE Room(z, j) \in Nat /\ Room(z, j) = space[j] - Lens(ss)[j]
    <3>1. PICK a \in Nat, b \in Nat : a = space[j] /\ b = Len(ss[j]) /\ b = Lens(ss)[j] /\ b <= a
      BY <1>5, <1>6
    <3>2. Room(z, j) = a - b
      BY <1>1, <3>1 DEF Room
    <3>3. QED
      BY <3>1, <3>2
  <2>2. QED
    BY <2>1
<1>8. PICK room : room = [k \in 1 .. n |-> Room(z, k)]
  OBVIOUS
<1>9. PICK rb : rb = [j \in 1 .. n + 1 |-> RoomBefore(z, j)]
  OBVIOUS
<1>10. PICK share : share = [j \in 1 .. n |-> Share(z, w, j)]
  OBVIOUS
<1>11. Shared(n, cur, w, room, rb, share)
  BY <1>3, <1>7, <1>8, <1>9, <1>10, RoomShared
<1>12. RoomOf(room, space, Lens(ss), n)
  BY <1>7, <1>8 DEF RoomOf
<1>13. \A j \in 1 .. n : rb[j] = RoomBefore(z, j) /\ share[j] = Share(z, w, j) /\ rb[j] \in Nat /\ share[j] \in Nat
  <2>1. \A j \in 1 .. n : j \in 1 .. n + 1
    OBVIOUS
  <2>2. \A j \in 1 .. n : rb[j] = RoomBefore(z, j) /\ share[j] = Share(z, w, j)
    BY <1>9, <1>10, <2>1
  <2>3. \A j \in 1 .. n : rb[j] \in Nat /\ share[j] \in Nat
    BY <1>11 DEF Shared
  <2>4. QED
    BY <2>2, <2>3
<1>14. \A j \in 1 .. n : tt[j] \in Seq(Nat) /\ Longer(tt[j], ss[j], share[j], off + rb[j])
  <2>1. SUFFICES ASSUME NEW j \in 1 .. n PROVE tt[j] \in Seq(Nat) /\ Longer(tt[j], ss[j], share[j], off + rb[j])
    OBVIOUS
  <2>2. PICK s \in Seq(Nat), a \in Nat, r \in Nat : s = ss[j] /\ a = share[j] /\ r = rb[j]
    BY <1>5, <1>13
  <2>3. PICK b \in Nat : b = off + r
    OBVIOUS
  <2>4. PICK c : c = [k \in 1 .. a |-> b + k]
    OBVIOUS
  <2>5. tt[j] = z.bytes[j] \o [k \in 1 .. Share(z, w, j) |-> z.off + RoomBefore(z, j) + k]
    BY <1>1, <1>2
  <2>6. a = Share(z, w, j) /\ b = z.off + RoomBefore(z, j)
    BY <1>3, <1>13, <2>2, <2>3
  <2>7. tt[j] = Joined(s, c)
    BY <1>1, <2>2, <2>4, <2>5, <2>6 DEF Joined
  <2>8. Joined(s, c) \in Seq(Nat) /\ Longer(Joined(s, c), s, a, b)
    BY <2>4, JoinedLonger
  <2>9. QED
    BY <2>2, <2>3, <2>7, <2>8
<1>15. tt \in Seq(Seq(Nat)) /\ Len(tt) = n
  <2>1. DOMAIN tt = 1 .. n /\ tt = [j \in 1 .. n |-> tt[j]]
    BY <1>1, <1>2
  <2>2. tt \in [1 .. n -> Seq(Nat)]
    BY <1>14, <2>1
  <2>3. QED
    BY <2>2, SeqDef
<1>16. PICK t \in Seq(Seq(Nat)) : t = tt /\ Len(t) = n
  BY <1>15
<1>17. Grown(t, ss, share, rb, off, n)
  BY <1>14, <1>16 DEF Grown
<1>18. Writing(space, ss, t, n, cur, off, len, w, room, rb, share)
  BY <1>2, <1>4, <1>11, <1>12, <1>16, <1>17 DEF Writing
<1>19. w <= rb[n + 1]
  BY <1>18, ChainHasRoom
<1>20. PICK c \in cur .. n : c = LastOf(z, w) /\ rb[c] + share[c] = w
  <2>1. PICK S : S = {i \in cur .. n : RoomBefore(z, i) + Share(z, w, i) = w}
    OBVIOUS
  <2>2. \A i \in cur .. n : i \in 1 .. n /\ i \in Nat
    OBVIOUS
  <2>3. \A i \in S : i \in cur .. n /\ rb[i] + share[i] = w
    BY <1>13, <2>1, <2>2
  <2>4. PICK i \in cur .. n : rb[i] + share[i] = w
    BY <1>11, <1>19, LastExists
  <2>5. i \in S
    BY <1>13, <2>1, <2>2, <2>4
  <2>6. S \in SUBSET Nat /\ S # {}
    BY <2>2, <2>3, <2>5
  <2>7. \E x \in S : \A y \in S : x <= y
    BY <2>6, HasLeast
  <2>8. LastOf(z, w) = CHOOSE x \in S : \A y \in S : x <= y
    <3>1. S = {x \in z.cur .. Len(z.space) : RoomBefore(z, x) + Share(z, w, x) = w}
      BY <1>1, <1>2, <1>3, <2>1
    <3>2. QED
      BY <2>6, <3>1, Zenon DEF LastOf
  <2>9. LastOf(z, w) \in S
    BY <2>7, <2>8
  <2>10. QED
    BY <2>3, <2>9
<1>21. ChainPlaced(space, t, c, off + w, len)
  BY <1>18, <1>20, WritePlaced
<1>22. QED
  BY <1>1, <1>3, <1>16, <1>20, <1>21

LEMMA ZmInvariantNext == ZmInvariant /\ ZcNext => ZmInvariant'
<1> SUFFICES ASSUME ZmInvariant, ZcNext PROVE ZmInvariant'
  OBVIOUS
<1>1. ZcLengths \subseteq Nat
  BY VethAssumption
<1>2. ASSUME NEW len \in ZcLengths, lazybsd_zc_mbuf_get(len) PROVE ZmInvariant'
  <2>1. PICK l \in Nat : l = len
    BY <1>1
  <2>2. PICK space \in m_getm2(len) :
            zm' = [off |-> 0, len |-> len, space |-> space, bytes |-> [i \in 1 .. Len(space) |-> << >>], cur |-> 1]
    BY <1>2 DEF lazybsd_zc_mbuf_get
  <2>3. space \in Seq(Nat) /\ Len(space) > 0 /\ l <= UpTo(space, Len(space))
    BY <2>1, <2>2, ChainOfSpace
  <2>4. PICK bytes : bytes = [i \in 1 .. Len(space) |-> << >>]
    OBVIOUS
  <2>5. ChainPlaced(space, bytes, 1, 0, l)
    BY <2>3, <2>4, NewChain
  <2>6. zm' = [off |-> 0, len |-> l, space |-> space, bytes |-> bytes, cur |-> 1]
    BY <2>1, <2>2, <2>4
  <2>7. QED
    BY <2>5, <2>6 DEF ZmInvariant
<1>3. ASSUME NEW len \in ZcLengths, lazybsd_zc_mbuf_write(len) PROVE ZmInvariant'
  <2>1. PICK w \in Nat : w = len
    BY <1>1
  <2>2. PICK z : z = zm
    OBVIOUS
  <2>3. z.cur > 0 /\ z.off + w <= z.len
    BY <1>3, <2>1, <2>2 DEF lazybsd_zc_mbuf_write, WithinLength
  <2>4. z # NoZm
    BY <2>3 DEF NoZm
  <2>5. /\ z = [off |-> z.off, len |-> z.len, space |-> z.space, bytes |-> z.bytes, cur |-> z.cur]
        /\ ChainPlaced(z.space, z.bytes, z.cur, z.off, z.len)
    BY <2>2, <2>4 DEF ZmInvariant
  <2>6. PICK tt : tt = [i \in 1 .. Len(z.space) |-> z.bytes[i] \o [k \in 1 .. Share(z, w, i) |-> z.off + RoomBefore(z, i) + k]]
    OBVIOUS
  <2>7. ChainPlaced(z.space, tt, LastOf(z, w), z.off + w, z.len)
    BY <2>3, <2>5, <2>6, WrittenPlaced
  <2>8. zm' = [z EXCEPT !.bytes = tt, !.off = z.off + w, !.cur = LastOf(z, w)]
    BY <1>3, <2>1, <2>2, <2>6 DEF lazybsd_zc_mbuf_write
  <2>9. zm' = [off |-> z.off + w, len |-> z.len, space |-> z.space, bytes |-> tt, cur |-> LastOf(z, w)]
    BY <2>5, <2>8
  <2>10. QED
    BY <2>7, <2>9 DEF ZmInvariant
<1>4. ASSUME zc_mbuf_sent PROVE ZmInvariant'
  BY <1>4 DEF zc_mbuf_sent, ZmInvariant, NoZm
<1>5. QED
  BY <1>2, <1>3, <1>4 DEF ZcNext

-----------------------------------------------------------------------------
(* The parts of the kernel together.                                       *)

(* A behaviour of the kernel is a behaviour of each of its parts, so that  *)
(* what is proved of a part holds of the whole.                            *)
THEOREM PartsTogether ==
    Spec => TimeSpec /\ SubrSpec /\ PoolSpec /\ StartSpec /\ PortSpec /\ VethSpec /\ PcapSpec
<1>1. Init => TimeInit /\ SubrInit /\ PoolInit /\ StartInit /\ PortInitState /\ VethInit /\ PcapInit
  BY DEF Init
<1>2. [Next]_vars => [TimeNext]_timeVars
  BY DEF Next, vars, TimeNext, InTime, InSubr, InPool, InStart, InPort, InVeth, InPcap
<1>3. [Next]_vars => [SubrNext]_subrVars
  BY DEF Next, vars, SubrNext, InTime, InSubr, InPool, InStart, InPort, InVeth, InPcap
<1>4. [Next]_vars => [PoolNext]_poolVars
  BY DEF Next, vars, InTime, InSubr, InPool, InStart, InPort, InVeth, InPcap
<1>5. [Next]_vars => [StartNext]_startVars
  BY DEF Next, vars, InTime, InSubr, InPool, InStart, InPort, InVeth, InPcap
<1>6. [Next]_vars => [PortNext]_portVars
  BY DEF Next, vars, InTime, InSubr, InPool, InStart, InPort, InVeth, InPcap
<1>7. [Next]_vars => [VethNext]_vethVars
  BY DEF Next, vars, VethNext, InTime, InSubr, InPool, InStart, InPort, InVeth, InPcap
<1>8. [Next]_vars => [PcapNext]_pcapVars
  BY DEF Next, vars, InTime, InSubr, InPool, InStart, InPort, InVeth, InPcap
<1>9. QED
  BY <1>1, <1>2, <1>3, <1>4, <1>5, <1>6, <1>7, <1>8, PTL
     DEF Spec, TimeSpec, SubrSpec, PoolSpec, StartSpec, PortSpec, VethSpec, PcapSpec

(* Bytes that are moved in pieces arrive once and in order, whatever the   *)
(* pieces are (uiomove, lazybsd_zc_mbuf_write).                            *)
THEOREM BytesArriveInOrder ==
    Spec => []BytesInOrder
<1>1. SubrSpec => []UioInOrder
  <2>1. SubrInit => UioInvariant
    BY UioInvariantInit DEF SubrInit
  <2>2. UioInvariant /\ [SubrNext]_subrVars => UioInvariant'
    <3>1. ASSUME UioInvariant, uio' = uio PROVE UioInvariant'
      BY <3>1 DEF UioInvariant
    <3>2. HeapNext => uio' = uio
      BY DEF HeapNext, kmalloc, kfree, crhold, crfree, krealloc, kreallocf
    <3>3. SbNext => uio' = uio
      BY DEF SbNext, chgsbsize
    <3>4. SizedNext => uio' = uio
      BY DEF SizedNext, hash_table, group_check
    <3>5. UNCHANGED subrVars => uio' = uio
      BY DEF subrVars
    <3>6. QED
      BY <3>1, <3>2, <3>3, <3>4, <3>5, UioInvariantNext DEF SubrNext
  <2>3. QED
    BY <2>1, <2>2, UioPlacedInOrder, PTL DEF SubrSpec
<1>2. VethSpec => []ZcInOrder
  <2>1. VethInit => ZmInvariant
    BY DEF VethInit, ZmInvariant
  <2>2. ZmInvariant /\ [VethNext]_vethVars => ZmInvariant'
    <3>1. ASSUME ZmInvariant, zm' = zm PROVE ZmInvariant'
      BY <3>1 DEF ZmInvariant
    <3>2. InputNext => zm' = zm
      BY DEF InputNext, lazybsd_veth_input, lazybsd_mbuf_gethdr, lazybsd_mbuf_get, lazybsd_veth_process_packet,
             stack_free
    <3>3. AttachNext => zm' = zm
      BY DEF AttachNext, lazybsd_veth_attach, register_if, lazybsd_veth_setup_interface, lazybsd_veth_detach
    <3>4. UNCHANGED vethVars => zm' = zm
      BY DEF vethVars
    <3>5. QED
      BY <3>1, <3>2, <3>3, <3>4, ZmInvariantNext DEF VethNext
  <2>3. QED
    BY <2>1, <2>2, ChainInOrder, PTL DEF VethSpec
<1>3. QED
  BY <1>1, <1>2, PartsTogether, PTL DEF BytesInOrder

-----------------------------------------------------------------------------
(* Timeouts in ticks.                                                      *)

(* The ticks that cover total microseconds, and one more. *)
Covers(total) == (total + Tick - 1) \div Tick + 1

Capped(ticks) == IF ticks > IntMax THEN IntMax ELSE ticks

LEMMA LongConstants ==
    /\ LongMax \in Nat /\ IntMax \in Nat /\ LongMax > IntMax /\ IntMax > 0
    /\ LongMax >= Usec + Tick /\ LongMax > Hz /\ Usec = Hz * Tick
BY TimeAssumption

(* A sum that a long holds twice is not cut. *)
LEMMA ULongKeeps ==
    ASSUME NEW n \in Nat, n <= LongMax + LongMax
    PROVE  ULong(n) = n
<1>1. PICK m \in Nat : m = 2 * LongMax + 2 /\ m > 0 /\ n < m
  BY LongConstants
<1>2. n \in 0 .. m - 1 /\ n = m * 0 + n
  BY <1>1
<1>3. n % m = n
  BY <1>1, <1>2, DivModUnique
<1>4. QED
  BY <1>1, <1>3 DEF ULong

(* What s seconds are in microseconds and in ticks. *)
LEMMA SecondsInTicks ==
    ASSUME NEW s \in Int
    PROVE  s * Hz \in Int /\ s * Usec \in Int /\ s * Usec = Tick * (s * Hz)
<1>1. \A a, b, c \in Int : a * (b * c) = c * (a * b) /\ a * b \in Int /\ a * (b * c) \in Int
  OBVIOUS
<1>2. QED
  BY <1>1, LongConstants, TimeConstants

(* The quotient of a sum whose first part is whole. *)
LEMMA WholePart ==
    ASSUME NEW p \in Int, NEW x \in Int
    PROVE  (Tick * p + x) \div Tick = p + (x \div Tick) /\ x \div Tick \in Int
<1>1. Tick \in Nat /\ Tick > 0
  BY TimeConstants
<1>2. PICK q \in Int, r \in 0 .. Tick - 1 : q = x \div Tick /\ x = Tick * q + r
  BY <1>1, DivMod
<1>3. Tick * p + x = Tick * (p + q) + r
  <2>1. \A a, b, c \in Int : a * (b + c) = a * b + a * c /\ a * b \in Int /\ a * c \in Int
    OBVIOUS
  <2>2. PICK u \in Int, v \in Int : u = Tick * p /\ v = Tick * q /\ Tick * (p + q) = u + v
    BY <1>1, <2>1
  <2>3. QED
    BY <1>1, <1>2, <2>2
<1>4. PICK a \in Int, b \in Int : a = Tick * p + x /\ b = p + q /\ a = Tick * b + r
  <2>1. Tick * p \in Int
    BY <1>1
  <2>2. QED
    BY <1>3, <2>1
<1>5. a \div Tick = b
  BY <1>1, <1>4, DivModUnique
<1>6. QED
  BY <1>2, <1>4, <1>5

(* n is at most m \div d exactly when n times d is at most m. *)
LEMMA AtMostQuotient ==
    ASSUME NEW n \in Nat, NEW m \in Nat, NEW d \in Nat, d > 0
    PROVE  n <= m \div d <=> n * d <= m
<1>1. PICK q \in Int, r \in 0 .. d - 1 : q = m \div d /\ m = d * q + r
  BY DivMod
<1>2. PICK dq \in Int, nd \in Int : dq = d * q /\ nd = n * d
  OBVIOUS
<1>3. q >= 0
  <2>1. CASE q < 0
    <3>1. \A a, b \in Int : a > 0 /\ b < 0 => a * b <= -a
      OBVIOUS
    <3>2. dq <= -d
      BY <1>2, <2>1, <3>1
    <3>3. QED
      BY <1>1, <1>2, <3>2
  <2>2. QED
    BY <2>1
<1>4. CASE n <= q
  <2>1. nd <= dq
    BY <1>2, <1>3, <1>4, ProductGrows
  <2>2. QED
    BY <1>1, <1>2, <1>4, <2>1
<1>5. CASE n > q
  <2>1. q + 1 \in Nat /\ q + 1 <= n
    BY <1>3, <1>5
  <2>2. (q + 1) * d <= nd
    BY <1>2, <2>1, ProductGrows
  <2>3. (q + 1) * d = dq + d
    BY <1>2
  <2>4. nd > m
    BY <1>1, <1>2, <2>2, <2>3
  <2>5. QED
    BY <1>1, <1>2, <1>5, <2>4
<1>6. QED
  BY <1>1, <1>4, <1>5

(* The ticks of a timeval whose microseconds are in range. *)
LEMMA TicksCover ==
    ASSUME NEW s \in Int, NEW u \in 0 .. Usec - 1
    PROVE  Capped(TicksOf(s, u)) = IF s * Usec + u < 0 THEN 1 ELSE Capped(Covers(s * Usec + u))
<1>1. /\ Usec \in Nat /\ Tick \in Nat /\ Tick > 1 /\ Hz \in Nat /\ Hz > 0 /\ Usec > 1 /\ Usec >= Tick
      /\ LongMax \in Nat /\ IntMax \in Nat /\ LongMax > IntMax /\ IntMax > 0 /\ LongMax >= Usec + Tick /\ LongMax > Hz
  BY TimeConstants, LongConstants
<1>2. PICK p \in Int, t \in Int : p = s * Hz /\ t = s * Usec /\ t = Tick * p
  BY SecondsInTicks
<1>3. u \in Nat /\ u < Usec
  BY <1>1
<1>4. PICK c \in Int : c = (u + Tick - 1) \div Tick /\ Covers(t + u) = p + c + 1
  <2>1. PICK x \in Int : x = u + Tick - 1 /\ t + u + Tick - 1 = t + x
    BY <1>1, <1>3
  <2>2. (t + x) \div Tick = p + (x \div Tick) /\ x \div Tick \in Int
    BY <1>2, <2>1, WholePart
  <2>3. PICK c \in Int : c = x \div Tick
    BY <2>2
  <2>4. QED
    BY <2>1, <2>2, <2>3 DEF Covers
<1>5. c >= 0 /\ c <= Hz
  <2>1. PICK x \in Nat : x = u + Tick - 1
    BY <1>1, <1>3
  <2>2. PICK q \in Int, r \in 0 .. Tick - 1 : q = x \div Tick /\ x = Tick * q + r
    BY <1>1, DivMod
  <2>3. q = c
    BY <1>4, <2>1, <2>2
  <2>4. CASE q < 0
    <3>1. \A a, b \in Int : a > 0 /\ b < 0 => a * b <= -a
      OBVIOUS
    <3>2. PICK v \in Int : v = Tick * q /\ v <= -Tick
      BY <1>1, <2>4, <3>1
    <3>3. QED
      BY <1>1, <2>2, <3>2
  <2>5. CASE q > Hz
    <3>1. Hz + 1 \in Nat /\ q \in Nat /\ Hz + 1 <= q
      BY <1>1, <2>5
    <3>2. (Hz + 1) * Tick <= q * Tick /\ Tick * q = q * Tick
      BY <1>1, <3>1, ProductGrows
    <3>3. \A a, b \in Int : (a + 1) * b = a * b + b
      OBVIOUS
    <3>4. (Hz + 1) * Tick = Usec + Tick
      BY <1>1, <3>3, LongConstants
    <3>5. PICK v \in Int : v = Tick * q /\ v >= Usec + Tick
      BY <1>1, <3>2, <3>4
    <3>6. QED
      BY <1>1, <1>3, <2>1, <2>2, <3>5
  <2>6. QED
    BY <1>1, <2>3, <2>4, <2>5
<1>6. CASE s < 0
  <2>1. t <= -Usec
    BY <1>2, <1>6, SecondUp
  <2>2. t + u < 0
    BY <1>1, <1>3, <2>1
  <2>3. TicksOf(s, u) = 1
    BY <1>6 DEF TicksOf
  <2>4. QED
    BY <1>1, <1>2, <2>2, <2>3 DEF Capped
<1>7. CASE s >= 0
  <2>1. t >= 0 /\ p >= 0 /\ s \in Nat
    <3>1. \A a, b \in Nat : a * b >= 0
      OBVIOUS
    <3>2. QED
      BY <1>1, <1>2, <1>7, <3>1
  <2>2. ~ (t + u < 0)
    BY <1>3, <2>1
  <2>3. CASE s <= LongMax \div Usec
    <3>1. t <= LongMax
      BY <1>1, <1>2, <2>1, <2>3, AtMostQuotient
    <3>2. PICK n \in Nat : n = t + u + Tick - 1 /\ n <= LongMax + LongMax
      BY <1>1, <1>3, <2>1, <3>1
    <3>3. ULong(n) = n
      BY <3>2, ULongKeeps
    <3>4. TicksOf(s, u) = ULong(n) \div Tick + 1
      BY <1>2, <1>7, <2>3, <3>2 DEF TicksOf
    <3>5. TicksOf(s, u) = Covers(t + u)
      BY <3>2, <3>3, <3>4 DEF Covers
    <3>6. QED
      BY <1>2, <2>2, <3>5
  <2>4. CASE ~ (s <= LongMax \div Usec) /\ s <= LongMax \div Hz
    <3>1. p <= LongMax
      BY <1>1, <1>2, <2>1, <2>4, AtMostQuotient
    <3>2. PICK n \in Nat : n = p + c + 1 /\ n <= LongMax + LongMax
      BY <1>1, <1>5, <2>1, <3>1
    <3>3. ULong(n) = n
      BY <3>2, ULongKeeps
    <3>4. TicksOf(s, u) = ULong(n)
      BY <1>2, <1>4, <1>7, <2>4, <3>2 DEF TicksOf
    <3>5. TicksOf(s, u) = Covers(t + u)
      BY <1>4, <3>2, <3>3, <3>4
    <3>6. QED
      BY <1>2, <2>2, <3>5
  <2>5. CASE ~ (s <= LongMax \div Usec) /\ ~ (s <= LongMax \div Hz)
    <3>1. p > LongMax
      BY <1>1, <1>2, <2>1, <2>5, AtMostQuotient
    <3>2. Covers(t + u) > IntMax
      BY <1>1, <1>4, <1>5, <3>1
    <3>3. TicksOf(s, u) = LongMax
      BY <1>7, <2>5 DEF TicksOf
    <3>4. Capped(TicksOf(s, u)) = IntMax /\ Capped(Covers(t + u)) = IntMax
      BY <1>1, <3>2, <3>3 DEF Capped
    <3>5. QED
      BY <1>2, <2>2, <3>4
  <2>6. QED
    BY <2>3, <2>4, <2>5
<1>8. QED
  BY <1>6, <1>7

(* Timeouts are converted right whatever was asked. *)
LEMMA TimeoutsCovered == TimeSpec => []TimeoutCovered
<1>1. TimeInit => TimeoutCovered
  <2>1. SUFFICES ASSUME conv = NoConv PROVE TimeoutCovered
    BY DEF TimeInit
  <2>2. conv.tv = [sec |-> -1, usec |-> 0] /\ conv.ticks = 1
    BY <2>1 DEF NoConv, Tv
  <2>3. (-1) * Usec <= -Usec /\ (-1) * Usec \in Int /\ Usec \in Nat /\ Usec > 1
    BY SecondUp, TimeConstants
  <2>4. Total(conv.tv) < 0
    BY <2>2, <2>3 DEF Total
  <2>5. QED
    BY <2>2, <2>4 DEF TimeoutCovered
<1>2. TimeoutCovered /\ [TimeNext]_timeVars => TimeoutCovered'
  <2>1. ASSUME TimeoutCovered, conv' = conv PROVE TimeoutCovered'
    BY <2>1 DEF TimeoutCovered, Total
  <2>2. TimerNext \/ RateNext \/ PpsNext \/ UNCHANGED timeVars => conv' = conv
    BY DEF TimerNext, RateNext, PpsNext, timeVars, itimer_set, itimerdecr, rate_use, rate_time, ratecheck,
           pps_use, pps_tick, ppsratecheck
  <2>3. ASSUME ConvNext PROVE TimeoutCovered'
    <3>1. PICK sec \in -1 .. MaxSec, usec \in -1 .. Usec - 1 : tvtohz(Tv(sec, usec))
      BY <2>3 DEF ConvNext
    <3>2. Usec \in Nat /\ Usec > 1 /\ MaxSec \in Nat
      BY TimeConstants, TimeAssumption
    <3>3. sec \in Int /\ usec \in Int
      BY <3>2
    <3>4. PICK ticks : /\ ticks = IF usec < 0 THEN TicksOf(sec - 1, usec + Usec) ELSE TicksOf(sec, usec)
                       /\ conv' = [tv |-> Tv(sec, usec), ticks |-> Capped(ticks)]
      BY <3>1 DEF tvtohz, Tv, Capped
    <3>5. PICK a \in Int : a = sec * Usec + usec
      BY <3>3, SecondUp
    <3>6. Capped(ticks) = IF a < 0 THEN 1 ELSE Capped(Covers(a))
      <4>1. CASE usec < 0
        <5>1. sec - 1 \in Int /\ usec + Usec \in 0 .. Usec - 1
          BY <3>2, <3>3, <4>1
        <5>2. (sec - 1) * Usec + (usec + Usec) = a
          <6>1. PICK b \in Int : b = sec * Usec /\ (sec - 1) * Usec = b - Usec
            BY <3>3, SecondUp
          <6>2. QED
            BY <3>2, <3>3, <3>5, <6>1
        <5>3. Capped(TicksOf(sec - 1, usec + Usec)) = IF a < 0 THEN 1 ELSE Capped(Covers(a))
          BY <5>1, <5>2, TicksCover
        <5>4. QED
          BY <3>4, <4>1, <5>3
      <4>2. CASE ~ (usec < 0)
        <5>1. usec \in 0 .. Usec - 1
          BY <3>2, <4>2
        <5>2. QED
          BY <3>3, <3>4, <3>5, <4>2, <5>1, TicksCover
      <4>3. QED
        BY <4>1, <4>2
    <3>7. conv'.ticks = Capped(ticks) /\ conv'.tv.sec = sec /\ conv'.tv.usec = usec
      BY <3>4 DEF Tv
    <3>8. Total(conv'.tv) = a
      BY <3>5, <3>7 DEF Total
    <3>9. QED
      BY <3>6, <3>7, <3>8 DEF TimeoutCovered, Capped, Covers, Total
  <2>4. QED
    BY <2>1, <2>2, <2>3 DEF TimeNext
<1>3. QED
  BY <1>1, <1>2, PTL DEF TimeSpec

-----------------------------------------------------------------------------
(* The sizes of hash tables.                                               *)

(* The largest and the least of a set are the elements that are so. *)
LEMMA MaxIs ==
    ASSUME NEW S \in SUBSET Int, NEW x \in S, \A y \in S : y <= x
    PROVE  Max(S) = x
<1>1. Max(S) = CHOOSE z \in S : \A y \in S : z >= y
  BY Zenon DEF Max
<1>2. x \in Int /\ \A y \in S : y \in Int /\ x >= y
  OBVIOUS
<1>3. Max(S) \in S /\ \A y \in S : Max(S) >= y
  BY <1>1, <1>2
<1>4. PICK z \in S : z = Max(S) /\ z >= x /\ z <= x /\ z \in Int
  BY <1>2, <1>3
<1>5. QED
  BY <1>2, <1>4

LEMMA MinLeast ==
    ASSUME NEW S \in SUBSET Nat, S # {}
    PROVE  Min(S) \in S /\ \A y \in S : Min(S) <= y
<1>1. Min(S) = CHOOSE z \in S : \A y \in S : z <= y
  BY Zenon DEF Min
<1>2. \E x \in S : \A y \in S : x <= y
  BY HasLeast
<1>3. QED
  BY <1>1, <1>2

LEMMA DoubledSteps ==
    /\ Doubled[0] = 1
    /\ \A k \in 1 .. MaxElements : Doubled[k] = 2 * Doubled[k - 1]
<1>1. PICK N \in Nat : N = MaxElements
  BY SubrAssumption
<1> DEFINE Fold(g) == [k \in 0 .. MaxElements |-> IF k = 0 THEN 1 ELSE 2 * g[k - 1]]
<1>2. \E g : g = Fold(g)
  <2>1. PICK G : G = [n \in 1 .. N |-> [x \in Nat |-> 2 * x]]
    OBVIOUS
  <2>2. G \in [1 .. N -> [Nat -> Nat]]
    BY <2>1
  <2>3. PICK f : Recurs(f, Nat, N, 1, G)
    BY <2>2, Recursion
  <2>4. f \in [0 .. N -> Nat] /\ f[0] = 1 /\ \A n \in 1 .. N : f[n] = G[n][f[n - 1]]
    BY <2>3 DEF Recurs
  <2>5. ASSUME NEW k \in 1 .. N PROVE f[k] = 2 * f[k - 1]
    <3>1. f[k - 1] \in Nat
      BY <2>4
    <3>2. QED
      BY <2>1, <2>4, <3>1
  <2>6. ASSUME NEW k \in 0 .. N PROVE f[k] = IF k = 0 THEN 1 ELSE 2 * f[k - 1]
    BY <2>4, <2>5
  <2>7. f = Fold(f)
    BY <1>1, <2>4, <2>6
  <2>8. QED
    BY <2>7
<1>3. Doubled = CHOOSE g : g = Fold(g)
  BY Zenon DEF Doubled
<1>4. Doubled = Fold(Doubled)
  <2>1. PICK c : c = CHOOSE g : g = Fold(g)
    OBVIOUS
  <2>2. c = Fold(c)
    BY <1>2, <2>1
  <2>3. QED
    BY <1>3, <2>1, <2>2
<1>5. PICK D : D = Doubled /\ D = [k \in 0 .. N |-> IF k = 0 THEN 1 ELSE 2 * D[k - 1]]
  BY <1>1, <1>4
<1>6. D[0] = 1 /\ \A k \in 1 .. N : D[k] = 2 * D[k - 1]
  <2>1. \A k \in 0 .. N : D[k] = IF k = 0 THEN 1 ELSE 2 * D[k - 1]
    BY <1>5
  <2>2. QED
    BY <1>1, <2>1
<1>7. QED
  BY <1>1, <1>5, <1>6

(* The powers grow, and past the number of times they were doubled. *)
LEMMA DoubledGrows ==
    ASSUME NEW i \in 0 .. MaxElements
    PROVE  Doubled[i] \in Nat /\ Doubled[i] > i /\ \A j \in 0 .. i : Doubled[j] \in Nat /\ Doubled[j] <= Doubled[i]
<1>1. PICK D : D = Doubled
  OBVIOUS
<1>2. PICK N \in Nat : N = MaxElements /\ D = Doubled
  BY <1>1, SubrAssumption
<1>3. D[0] = 1 /\ \A k \in 1 .. N : D[k] = 2 * D[k - 1]
  BY <1>2, DoubledSteps
<1> DEFINE T == {m \in Nat : m <= N => D[m] \in Nat /\ D[m] > m /\ \A j \in 0 .. m : D[j] \in Nat /\ D[j] <= D[m]}
<1>4. 0 \in T
  <2>1. \A j \in 0 .. 0 : j = 0
    OBVIOUS
  <2>2. QED
    BY <1>3, <2>1
<1>5. ASSUME NEW m \in Nat, m \in T PROVE m + 1 \in T
  <2>1. SUFFICES ASSUME m + 1 <= N
                 PROVE  D[m + 1] \in Nat /\ D[m + 1] > m + 1 /\ \A j \in 0 .. m + 1 : D[j] \in Nat /\ D[j] <= D[m + 1]
    OBVIOUS
  <2>2. PICK a \in Nat : a = D[m] /\ a > m /\ \A j \in 0 .. m : D[j] \in Nat /\ D[j] <= a
    BY <1>5, <2>1
  <2>3. D[m + 1] = 2 * a
    <3>1. m + 1 \in 1 .. N /\ (m + 1) - 1 = m
      BY <2>1
    <3>2. QED
      BY <1>3, <2>2, <3>1
  <2>4. 2 * a \in Nat /\ 2 * a > m + 1 /\ 2 * a >= a
    BY <2>2
  <2>5. ASSUME NEW j \in 0 .. m + 1 PROVE D[j] \in Nat /\ D[j] <= D[m + 1]
    <3>1. CASE j = m + 1
      BY <2>3, <2>4, <3>1
    <3>2. CASE j # m + 1
      <4>1. j \in 0 .. m
        BY <3>2
      <4>2. QED
        BY <2>2, <2>3, <2>4, <4>1
    <3>3. QED
      BY <3>1, <3>2
  <2>6. QED
    BY <2>3, <2>4, <2>5
<1> HIDE DEF T
<1>6. i \in T /\ i <= N
  BY <1>2, <1>4, <1>5, SetInduction
<1>7. QED
  BY <1>2, <1>6 DEF T

LEMMA PowerSized ==
    ASSUME NEW e \in 1 .. MaxElements
    PROVE  hashinit_flags(e) = Max({p \in PowersOfTwo : p <= e})
<1>1. PICK D : D = Doubled
  OBVIOUS
<1>2. PICK N \in Nat : N = MaxElements /\ D = Doubled
  BY <1>1, SubrAssumption
<1>3. e \in 1 .. N /\ e \in Nat
  BY <1>2
<1>4. \A i \in 0 .. N : D[i] \in Nat /\ D[i] > i /\ \A j \in 0 .. i : D[j] <= D[i]
  BY <1>2, DoubledGrows
<1>5. D[0] = 1 /\ \A k \in 1 .. N : D[k] = 2 * D[k - 1]
  BY <1>2, DoubledSteps
<1>6. PICK P : P = PowersOfTwo /\ P = {D[k] : k \in 0 .. N}
  BY <1>2 DEF PowersOfTwo
<1>7. PICK S : S = {p \in P : p > e}
  OBVIOUS
<1>8. S \in SUBSET Nat /\ S # {}
  <2>1. P \in SUBSET Nat
    BY <1>4, <1>6
  <2>2. N \in 0 .. N /\ D[N] \in P /\ D[N] > N
    BY <1>4, <1>6
  <2>3. D[N] \in S
    <3>1. D[N] \in Nat /\ D[N] > e
      BY <1>3, <1>4, <2>2
    <3>2. QED
      BY <1>7, <2>2, <3>1
  <2>4. QED
    BY <1>7, <2>1, <2>3
<1>9. Min(S) \in S /\ \A y \in S : Min(S) <= y
  BY <1>8, MinLeast
<1>10. PICK j \in 0 .. N : Min(S) = D[j] /\ D[j] > e
  BY <1>6, <1>7, <1>9
<1>11. j \in 1 .. N
  <2>1. j # 0
    BY <1>3, <1>5, <1>10
  <2>2. QED
    BY <2>1
<1>12. PICK i \in 0 .. N : i = j - 1
  BY <1>11
<1>13. PICK a \in Nat : a = D[i] /\ D[j] = 2 * a
  BY <1>4, <1>5, <1>11, <1>12
<1>14. Min(S) \div 2 = a
  BY <1>10, <1>13
<1>15. a > 0 /\ a <= e
  <2>1. a > 0
    BY <1>4, <1>13
  <2>2. CASE a > e
    <3>1. a \in S
      BY <1>6, <1>7, <1>13, <2>2
    <3>2. 2 * a <= a
      BY <1>9, <1>10, <1>13, <3>1
    <3>3. QED
      BY <2>1, <3>2
  <2>3. QED
    BY <1>3, <2>1, <2>2
<1>16. PICK Q : Q = {p \in P : p <= e}
  OBVIOUS
<1>17. a \in Q /\ Q \in SUBSET Int
  BY <1>4, <1>6, <1>13, <1>15, <1>16
<1>18. ASSUME NEW y \in Q PROVE y <= a
  <2>1. PICK k \in 0 .. N : y = D[k] /\ D[k] <= e
    BY <1>6, <1>16
  <2>2. PICK b \in Nat, c \in Nat : b = D[k] /\ c = D[j] /\ b <= e /\ c > e
    BY <1>4, <1>10, <2>1
  <2>3. k < j
    <3>1. CASE j <= k
      <4>1. j \in 0 .. k
        BY <3>1
      <4>2. c <= b
        BY <1>4, <2>2, <4>1
      <4>3. QED
        BY <1>3, <2>2, <4>2
    <3>2. QED
      BY <3>1
  <2>4. k \in 0 .. i
    BY <1>12, <2>3
  <2>5. QED
    BY <1>4, <1>13, <2>1, <2>4
<1>19. Max(Q) = a
  BY <1>17, <1>18, MaxIs
<1>20. hashinit_flags(e) = Min(S) \div 2
  BY <1>6, <1>7 DEF hashinit_flags
<1>21. QED
  BY <1>6, <1>14, <1>16, <1>19, <1>20

(* The primes of the table grow. *)
LEMMA PrimesGrow ==
    ASSUME NEW i \in 1 .. Len(Primes)
    PROVE  Primes[i] \in Nat /\ \A j \in 1 .. i : Primes[j] \in Nat /\ Primes[j] <= Primes[i]
<1>1. PICK P \in Seq(Nat) : P = Primes /\ \A k \in 2 .. Len(P) : P[k - 1] < P[k]
  BY SubrAssumption
<1>2. PICK N \in Nat : N = Len(P) /\ \A k \in 1 .. N : P[k] \in Nat
  BY LenProperties, ElementOfSeq
<1> DEFINE T == {m \in Nat : m + 1 <= N => \A j \in 1 .. m + 1 : P[j] <= P[m + 1]}
<1>3. 0 \in T
  <2>1. ASSUME 1 <= N, NEW j \in 1 .. 1 PROVE P[j] <= P[1]
    <3>1. j = 1 /\ P[1] \in Nat
      BY <1>2, <2>1
    <3>2. QED
      BY <3>1
  <2>2. QED
    BY <2>1
<1>4. ASSUME NEW m \in Nat, m \in T PROVE m + 1 \in T
  <2>1. SUFFICES ASSUME (m + 1) + 1 <= N PROVE \A j \in 1 .. (m + 1) + 1 : P[j] <= P[(m + 1) + 1]
    OBVIOUS
  <2>2. SUFFICES ASSUME NEW j \in 1 .. (m + 1) + 1 PROVE P[j] <= P[(m + 1) + 1]
    OBVIOUS
  <2>3. PICK k \in 2 .. N : k = (m + 1) + 1 /\ k - 1 = m + 1 /\ k \in 1 .. N /\ k - 1 \in 1 .. N
    BY <2>1
  <2>4. PICK a \in Nat, b \in Nat, c \in Nat : a = P[j] /\ b = P[k - 1] /\ c = P[k] /\ b < c
    <3>1. j \in 1 .. N
      BY <2>1, <2>2
    <3>2. P[j] \in Nat /\ P[k - 1] \in Nat /\ P[k] \in Nat
      BY <1>2, <2>3, <3>1
    <3>3. k \in 2 .. Len(P)
      BY <1>2
    <3>4. P[k - 1] < P[k]
      BY <1>1, <3>3
    <3>5. QED
      BY <3>2, <3>4
  <2>5. CASE j = k
    BY <2>3, <2>4, <2>5
  <2>6. CASE j # k
    <3>1. j \in 1 .. m + 1 /\ m + 1 <= N
      BY <2>1, <2>2, <2>3, <2>6
    <3>2. a <= b
      BY <1>4, <2>3, <2>4, <3>1
    <3>3. QED
      BY <2>3, <2>4, <3>2, SMTT(60)
  <2>7. QED
    BY <2>5, <2>6
<1> HIDE DEF T
<1>5. PICK m \in Nat : m = i - 1 /\ m + 1 = i /\ m + 1 <= N
  BY <1>1, <1>2
<1>6. m \in T
  BY <1>3, <1>4, SetInduction
<1>7. \A j \in 1 .. i : P[j] <= P[i] /\ P[j] \in Nat
  BY <1>2, <1>5, <1>6 DEF T
<1>8. QED
  BY <1>1, <1>2, <1>5, <1>7

LEMMA PrimeSized ==
    ASSUME NEW e \in 1 .. MaxElements
    PROVE  phashinit_flags(e) = Max({p \in ToSet(Primes) : p <= e})
<1>1. PICK P \in Seq(Nat) : P = Primes /\ Len(P) > 1 /\ P[1] = 1
  BY SubrAssumption
<1>2. PICK N \in Nat : N = Len(P) /\ N > 1
  BY <1>1, LenProperties
<1>3. \A i \in 1 .. N : P[i] \in Nat /\ \A j \in 1 .. i : P[j] <= P[i]
  BY <1>1, <1>2, PrimesGrow
<1>4. e \in Nat /\ e >= 1
  BY SubrAssumption
<1>5. PICK over : over = {i \in 2 .. N : P[i] > e}
  OBVIOUS
<1>6. PICK at : at = (IF over = {} THEN N + 1 ELSE Min(over)) - 1
  OBVIOUS
<1>7. /\ at \in 1 .. N /\ P[at] <= e
      /\ \A i \in 1 .. N : P[i] <= e => i <= at
  <2>1. CASE over = {}
    <3>1. at = N
      BY <1>6, <2>1
    <3>2. N \in 2 .. N /\ ~ (P[N] > e)
      BY <1>2, <1>5, <2>1
    <3>3. QED
      BY <1>2, <1>3, <1>4, <3>1, <3>2
  <2>2. CASE over # {}
    <3>1. over \in SUBSET Nat
      BY <1>5
    <3>2. Min(over) \in over /\ \A y \in over : Min(over) <= y
      BY <2>2, <3>1, MinLeast
    <3>3. PICK m \in 2 .. N : m = Min(over) /\ P[m] > e /\ at = m - 1
      BY <1>5, <1>6, <2>2, <3>2
    <3>4. at \in 1 .. N
      BY <3>3
    <3>5. P[at] <= e
      <4>1. CASE at = 1
        BY <1>1, <1>4, <4>1
      <4>2. CASE at # 1
        <5>1. at \in 2 .. N /\ ~ (m <= at)
          BY <3>3, <3>4, <4>2
        <5>2. at \notin over
          BY <3>2, <3>3, <5>1
        <5>3. ~ (P[at] > e)
          BY <1>5, <5>1, <5>2
        <5>4. P[at] \in Nat
          BY <1>3, <3>4
        <5>5. QED
          BY <1>4, <5>3, <5>4
      <4>3. QED
        BY <4>1, <4>2
    <3>6. ASSUME NEW i \in 1 .. N, P[i] <= e PROVE i <= at
      <4>1. CASE m <= i
        <5>1. m \in 1 .. i
          BY <4>1
        <5>2. P[m] <= P[i] /\ P[m] \in Nat /\ P[i] \in Nat
          BY <1>3, <5>1
        <5>3. QED
          BY <1>4, <3>3, <3>6, <5>2, SMTT(60)
      <4>2. QED
        BY <3>3, <4>1
    <3>7. QED
      BY <3>4, <3>5, <3>6
  <2>3. QED
    BY <2>1, <2>2
<1>8. ToSet(P) = {P[i] : i \in 1 .. N}
  BY <1>2 DEF ToSet
<1>9. PICK Q : Q = {p \in ToSet(P) : p <= e}
  OBVIOUS
<1>10. P[at] \in Q /\ Q \in SUBSET Int
  BY <1>3, <1>7, <1>8, <1>9
<1>11. ASSUME NEW y \in Q PROVE y <= P[at]
  <2>1. PICK i \in 1 .. N : y = P[i] /\ P[i] <= e
    BY <1>8, <1>9
  <2>2. i \in 1 .. at
    BY <1>7, <2>1
  <2>3. QED
    BY <1>3, <1>7, <2>1, <2>2
<1>12. Max(Q) = P[at]
  BY <1>10, <1>11, MaxIs
<1>13. phashinit_flags(e) = P[at]
  BY <1>1, <1>2, <1>5, <1>6 DEF phashinit_flags
<1>14. QED
  BY <1>1, <1>9, <1>12, <1>13

-----------------------------------------------------------------------------
(* The binary search among the groups.                                     *)

(* Groups that are sorted from the second on. *)
GroupsSorted(groups, n) ==
    /\ groups \in [1 .. n -> Nat]
    /\ \A i \in 3 .. n : groups[i - 1] <= groups[i]

LEMMA SortedOrder ==
    ASSUME NEW n \in Nat, NEW groups, GroupsSorted(groups, n), NEW i \in 2 .. n, NEW d \in Nat, i + d <= n
    PROVE  groups[i] \in Nat /\ groups[i + d] \in Nat /\ groups[i] <= groups[i + d]
<1>1. \A k \in 1 .. n : groups[k] \in Nat
  BY DEF GroupsSorted
<1>2. \A k \in 3 .. n : groups[k - 1] <= groups[k]
  BY DEF GroupsSorted
<1>3. i \in 1 .. n /\ i \in Nat
  OBVIOUS
<1> DEFINE T == {e \in Nat : i + e <= n => groups[i] <= groups[i + e]}
<1>4. 0 \in T
  <2>1. i + 0 = i /\ groups[i] \in Nat
    BY <1>1, <1>3
  <2>2. QED
    BY <2>1
<1>5. ASSUME NEW e \in Nat, e \in T PROVE e + 1 \in T
  <2>1. SUFFICES ASSUME i + (e + 1) <= n PROVE groups[i] <= groups[i + (e + 1)]
    OBVIOUS
  <2>2. PICK k \in 3 .. n : k = i + (e + 1) /\ k - 1 = i + e /\ k - 1 \in 1 .. n /\ k \in 1 .. n
    BY <2>1
  <2>3. groups[i] <= groups[k - 1]
    BY <1>5, <2>1, <2>2
  <2>4. groups[k - 1] <= groups[k]
    BY <1>2
  <2>5. groups[i] \in Nat /\ groups[k - 1] \in Nat /\ groups[k] \in Nat
    BY <1>1, <1>3, <2>2
  <2>6. groups[i] <= groups[k]
    BY <2>3, <2>4, <2>5
  <2>7. QED
    BY <2>2, <2>6
<1> HIDE DEF T
<1>6. d \in T
  BY <1>4, <1>5, SetInduction
<1>7. i + d \in 1 .. n
  BY <1>3
<1>8. QED
  BY <1>1, <1>3, <1>6, <1>7 DEF T

(* The loop keeps what is below l below gid and what is from h on above,   *)
(* and each turn leaves less.                                              *)
Narrowed(gid, groups, n, k, s) ==
    /\ s \in [l : Nat, h : Nat] /\ 1 <= s.l /\ s.l <= s.h /\ s.h <= n
    /\ \A i \in 2 .. s.l : groups[i] < gid
    /\ \A i \in s.h + 1 .. n : gid <= groups[i]
    /\ s.l = s.h \/ s.h - s.l <= n - 1 - k

LEMMA HalvedNarrows ==
    ASSUME NEW gid \in Nat, NEW n \in Nat, NEW groups, GroupsSorted(groups, n), NEW k \in Nat, NEW s,
           Narrowed(gid, groups, n, k, s)
    PROVE  Narrowed(gid, groups, n, k + 1, Halved(gid, groups, s))
<1>1. PICK l \in Nat, h \in Nat : s = [l |-> l, h |-> h] /\ l = s.l /\ h = s.h
  BY DEF Narrowed
<1>2. /\ 1 <= l /\ l <= h /\ h <= n /\ (l = h \/ h - l <= n - 1 - k)
      /\ \A i \in 2 .. l : groups[i] < gid
      /\ \A i \in h + 1 .. n : gid <= groups[i]
  BY <1>1 DEF Narrowed
<1>3. \A i \in 1 .. n : groups[i] \in Nat
  BY DEF GroupsSorted
<1>4. CASE l >= h
  <2>1. Halved(gid, groups, s) = s
    BY <1>1, <1>4 DEF Halved
  <2>2. l = h
    BY <1>2, <1>4
  <2>3. QED
    BY <1>1, <1>2, <2>1, <2>2 DEF Narrowed
<1>5. CASE l < h
  <2>1. PICK m \in Nat : m = l + ((h - l) \div 2) /\ l <= m /\ m < h
    BY <1>5
  <2>2. m + 1 \in 2 .. n /\ m + 1 \in 1 .. n
    BY <1>2, <2>1
  <2>3. PICK a \in Nat : a = groups[m + 1]
    BY <1>3, <2>2
  <2>4. CASE a < gid
    <3>1. Halved(gid, groups, s) = [l |-> m + 1, h |-> h]
      BY <1>1, <1>5, <2>1, <2>3, <2>4 DEF Halved
    <3>2. ASSUME NEW i \in 2 .. m + 1 PROVE groups[i] < gid
      <4>1. PICK d \in Nat : i \in 2 .. n /\ i + d = m + 1 /\ i + d <= n
        <5>1. (m + 1) - i \in Nat /\ i + ((m + 1) - i) = m + 1 /\ m + 1 <= n /\ i \in 2 .. n
          BY <2>2
        <5>2. QED
          BY <5>1
      <4>2. groups[i] \in Nat /\ groups[i] <= groups[i + d]
        BY <4>1, SortedOrder
      <4>3. QED
        BY <2>3, <2>4, <4>1, <4>2
    <3>3. PICK t : t = [l |-> m + 1, h |-> h]
      OBVIOUS
    <3>4. t \in [l : Nat, h : Nat] /\ t.l = m + 1 /\ t.h = h
      BY <3>3
    <3>5. 1 <= m + 1 /\ m + 1 <= h /\ h <= n /\ (m + 1 = h \/ h - (m + 1) <= n - 1 - (k + 1))
      BY <1>2, <1>5, <2>1
    <3>6. Narrowed(gid, groups, n, k + 1, t)
      BY <1>2, <3>2, <3>4, <3>5 DEF Narrowed
    <3>7. QED
      BY <3>1, <3>3, <3>6
  <2>5. CASE ~ (a < gid)
    <3>1. Halved(gid, groups, s) = [l |-> l, h |-> m]
      BY <1>1, <1>5, <2>1, <2>3, <2>5 DEF Halved
    <3>2. ASSUME NEW i \in m + 1 .. n PROVE gid <= groups[i]
      <4>1. PICK d \in Nat : (m + 1) + d = i /\ (m + 1) + d <= n
        <5>1. i - (m + 1) \in Nat /\ (m + 1) + (i - (m + 1)) = i /\ i <= n
          OBVIOUS
        <5>2. QED
          BY <5>1
      <4>2. groups[(m + 1) + d] \in Nat /\ groups[m + 1] <= groups[(m + 1) + d]
        BY <2>2, <4>1, SortedOrder
      <4>3. QED
        BY <2>3, <2>5, <4>1, <4>2
    <3>3. PICK t : t = [l |-> l, h |-> m]
      OBVIOUS
    <3>4. t \in [l : Nat, h : Nat] /\ t.l = l /\ t.h = m
      BY <3>3
    <3>5. 1 <= l /\ l <= m /\ m <= n /\ (l = m \/ m - l <= n - 1 - (k + 1))
      BY <1>2, <1>5, <2>1
    <3>6. Narrowed(gid, groups, n, k + 1, t)
      BY <1>2, <3>2, <3>4, <3>5 DEF Narrowed
    <3>7. QED
      BY <3>1, <3>3, <3>6
  <2>6. QED
    BY <2>4, <2>5
<1>6. QED
  BY <1>1, <1>4, <1>5

(* The turns of the loop. *)
Turns(turn, gid, groups, n) ==
    /\ turn[0] = [l |-> 1, h |-> n]
    /\ \A k \in 1 .. n : turn[k] = Halved(gid, groups, turn[k - 1])

LEMMA SearchTurns ==
    ASSUME NEW gid \in Nat, NEW n \in Nat, n > 0, NEW groups, GroupsSorted(groups, n)
    PROVE  \E turn : Turns(turn, gid, groups, n) /\ Search(gid, groups, n) = turn[n].l
<1> DEFINE Fold(g) == [k \in 0 .. n |-> IF k = 0 THEN [l |-> 1, h |-> n] ELSE Halved(gid, groups, g[k - 1])]
<1>1. \E g : g = Fold(g)
  <2>1. PICK B : B = {s \in [l : Nat, h : Nat] : \E k \in Nat : Narrowed(gid, groups, n, k, s)}
    OBVIOUS
  <2>2. ASSUME NEW s \in B PROVE Halved(gid, groups, s) \in B
    <3>1. PICK k \in Nat : Narrowed(gid, groups, n, k, s)
      BY <2>1
    <3>2. Narrowed(gid, groups, n, k + 1, Halved(gid, groups, s)) /\ k + 1 \in Nat
      BY <3>1, HalvedNarrows
    <3>3. Halved(gid, groups, s) \in [l : Nat, h : Nat]
      BY <3>2 DEF Narrowed
    <3>4. QED
      BY <2>1, <3>2, <3>3
  <2>3. PICK first : first = [l |-> 1, h |-> n]
    OBVIOUS
  <2>4. first \in B
    <3>1. first \in [l : Nat, h : Nat] /\ first.l = 1 /\ first.h = n
      BY <2>3
    <3>2. Narrowed(gid, groups, n, 0, first)
      BY <3>1 DEF Narrowed
    <3>3. QED
      BY <2>1, <3>1, <3>2
  <2>5. PICK step : step = [s \in B |-> Halved(gid, groups, s)]
    OBVIOUS
  <2>6. step \in [B -> B]
    BY <2>2, <2>5
  <2>7. PICK G : G = [k \in 1 .. n |-> step]
    OBVIOUS
  <2>8. G \in [1 .. n -> [B -> B]]
    BY <2>6, <2>7
  <2>9. PICK f : Recurs(f, B, n, first, G)
    BY <2>4, <2>8, Recursion
  <2>10. f \in [0 .. n -> B] /\ f[0] = first /\ \A k \in 1 .. n : f[k] = G[k][f[k - 1]]
    BY <2>9 DEF Recurs
  <2>11. ASSUME NEW k \in 1 .. n PROVE f[k] = Halved(gid, groups, f[k - 1])
    <3>1. k - 1 \in 0 .. n
      OBVIOUS
    <3>2. f[k - 1] \in B
      BY <2>10, <3>1
    <3>3. G[k][f[k - 1]] = Halved(gid, groups, f[k - 1])
      BY <2>5, <2>7, <3>2
    <3>4. QED
      BY <2>10, <3>3
  <2>12. ASSUME NEW k \in 0 .. n
         PROVE  f[k] = IF k = 0 THEN [l |-> 1, h |-> n] ELSE Halved(gid, groups, f[k - 1])
    BY <2>3, <2>10, <2>11
  <2>13. f = Fold(f)
    BY <2>10, <2>12
  <2>14. QED
    BY <2>13
<1>2. PICK turn : turn = CHOOSE g : g = Fold(g)
  OBVIOUS
<1>3. turn = Fold(turn)
  BY <1>1, <1>2
<1>4. Search(gid, groups, n) = turn[n].l
  BY <1>2, Zenon DEF Search
<1>5. Turns(turn, gid, groups, n)
  <2>1. PICK h : h = turn /\ h = [k \in 0 .. n |-> IF k = 0 THEN [l |-> 1, h |-> n] ELSE Halved(gid, groups, h[k - 1])]
    BY <1>3
  <2>2. \A k \in 0 .. n : h[k] = IF k = 0 THEN [l |-> 1, h |-> n] ELSE Halved(gid, groups, h[k - 1])
    BY <2>1
  <2>3. h[0] = [l |-> 1, h |-> n] /\ \A k \in 1 .. n : h[k] = Halved(gid, groups, h[k - 1])
    BY <2>2
  <2>4. QED
    BY <2>1, <2>3 DEF Turns
<1>6. QED
  BY <1>4, <1>5

(* Where the search ends: what comes before is below gid, what comes after *)
(* is not.                                                                 *)
LEMMA SearchEnds ==
    ASSUME NEW gid \in Nat, NEW n \in Nat, n > 0, NEW groups, GroupsSorted(groups, n)
    PROVE  \E l \in 1 .. n : /\ Search(gid, groups, n) = l
                             /\ \A i \in 2 .. l : groups[i] < gid
                             /\ \A i \in l + 1 .. n : gid <= groups[i]
<1>1. PICK turn : Turns(turn, gid, groups, n) /\ Search(gid, groups, n) = turn[n].l
  BY SearchTurns
<1> DEFINE T == {k \in Nat : k <= n => Narrowed(gid, groups, n, k, turn[k])}
<1>2. 0 \in T
  <2>1. PICK s : s = turn[0] /\ s = [l |-> 1, h |-> n]
    BY <1>1 DEF Turns
  <2>2. s \in [l : Nat, h : Nat] /\ s.l = 1 /\ s.h = n
    BY <2>1
  <2>3. Narrowed(gid, groups, n, 0, s)
    BY <2>2 DEF Narrowed
  <2>4. QED
    BY <2>1, <2>3
<1>3. ASSUME NEW k \in Nat, k \in T PROVE k + 1 \in T
  <2>1. SUFFICES ASSUME k + 1 <= n PROVE Narrowed(gid, groups, n, k + 1, turn[k + 1])
    OBVIOUS
  <2>2. Narrowed(gid, groups, n, k, turn[k])
    BY <1>3, <2>1
  <2>3. Narrowed(gid, groups, n, k + 1, Halved(gid, groups, turn[k]))
    BY <2>2, HalvedNarrows
  <2>4. k + 1 \in 1 .. n /\ (k + 1) - 1 = k
    BY <2>1
  <2>5. turn[k + 1] = Halved(gid, groups, turn[k])
    BY <1>1, <2>4 DEF Turns
  <2>6. QED
    BY <2>3, <2>5
<1> HIDE DEF T
<1>4. n \in T
  BY <1>2, <1>3, SetInduction
<1>5. PICK s : s = turn[n] /\ Narrowed(gid, groups, n, n, s)
  BY <1>4 DEF T
<1>6. PICK l \in Nat, h \in Nat : l = s.l /\ h = s.h
  BY <1>5 DEF Narrowed
<1>7. /\ 1 <= l /\ l <= h /\ h <= n /\ (l = h \/ h - l <= n - 1 - n)
      /\ \A i \in 2 .. l : groups[i] < gid
      /\ \A i \in h + 1 .. n : gid <= groups[i]
  BY <1>5, <1>6 DEF Narrowed
<1>8. l = h /\ l \in 1 .. n
  BY <1>7
<1>9. QED
  BY <1>1, <1>5, <1>6, <1>7, <1>8

LEMMA GroupListSorted ==
    ASSUME NEW groups \in GroupLists
    PROVE  /\ groups \in Seq(Nat) /\ Len(groups) \in Nat /\ Len(groups) > 0
           /\ GroupsSorted(groups, Len(groups))
<1>1. Gids \subseteq Nat /\ MaxGroups \in Nat
  BY SubrAssumption
<1>2. PICK n \in 1 .. MaxGroups : groups \in [1 .. n -> Gids]
  BY DEF GroupLists
<1>3. n \in Nat /\ groups \in [1 .. n -> Nat]
  <2>1. n \in Nat
    BY <1>1
  <2>2. \A i \in 1 .. n : groups[i] \in Nat
    BY <1>1, <1>2
  <2>3. DOMAIN groups = 1 .. n /\ groups = [i \in 1 .. n |-> groups[i]]
    BY <1>2
  <2>4. QED
    BY <2>1, <2>2, <2>3
<1>4. groups \in Seq(Nat)
  BY <1>3, SeqDef
<1>5. Len(groups) = n
  BY <1>3, <1>4, LenProperties
<1>6. \A i \in 3 .. Len(groups) : groups[i - 1] <= groups[i]
  BY DEF GroupLists
<1>7. QED
  BY <1>1, <1>2, <1>3, <1>4, <1>5, <1>6 DEF GroupsSorted

(* groupmember finds a group exactly when it is there. *)
LEMMA GroupMember ==
    ASSUME NEW gid \in Gids, NEW groups \in GroupLists
    PROVE  groupmember(gid, groups) = (gid \in ToSet(groups))
<1>1. gid \in Nat
  BY SubrAssumption
<1>2. PICK n \in Nat : n = Len(groups) /\ n > 0 /\ GroupsSorted(groups, n)
  BY GroupListSorted
<1>3. \A i \in 1 .. n : groups[i] \in Nat
  BY <1>2 DEF GroupsSorted
<1>4. PICK l \in 1 .. n : /\ Search(gid, groups, n) = l
                          /\ \A i \in 2 .. l : groups[i] < gid
                          /\ \A i \in l + 1 .. n : gid <= groups[i]
  BY <1>1, <1>2, SearchEnds
<1>5. groupmember(gid, groups) <=> groups[1] = gid \/ (l < n /\ groups[l + 1] = gid)
  BY <1>2, <1>4 DEF groupmember
<1>6. gid \in ToSet(groups) <=> \E i \in 1 .. n : groups[i] = gid
  BY <1>2, SMT DEF ToSet
<1>7. ASSUME groups[1] = gid \/ (l < n /\ groups[l + 1] = gid) PROVE \E i \in 1 .. n : groups[i] = gid
  <2>1. 1 \in 1 .. n /\ (l < n => l + 1 \in 1 .. n)
    BY <1>2
  <2>2. QED
    BY <1>7, <2>1
<1>8. ASSUME NEW i \in 1 .. n, groups[i] = gid PROVE groups[1] = gid \/ (l < n /\ groups[l + 1] = gid)
  <2>1. CASE i = 1
    BY <1>8, <2>1
  <2>2. CASE i # 1
    <3>1. ~ (i <= l)
      <4>1. SUFFICES ASSUME i <= l PROVE FALSE
        OBVIOUS
      <4>2. i \in 2 .. l
        BY <2>2, <4>1
      <4>3. groups[i] < gid
        BY <1>4, <4>2
      <4>4. QED
        BY <1>1, <1>8, <4>3
    <3>2. PICK d \in Nat : l + 1 \in 2 .. n /\ (l + 1) + d = i /\ (l + 1) + d <= n /\ l + 1 \in l + 1 .. n /\ l < n
      <4>1. /\ i - (l + 1) \in Nat /\ (l + 1) + (i - (l + 1)) = i /\ i <= n
            /\ l + 1 \in 2 .. n /\ l + 1 \in l + 1 .. n /\ l < n
        BY <3>1
      <4>2. QED
        BY <4>1
    <3>3. groups[l + 1] \in Nat /\ groups[l + 1] <= groups[(l + 1) + d]
      BY <1>2, <3>2, SortedOrder
    <3>4. gid <= groups[l + 1]
      BY <1>4, <3>2
    <3>5. groups[l + 1] <= gid
      BY <1>8, <3>2, <3>3
    <3>6. groups[l + 1] = gid
      BY <1>1, <3>3, <3>4, <3>5
    <3>7. QED
      BY <3>2, <3>6
  <2>3. QED
    BY <2>1, <2>2
<1>9. groupmember(gid, groups) <=> gid \in ToSet(groups)
  BY <1>5, <1>6, <1>7, <1>8
<1>10. groupmember(gid, groups) \in BOOLEAN
  BY DEF groupmember
<1>11. QED
  BY <1>9, <1>10

(* The sizes of hash tables and the answer about a group, once given, are  *)
(* right and stay.                                                         *)
LEMMA SizesExact == SubrSpec => [](HashSized /\ GroupFound)
<1>1. SubrInit => HashSized /\ GroupFound
  <2>1. SUFFICES ASSUME sized = [kind |-> "none"] PROVE HashSized /\ GroupFound
    BY DEF SubrInit
  <2>2. sized.kind = "none"
    BY <2>1
  <2>3. QED
    BY <2>2 DEF HashSized, GroupFound
<1>2. HashSized /\ GroupFound /\ [SubrNext]_subrVars => (HashSized /\ GroupFound)'
  <2>1. ASSUME HashSized, GroupFound, sized' = sized PROVE (HashSized /\ GroupFound)'
    BY <2>1 DEF HashSized, GroupFound
  <2>2. UioNext \/ HeapNext \/ SbNext \/ UNCHANGED subrVars => sized' = sized
    BY DEF UioNext, HeapNext, SbNext, subrVars, copyinuio, uiomove, uiomove_step, uio_done, kmalloc, kfree, crhold,
           crfree, krealloc, kreallocf, chgsbsize
  <2>3. ASSUME NEW elements \in 1 .. MaxElements, NEW prime \in BOOLEAN, hash_table(elements, prime)
        PROVE  (HashSized /\ GroupFound)'
    <3>1. elements \in Nat /\ MaxElements \in Nat /\ elements > 0
      BY SubrAssumption
    <3>2. CASE prime = TRUE
      <4>1. sized' = [kind |-> "prime", elements |-> elements, size |-> phashinit_flags(elements)]
        BY <2>3, <3>2 DEF hash_table
      <4>2. sized'.kind = "prime" /\ sized'.elements = elements /\ sized'.size = phashinit_flags(elements)
        BY <4>1
      <4>3. phashinit_flags(elements) = Max({p \in ToSet(Primes) : p <= elements})
        BY <3>1, PrimeSized
      <4>4. QED
        BY <4>2, <4>3 DEF HashSized, GroupFound
    <3>3. CASE prime = FALSE
      <4>1. sized' = [kind |-> "power", elements |-> elements, size |-> hashinit_flags(elements)]
        BY <2>3, <3>3 DEF hash_table
      <4>2. sized'.kind = "power" /\ sized'.elements = elements /\ sized'.size = hashinit_flags(elements)
        BY <4>1
      <4>3. hashinit_flags(elements) = Max({p \in PowersOfTwo : p <= elements})
        BY PowerSized
      <4>4. QED
        BY <4>2, <4>3 DEF HashSized, GroupFound
    <3>4. QED
      BY <3>2, <3>3
  <2>4. ASSUME NEW gid \in Gids, NEW groups \in GroupLists, group_check(gid, groups)
        PROVE  (HashSized /\ GroupFound)'
    <3>1. sized' = [kind |-> "group", gid |-> gid, groups |-> groups, member |-> groupmember(gid, groups)]
      BY <2>4 DEF group_check
    <3>2. /\ sized'.kind = "group" /\ sized'.gid = gid /\ sized'.groups = groups
          /\ sized'.member = groupmember(gid, groups)
      BY <3>1
    <3>3. sized'.member = (gid \in ToSet(groups))
      BY <3>2, GroupMember
    <3>4. QED
      BY <3>2, <3>3 DEF HashSized, GroupFound
  <2>5. QED
    BY <2>1, <2>2, <2>3, <2>4 DEF SubrNext, SizedNext
<1>3. QED
  BY <1>1, <1>2, PTL DEF SubrSpec

(* On every input, whatever the bounds, tvtohz answers the ticks that      *)
(* cover the time and one more, or the longest there is, hashinit_flags    *)
(* and phashinit_flags choose the largest size that does not exceed the    *)
(* elements, and the binary search of groupmember finds a group exactly    *)
(* when the credential has it.                                             *)
THEOREM AlgorithmsAreExact == Spec => []AlgorithmsExact
  BY PartsTogether, TimeoutsCovered, SizesExact, PTL DEF AlgorithmsExact
=============================================================================
