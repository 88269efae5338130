------------------------------ MODULE KernTime ------------------------------
(***************************************************************************)
(* The time arithmetic of the kernel library (bsd/lib/lazybsd_patch.c):    *)
(* interval timers, the two rate limiters of the stack's error paths, and  *)
(* the conversion of a timeout to clock ticks.                             *)
(*                                                                         *)
(* A timeval is a record of whole seconds and microseconds; Usec stands    *)
(* for the 1000000 of the code.  The tick counter is an int that wraps.    *)
(***************************************************************************)
EXTENDS Integers, FiniteSets

CONSTANTS
    Usec,           \* microseconds in a second
    Hz, Tick,       \* ticks in a second, microseconds in a tick
    LongMax, IntMax,\* the largest long and int
    TickMod,        \* the number of values of the tick counter
    MaxTimer,       \* bound: the seconds of a timer or an interval
    MaxSec,         \* bound: the seconds of a timeout
    MaxElapsed,     \* bound: microseconds a timer or a limiter is watched for
    MaxAge,         \* bound: ticks between two calls of ppsratecheck
    MaxCalls,       \* bound: calls of ppsratecheck in one window
    Limits          \* the packets per second asked for

ASSUME TimeAssumption ==
    /\ {Usec, Hz, Tick, LongMax, IntMax, TickMod, MaxTimer, MaxSec, MaxElapsed, MaxAge, MaxCalls} \subseteq Nat
    /\ Usec = Hz * Tick /\ Hz > 0 /\ Tick > 1
    /\ LongMax > IntMax /\ IntMax > 0 /\ LongMax >= Usec + Tick /\ LongMax > Hz
    /\ Hz < TickMod /\ MaxAge < TickMod /\ Limits \subseteq Int

VARIABLES
    itimer,   \* an interval timer: it_value, it_interval, and what it was set to,
              \* how often it expired, and the microseconds since then
    rate,     \* ratecheck: the uptime, lasttime, the interval and the last answer
    pps,      \* ppsratecheck: ticks, lasttime, curpps, and the window's history
    conv      \* tvtohz: the timeout and the ticks it was converted to

timeVars == <<itimer, rate, pps, conv>>

-----------------------------------------------------------------------------
(* timevals.                                                               *)

Tv(sec, usec) == [sec |-> sec, usec |-> usec]

Timevals == [sec : 0 .. MaxTimer, usec : 0 .. Usec - 1]

Total(tv) == tv.sec * Usec + tv.usec

timevalisset(tv) == tv.sec # 0 \/ tv.usec # 0

Normal(tv) == tv.sec >= 0 /\ tv.usec \in 0 .. Usec - 1

timevalfix_NoBorrow(tv) ==
    IF tv.usec >= Usec THEN Tv(tv.sec + 1, tv.usec - Usec) ELSE tv

timevalfix(tv) ==
    LET borrowed == IF tv.usec < 0 THEN Tv(tv.sec - 1, tv.usec + Usec) ELSE tv
    IN  IF borrowed.usec >= Usec THEN Tv(borrowed.sec + 1, borrowed.usec - Usec) ELSE borrowed

timevaladd(a, b) == timevalfix(Tv(a.sec + b.sec, a.usec + b.usec))

timevalsub(a, b) == timevalfix(Tv(a.sec - b.sec, a.usec - b.usec))

AtLeast(a, b) == IF a.sec = b.sec THEN a.usec >= b.usec ELSE a.sec >= b.sec

-----------------------------------------------------------------------------
(* Interval timers.                                                        *)

(* At least the resolution of the clock; an improper timeval is refused. *)
itimerfix(tv) ==
    IF tv.sec = 0 /\ tv.usec # 0 /\ tv.usec < Tick THEN Tv(0, Tick) ELSE tv

NoTimer == [value |-> Tv(0, 0), interval |-> Tv(0, 0), first |-> 0, fired |-> 0, elapsed |-> 0]

itimer_set(value, interval) ==
    /\ ~ timevalisset(itimer.value)
    /\ timevalisset(value)
    /\ itimer' = [NoTimer EXCEPT !.value = itimerfix(value), !.interval = itimerfix(interval),
                                 !.first = Total(itimerfix(value))]
    /\ UNCHANGED <<rate, pps, conv>>

Reload_Whole(interval, carry) == interval

(* The value reloaded is reduced by what the tick ran past the expiry. *)
Reload(interval, carry) ==
    IF ~ timevalisset(interval) THEN Tv(0, 0)
    ELSE IF interval.usec - carry < 0
         THEN Tv(interval.sec - 1, interval.usec - carry + Usec)
         ELSE Tv(interval.sec, interval.usec - carry)

(* value and interval to the value after usec microseconds and whether the *)
(* timer expired.                                                          *)
Decremented(value, interval, usec) ==
    IF value.usec < usec /\ value.sec = 0
    THEN [value |-> Reload(interval, usec - value.usec), expired |-> TRUE]
    ELSE LET left == IF value.usec < usec
                     THEN Tv(value.sec - 1, value.usec + Usec - usec)
                     ELSE Tv(value.sec, value.usec - usec)
         IN  IF timevalisset(left)
             THEN [value |-> left, expired |-> FALSE]
             ELSE [value |-> Reload(interval, 0), expired |-> TRUE]

itimerdecr(usec) ==
    /\ timevalisset(itimer.value)
    /\ itimer.elapsed + usec <= MaxElapsed
    /\ LET d == Decremented(itimer.value, itimer.interval, usec)
       IN  itimer' = IF d.expired /\ ~ timevalisset(itimer.interval)
                     THEN NoTimer
                     ELSE [itimer EXCEPT !.value = d.value, !.elapsed = @ + usec,
                                         !.fired = IF d.expired THEN @ + 1 ELSE @]
    /\ UNCHANGED <<rate, pps, conv>>

-----------------------------------------------------------------------------
(* Rate limiters.                                                          *)

NoRate == [now |-> Tv(0, 1), last |-> Tv(0, 0), every |-> Tv(0, 0), rv |-> FALSE, due |-> FALSE, yes |-> 0]

rate_use(every) ==
    /\ rate = NoRate
    /\ timevalisset(every)
    /\ rate' = [rate EXCEPT !.every = every]
    /\ UNCHANGED <<itimer, pps, conv>>

rate_time(usec) ==
    /\ timevalisset(rate.every)
    /\ Total(rate.now) + usec <= MaxElapsed
    /\ rate' = [rate EXCEPT !.now = timevaladd(@, Tv(0, usec))]
    /\ UNCHANGED <<itimer, pps, conv>>

(* rv is the answer; due and yes record what the answer should rest on: the *)
(* time of the answer before that said yes, 0 when there was none.          *)
ratecheck ==
    /\ timevalisset(rate.every)
    /\ LET rv == \/ AtLeast(timevalsub(rate.now, rate.last), rate.every)
                 \/ ~ timevalisset(rate.last)
       IN  rate' = [rate EXCEPT !.rv = rv, !.last = IF rv THEN rate.now ELSE @,
                                !.due = rate.yes = 0 \/ Total(rate.now) - rate.yes >= Total(rate.every),
                                !.yes = IF rv THEN Total(rate.now) ELSE @]
    /\ UNCHANGED <<itimer, pps, conv>>

(* The tick counter, in the order of an int, wraps from the top to the bottom. *)
Signed(t) == IF t >= TickMod \div 2 THEN t - TickMod ELSE t

NoPps == [ticks |-> 1, last |-> 0, cur |-> 0, maxpps |-> 0, rv |-> FALSE, age |-> 0, passed |-> 0]

(* age and passed record the window by the time that really passes: the    *)
(* ticks since it opened, and the calls in it that were let through.       *)
pps_use(ticks, maxpps) ==
    /\ pps = NoPps
    /\ ticks # 0
    /\ pps' = [pps EXCEPT !.ticks = ticks, !.maxpps = maxpps]
    /\ UNCHANGED <<itimer, rate, conv>>

pps_tick ==
    /\ pps.last # 0 /\ pps.age < MaxAge
    /\ pps' = [pps EXCEPT !.ticks = (@ + 1) % TickMod, !.age = @ + 1]
    /\ UNCHANGED <<itimer, rate, conv>>

WindowOver_Signed(now, last) == Signed(now) - Signed(last) >= Hz

(* The difference of two ticks is taken as unsigned. *)
WindowOver(now, last) == (now - last) % TickMod >= Hz

ppsratecheck ==
    LET opens == pps.last = 0 \/ WindowOver(pps.ticks, pps.last)
        cur   == IF opens THEN 1 ELSE pps.cur + 1
        rv    == IF opens THEN pps.maxpps # 0 ELSE pps.maxpps < 0 \/ cur < pps.maxpps
        fresh == pps.last = 0 \/ pps.age >= Hz
    IN  /\ cur <= MaxCalls
        /\ pps' = [pps EXCEPT !.last = IF opens THEN pps.ticks ELSE @, !.cur = cur, !.rv = rv,
                              !.age = IF fresh THEN 0 ELSE @,
                              !.passed = (IF fresh THEN 0 ELSE @) + (IF rv THEN 1 ELSE 0)]
        /\ UNCHANGED <<itimer, rate, conv>>

-----------------------------------------------------------------------------
(* A timeout in ticks, rounded up, and one more for the tick that is       *)
(* running.  The sums are of unsigned longs.                               *)

ULong(n) == n % (2 * LongMax + 2)

TicksOf_OneSum(sec, usec) ==
    IF sec < 0 THEN 1 ELSE ULong(sec * Usec + usec + Tick - 1) \div Tick + 1

TicksOf(sec, usec) ==
    IF sec < 0 THEN 1
    ELSE IF sec <= LongMax \div Usec
         THEN ULong(sec * Usec + usec + Tick - 1) \div Tick + 1
         ELSE IF sec <= LongMax \div Hz
              THEN ULong(sec * Hz + (usec + Tick - 1) \div Tick + 1)
              ELSE LongMax

tvtohz(tv) ==
    LET ticks == IF tv.usec < 0 THEN TicksOf(tv.sec - 1, tv.usec + Usec) ELSE TicksOf(tv.sec, tv.usec)
    IN  /\ conv' = [tv |-> tv, ticks |-> IF ticks > IntMax THEN IntMax ELSE ticks]
        /\ UNCHANGED <<itimer, rate, pps>>

NoConv == [tv |-> Tv(-1, 0), ticks |-> 1]

-----------------------------------------------------------------------------
TimeInit ==
    /\ itimer = NoTimer
    /\ rate = NoRate
    /\ pps = NoPps
    /\ conv = NoConv

TimerNext ==
    \/ \E value, interval \in Timevals : itimer_set(value, interval)
    \/ \E usec \in 1 .. Tick : itimerdecr(usec)

RateNext ==
    \/ \E every \in Timevals : rate_use(every)
    \/ \E usec \in 1 .. Usec - 1 : rate_time(usec)
    \/ ratecheck

PpsNext ==
    \/ \E ticks \in 0 .. TickMod - 1, maxpps \in Limits : pps_use(ticks, maxpps)
    \/ pps_tick
    \/ ppsratecheck

ConvNext == conv = NoConv /\ \E sec \in -1 .. MaxSec, usec \in -1 .. Usec - 1 : tvtohz(Tv(sec, usec))

TimeNext == TimerNext \/ RateNext \/ PpsNext \/ ConvNext

TimeSpec == TimeInit /\ [][TimeNext]_timeVars

-----------------------------------------------------------------------------
(* An interval timer does not drift: at every moment the time it has run   *)
(* and the time it has left add up to the first expiry and one interval    *)
(* for every expiry, however the ticks fall on the ends of the intervals;  *)
(* and what it has left is a proper timeval (itimerdecr, itimerfix).       *)
NoDrift ==
    timevalisset(itimer.value) =>
        /\ Normal(itimer.value)
        /\ itimer.elapsed + Total(itimer.value) = itimer.first + itimer.fired * Total(itimer.interval)

(* ratecheck says yes the first time, and after that exactly when the      *)
(* interval has passed since it last said so.                              *)
RateSpaced == rate.rv = rate.due

(* A window of ppsratecheck is a second: the calls of a second that are let *)
(* through are no more than the limit, the first always is one of them, and *)
(* a negative limit lets all of them through, also when the tick counter    *)
(* wraps.  A window that opens at tick 0 is taken for none, and not counted. *)
(* No more than MaxAge ticks lie between two calls, less than the counter   *)
(* takes to come round: a limiter left alone for longer (2^32 ticks) may    *)
(* take the old window for the present one, and nothing is said of it.      *)
PpsLimited ==
    pps.last # 0 =>
        /\ pps.maxpps >= 0 => pps.passed <= pps.maxpps
        /\ pps.maxpps # 0  => pps.passed > 0
        /\ pps.maxpps < 0  => pps.rv

(* Both rate limiters let through what they should and no more, across     *)
(* borrows of a second and wraps of the tick counter.                      *)
RateLimited == RateSpaced /\ PpsLimited

(* A timeout is the ticks that cover it and one more for the tick that is *)
(* running, and the longest there is when an int does not hold them: no    *)
(* sum on the way loses its upper bits (tvtohz).                           *)
TimeoutCovered ==
    LET asked  == Total(conv.tv)
        covers == (asked + Tick - 1) \div Tick + 1
    IN  conv.ticks = IF asked < 0 THEN 1 ELSE IF covers > IntMax THEN IntMax ELSE covers
=============================================================================
