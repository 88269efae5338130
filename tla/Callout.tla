------------------------------ MODULE Callout ------------------------------
(***************************************************************************)
(* The callout wheel of bsd/lib/lazybsd_kern_timeout.c.                    *)
(*                                                                         *)
(* One lcore thread runs everything: the locks, sleepq_* and wakeup are    *)
(* empty in this port, so there is one struct callout_cpu, nothing         *)
(* preempts a function, and migration (cc_cce_migrating returns 0) never   *)
(* happens.  What interleaves is the callers: a handler c_func, or a drain *)
(* function, called from inside softclock may itself reset, stop,          *)
(* deactivate or re-initialise any callout, among them the one that runs,  *)
(* the one the scan goes to next, and others on the bucket being scanned.  *)
(*                                                                         *)
(* ticks, cc_softticks and c_time are C ints: here residues 0..TickMod-1   *)
(* (TickMod = 2^32 in the code), added and compared with wrap-around.      *)
(* A hash bucket is the sequence of its LIST, head first.                  *)
(***************************************************************************)
EXTENDS Integers, Sequences

CONSTANTS Callouts,     \* the struct callouts of the stack
          NULL,         \* the null pointer
          WheelSize,    \* callwheelsize
          TickMod,      \* 2^width of int
          ToTicks,      \* the to_ticks arguments callers pass
          DirectFlags,  \* the values of flags & C_DIRECT_EXEC callers pass
          SelfDrain     \* may a handler callout_drain() the callout it runs for?

ASSUME NullAssumption  == NULL \notin Callouts
ASSUME WheelAssumption == WheelSize \in Nat \ {0}
ASSUME TickAssumption  == TickMod \in Nat /\ TickMod > 3
ASSUME ToAssumption    == /\ ToTicks \subseteq Int
                          /\ \A to \in ToTicks : to < TickMod - 1
ASSUME FlagAssumption  == DirectFlags \subseteq BOOLEAN /\ SelfDrain \in BOOLEAN

VARIABLES
    ticks,          \* the clock
    cc_softticks,   \* the next tick softclock has to serve
    cc_callwheel,   \* bucket -> LIST of callouts
    cc_next,        \* where softclock resumes its scan
    cc_bucket,      \* bucket of the last callout softclock ran
    cc_curr,        \* cc_exec_entity[1].cc_curr
    cc_drain,       \* cc_exec_entity[1].cc_drain # NULL
    pending,        \* c_iflags & CALLOUT_PENDING
    active,         \* c_flags & CALLOUT_ACTIVE
    direct,         \* c_iflags & CALLOUT_DIRECT
    c_time,         \* tick at which the callout is due
    curticks,       \* softclock's local: the tick being served
    scan,           \* softclock's local c: the callout being looked at
    pc              \* where the lcore is

vars == <<ticks, cc_softticks, cc_callwheel, cc_next, cc_bucket, cc_curr, cc_drain,
          pending, active, direct, c_time, curticks, scan, pc>>

Tick    == 0 .. TickMod - 1
Buckets == 0 .. WheelSize - 1

-----------------------------------------------------------------------------
(* int arithmetic that wraps, and the LIST macros of sys/queue.h.          *)

TickAdd(a, n) == IF a + n < TickMod THEN a + n ELSE a + n - TickMod

TickDiff(a, b) == IF a >= b THEN a - b ELSE a - b + TickMod

(* Mutant of TickBefore: a comparison that does not wrap. *)
TickBefore_NoWrap(a, b) == a < b

(* (a - b) < 0 for a and b of type int. *)
TickBefore(a, b) == 2 * TickDiff(a, b) >= TickMod

callout_get_bucket(t) == t % WheelSize

IndexOf(s, c) == CHOOSE i \in 1 .. Len(s) : s[i] = c

LIST_FIRST(s) == IF Len(s) = 0 THEN NULL ELSE s[1]

LIST_NEXT(s, c) == IF IndexOf(s, c) = Len(s) THEN NULL ELSE s[IndexOf(s, c) + 1]

LIST_REMOVE(s, c) ==
    [j \in 1 .. Len(s) - 1 |-> IF j < IndexOf(s, c) THEN s[j] ELSE s[j + 1]]

LIST_INSERT_HEAD(s, c) ==
    [j \in 1 .. Len(s) + 1 |-> IF j = 1 THEN c ELSE s[j - 1]]

-----------------------------------------------------------------------------
(* callout_callwheel_init, callout_cpu_init: an empty wheel.  The          *)
(* preallocated cc_callfree callouts serve timeout(9), which is compiled   *)
(* out, so they are never taken.  ticks is 0 at boot; any start shows the  *)
(* wrap-around sooner.                                                     *)
Init ==
    /\ ticks \in Tick
    /\ cc_softticks = ticks
    /\ cc_callwheel = [b \in Buckets |-> << >>]
    /\ cc_next = NULL
    /\ cc_bucket = 0
    /\ cc_curr = NULL
    /\ cc_drain = FALSE
    /\ pending = [c \in Callouts |-> FALSE]
    /\ active = [c \in Callouts |-> FALSE]
    /\ direct = [c \in Callouts |-> FALSE]
    /\ c_time = [c \in Callouts |-> 0]
    /\ curticks = 0
    /\ scan = NULL
    /\ pc = "idle"

-----------------------------------------------------------------------------
(* The operations a client calls: from the main loop ("idle"), from a      *)
(* running handler, or from a running drain function.                      *)

Callable == pc \in {"idle", "handler", "drain"}

(* cc_exec_curr(cc, dir): softclock always runs a handler as entity 1, so  *)
(* entity 0 stays NULL.                                                    *)
cc_exec_curr(dir) == IF dir THEN cc_curr ELSE NULL

(* The bucket lists and cc_next with the pending callout c taken off. *)
Bucket(c) == callout_get_bucket(c_time[c])

WheelWithout(c) ==
    [cc_callwheel EXCEPT ![Bucket(c)] = LIST_REMOVE(cc_callwheel[Bucket(c)], c)]

(* Mutants of NextWithout: cc_next is not moved on, or the rest of the     *)
(* list is forgotten.                                                      *)
NextWithout_Stale(c) == cc_next

NextWithout_Lost(c) == IF cc_next = c THEN NULL ELSE cc_next

NextWithout(c) ==
    IF cc_next = c THEN LIST_NEXT(cc_callwheel[Bucket(c)], c) ELSE cc_next

(* callout_cc_add on the given lists. *)
callout_cc_add(c, to, dir, wheel, next) ==
    LET due == TickAdd(ticks, to)
        b   == callout_get_bucket(due)
    IN  /\ pending' = [pending EXCEPT ![c] = TRUE]
        /\ active' = [active EXCEPT ![c] = TRUE]
        /\ direct' = [direct EXCEPT ![c] = @ \/ dir]
        /\ c_time' = [c_time EXCEPT ![c] = due]
        /\ cc_callwheel' = [wheel EXCEPT ![b] = LIST_INSERT_HEAD(wheel[b], c)]
        /\ cc_next' = IF cc_bucket = b THEN c ELSE next

(* Mutant of callout_reset_tick_on: a pending callout is linked again.     *)
callout_reset_tick_on_Relink(c, to_ticks, dir) ==
    /\ Callable
    /\ callout_cc_add(c, IF to_ticks <= 0 THEN 1 ELSE to_ticks, dir, cc_callwheel, cc_next)
    /\ UNCHANGED <<ticks, cc_softticks, cc_bucket, cc_curr, cc_drain, curticks, scan, pc>>

(* callout_reset_tick_on: a pending callout is taken off its list first.   *)
(* The branch for a callout in progress only acts on c_lock (which a       *)
(* direct callout has not) and on cc_waiting (set only while the lcore     *)
(* spins in callout_drain), so it changes nothing.                         *)
callout_reset_tick_on(c, to_ticks, dir) ==
    /\ Callable
    /\ callout_cc_add(c, IF to_ticks <= 0 THEN 1 ELSE to_ticks, dir,
                      IF pending[c] THEN WheelWithout(c) ELSE cc_callwheel,
                      IF pending[c] THEN NextWithout(c) ELSE cc_next)
    /\ UNCHANGED <<ticks, cc_softticks, cc_bucket, cc_curr, cc_drain, curticks, scan, pc>>

(* Does _callout_stop_safe take c for running? *)
SeenRunning(c) == cc_exec_curr(direct[c]) = c

(* Mutant of _callout_stop_safe: the flags are cleared, the callout stays  *)
(* on its list.                                                            *)
_callout_stop_safe_Linked(c, drain) ==
    /\ Callable
    /\ active' = [active EXCEPT ![c] = FALSE]
    /\ pending' = [pending EXCEPT ![c] = FALSE]
    /\ UNCHANGED <<ticks, cc_softticks, cc_callwheel, cc_next, cc_bucket, cc_curr, cc_drain,
                   direct, c_time, curticks, scan, pc>>

(* _callout_stop_safe: callout_stop, and callout_async_drain when drain is *)
(* a function.  CS_DRAIN differs only for a callout seen running.          *)
_callout_stop_safe(c, drain) ==
    /\ Callable
    /\ cc_drain' = (cc_drain \/ (SeenRunning(c) /\ drain))
    /\ active' = [active EXCEPT ![c] = @ /\ ~SeenRunning(c) /\ ~pending[c]]
    /\ pending' = [pending EXCEPT ![c] = FALSE]
    /\ cc_callwheel' = IF pending[c] THEN WheelWithout(c) ELSE cc_callwheel
    /\ cc_next' = IF pending[c] THEN NextWithout(c) ELSE cc_next
    /\ UNCHANGED <<ticks, cc_softticks, cc_bucket, cc_curr, direct, c_time, curticks,
                   scan, pc>>

(* callout_drain() of the callout that runs: the wait of lines 875-924     *)
(* with an empty sleepq_wait, in the only thread there is.                 *)
DrainSpin(c) ==
    /\ SelfDrain
    /\ Callable
    /\ SeenRunning(c)
    /\ active' = [active EXCEPT ![c] = FALSE]
    /\ pc' = "spin"
    /\ UNCHANGED <<ticks, cc_softticks, cc_callwheel, cc_next, cc_bucket, cc_curr, cc_drain,
                   pending, direct, c_time, curticks, scan>>

Spin ==
    /\ pc = "spin"
    /\ pc' = IF cc_curr = NULL THEN "handler" ELSE "spin"
    /\ UNCHANGED <<ticks, cc_softticks, cc_callwheel, cc_next, cc_bucket, cc_curr, cc_drain,
                   pending, active, direct, c_time, curticks, scan>>

(* callout_deactivate() of sys/callout.h, which clients use on a callout   *)
(* that is not pending: "marks the callout as having been serviced".       *)
callout_deactivate(c) ==
    /\ Callable
    /\ ~pending[c]
    /\ active' = [active EXCEPT ![c] = FALSE]
    /\ UNCHANGED <<ticks, cc_softticks, cc_callwheel, cc_next, cc_bucket, cc_curr, cc_drain,
                   pending, direct, c_time, curticks, scan, pc>>

(* callout_init, _callout_init_lock: bzero of a callout that is on no      *)
(* list; its owner may do so from the handler itself.                      *)
callout_init(c) ==
    /\ Callable
    /\ ~pending[c]
    /\ active' = [active EXCEPT ![c] = FALSE]
    /\ direct' = [direct EXCEPT ![c] = FALSE]
    /\ c_time' = [c_time EXCEPT ![c] = 0]
    /\ UNCHANGED <<ticks, cc_softticks, cc_callwheel, cc_next, cc_bucket, cc_curr, cc_drain,
                   pending, curticks, scan, pc>>

-----------------------------------------------------------------------------
(* The clock.                                                              *)

(* lazybsd_hardclock: one more tick, then callout_tick. *)
lazybsd_hardclock ==
    /\ pc = "idle"
    /\ ticks' = TickAdd(ticks, 1)
    /\ pc' = "tick"
    /\ UNCHANGED <<cc_softticks, cc_callwheel, cc_next, cc_bucket, cc_curr, cc_drain,
                   pending, active, direct, c_time, curticks, scan>>

(* Mutant of callout_tick: the bucket it looks into is that of the clock.  *)
callout_tick_ClockBucket ==
    /\ pc = "tick"
    /\ LET behind == TickBefore(cc_softticks, ticks)
           empty  == cc_callwheel[callout_get_bucket(ticks)] = << >>
       IN  /\ cc_softticks' = IF behind /\ empty THEN TickAdd(cc_softticks, 1)
                              ELSE cc_softticks
           /\ pc' = IF ~behind THEN "idle" ELSE IF empty THEN "tick" ELSE "softclock"
    /\ UNCHANGED <<ticks, cc_callwheel, cc_next, cc_bucket, cc_curr, cc_drain,
                   pending, active, direct, c_time, curticks, scan>>

(* One round of callout_tick's loop: skip the ticks whose bucket is empty. *)
callout_tick ==
    /\ pc = "tick"
    /\ LET behind == TickBefore(cc_softticks, ticks)
           empty  == cc_callwheel[callout_get_bucket(cc_softticks)] = << >>
       IN  /\ cc_softticks' = IF behind /\ empty THEN TickAdd(cc_softticks, 1)
                              ELSE cc_softticks
           /\ pc' = IF ~behind THEN "idle" ELSE IF empty THEN "tick" ELSE "softclock"
    /\ UNCHANGED <<ticks, cc_callwheel, cc_next, cc_bucket, cc_curr, cc_drain,
                   pending, active, direct, c_time, curticks, scan>>

(* Mutant of softclock: cc_softticks is not moved on. *)
softclock_Stuck ==
    /\ pc = "softclock"
    /\ IF cc_softticks = ticks
       THEN pc' = "idle" /\ UNCHANGED <<curticks, scan>>
       ELSE /\ curticks' = cc_softticks
            /\ scan' = LIST_FIRST(cc_callwheel[callout_get_bucket(cc_softticks)])
            /\ pc' = "scan"
    /\ UNCHANGED <<ticks, cc_softticks, cc_callwheel, cc_next, cc_bucket, cc_curr, cc_drain,
                   pending, active, direct, c_time>>

(* softclock's outer loop: the next tick to serve, or done. *)
softclock ==
    /\ pc = "softclock"
    /\ IF cc_softticks = ticks
       THEN /\ pc' = "idle"
            /\ UNCHANGED <<cc_softticks, curticks, scan>>
       ELSE /\ curticks' = cc_softticks
            /\ cc_softticks' = TickAdd(cc_softticks, 1)
            /\ scan' = LIST_FIRST(cc_callwheel[callout_get_bucket(cc_softticks)])
            /\ pc' = "scan"
    /\ UNCHANGED <<ticks, cc_callwheel, cc_next, cc_bucket, cc_curr, cc_drain,
                   pending, active, direct, c_time>>

(* softclock's inner loop, on a callout of another turn of the wheel, or   *)
(* at the end of the list.                                                 *)
ScanPast ==
    /\ pc = "scan"
    /\ scan # NULL => c_time[scan] # curticks
    /\ IF scan = NULL
       THEN pc' = "softclock" /\ UNCHANGED scan
       ELSE scan' = LIST_NEXT(cc_callwheel[callout_get_bucket(curticks)], scan) /\ UNCHANGED pc
    /\ UNCHANGED <<ticks, cc_softticks, cc_callwheel, cc_next, cc_bucket, cc_curr, cc_drain,
                   pending, active, direct, c_time, curticks>>

(* Mutant of ScanDue: every callout of the bucket is run, whatever turn of *)
(* the wheel it is due in.                                                 *)
ScanDue_AnyTurn ==
    LET b == callout_get_bucket(curticks) IN
    /\ pc = "scan"
    /\ scan # NULL
    /\ cc_next' = LIST_NEXT(cc_callwheel[b], scan)
    /\ cc_bucket' = b
    /\ cc_callwheel' = [cc_callwheel EXCEPT ![b] = LIST_REMOVE(cc_callwheel[b], scan)]
    /\ pending' = [pending EXCEPT ![scan] = FALSE]
    /\ cc_curr' = scan
    /\ cc_drain' = FALSE
    /\ pc' = "handler"
    /\ UNCHANGED <<ticks, cc_softticks, active, direct, c_time, curticks, scan>>

(* softclock's inner loop, on a callout that is due, and softclock_call_cc *)
(* up to the call of c_func.  The lock taken on the way is empty, so       *)
(* nothing can set cc_cancel in between and the handler always starts.     *)
ScanDue ==
    LET b == callout_get_bucket(curticks) IN
    /\ pc = "scan"
    /\ scan # NULL
    /\ c_time[scan] = curticks
    /\ cc_next' = LIST_NEXT(cc_callwheel[b], scan)
    /\ cc_bucket' = b
    /\ cc_callwheel' = [cc_callwheel EXCEPT ![b] = LIST_REMOVE(cc_callwheel[b], scan)]
    /\ pending' = [pending EXCEPT ![scan] = FALSE]
    /\ cc_curr' = scan
    /\ cc_drain' = FALSE
    /\ pc' = "handler"
    /\ UNCHANGED <<ticks, cc_softticks, active, direct, c_time, curticks, scan>>

(* Mutant of HandlerReturn: cc_curr is left behind. *)
HandlerReturn_CurrKept ==
    /\ pc = "handler"
    /\ cc_drain' = FALSE
    /\ IF cc_drain
       THEN pc' = "drain" /\ UNCHANGED <<scan, cc_next>>
       ELSE pc' = "scan" /\ scan' = cc_next /\ cc_next' = NULL
    /\ UNCHANGED <<ticks, cc_softticks, cc_callwheel, cc_bucket, cc_curr, pending, active,
                   direct, c_time, curticks>>

(* c_func returns: cc_curr is cleared and a drain function, if one was     *)
(* left, is called; else softclock resumes at cc_next.                     *)
HandlerReturn ==
    /\ pc = "handler"
    /\ cc_curr' = NULL
    /\ cc_drain' = FALSE
    /\ IF cc_drain
       THEN pc' = "drain" /\ UNCHANGED <<scan, cc_next>>
       ELSE pc' = "scan" /\ scan' = cc_next /\ cc_next' = NULL
    /\ UNCHANGED <<ticks, cc_softticks, cc_callwheel, cc_bucket, pending, active, direct,
                   c_time, curticks>>

(* The drain function returns and softclock resumes at cc_next. *)
DrainReturn ==
    /\ pc = "drain"
    /\ pc' = "scan"
    /\ scan' = cc_next
    /\ cc_next' = NULL
    /\ UNCHANGED <<ticks, cc_softticks, cc_callwheel, cc_bucket, cc_curr, cc_drain,
                   pending, active, direct, c_time, curticks>>

-----------------------------------------------------------------------------
Client(c) ==
    \/ \E to \in ToTicks, dir \in DirectFlags : callout_reset_tick_on(c, to, dir)
    \/ \E drain \in BOOLEAN : _callout_stop_safe(c, drain)
    \/ callout_deactivate(c)
    \/ callout_init(c)
    \/ DrainSpin(c)

Clock ==
    \/ callout_tick
    \/ softclock
    \/ ScanPast
    \/ ScanDue
    \/ HandlerReturn
    \/ DrainReturn
    \/ Spin

Next == lazybsd_hardclock \/ Clock \/ \E c \in Callouts : Client(c)

SafeSpec == Init /\ [][Next]_vars

(* The main loop calls rte_timer_manage for ever, every handler returns,   *)
(* and a step of softclock is a step of the running lcore.                 *)
Spec == SafeSpec /\ WF_vars(lazybsd_hardclock) /\ WF_vars(Clock)

-----------------------------------------------------------------------------
(* Correctness.                                                            *)

PcValues == {"idle", "tick", "softclock", "scan", "handler", "drain", "spin"}

(* Every variable has the type of its C counterpart. *)
TypeOK ==
    /\ ticks \in Tick /\ cc_softticks \in Tick /\ curticks \in Tick
    /\ cc_callwheel \in [Buckets -> Seq(Callouts)]
    /\ cc_next \in Callouts \cup {NULL}
    /\ cc_bucket \in Buckets
    /\ cc_curr \in Callouts \cup {NULL}
    /\ cc_drain \in BOOLEAN
    /\ pending \in [Callouts -> BOOLEAN]
    /\ active \in [Callouts -> BOOLEAN]
    /\ direct \in [Callouts -> BOOLEAN]
    /\ c_time \in [Callouts -> Tick]
    /\ scan \in Callouts \cup {NULL}
    /\ pc \in PcValues

On(s, c) == \E i \in 1 .. Len(s) : s[i] = c

(* On list s, x is y or comes before it. *)
NotAfter(s, x, y) ==
    \E k, i \in 1 .. Len(s) : k <= i /\ s[k] = x /\ s[i] = y

NoDuplicates(s) == \A i, j \in 1 .. Len(s) : s[i] = s[j] => i = j

(* A callout is linked on a bucket exactly when it is pending and that is  *)
(* the bucket of its due time, and it is linked there once: no reset, stop *)
(* or run from a handler leaves a callout on a wrong list, or off its own. *)
WheelConsistent ==
    \A b \in Buckets :
        /\ NoDuplicates(cc_callwheel[b])
        /\ \A c \in Callouts : On(cc_callwheel[b], c) <=> (pending[c] /\ b = Bucket(c))

(* cc_next, which callout_cc_add may set and leave behind outside          *)
(* softclock, never points to a callout that is off its list.              *)
NextOnList == cc_next # NULL => On(cc_callwheel[cc_bucket], cc_next)

Serving == pc \in {"scan", "handler", "drain", "spin"}

(* The list softclock scans, and where its scan will continue. *)
Scanned == cc_callwheel[callout_get_bucket(curticks)]
Cursor  == IF pc = "scan" THEN scan ELSE cc_next

(* Every callout of the scanned bucket that is due at the tick being       *)
(* served is still ahead of the scan, whatever the handlers have moved.    *)
ScanAhead ==
    Serving =>
        \A c \in Callouts :
            On(Scanned, c) /\ c_time[c] = curticks => NotAfter(Scanned, Cursor, c)

(* A pending callout is overdue by one tick only while that tick is being  *)
(* served; between ticks every pending callout is due now or later.        *)
NoneMissed ==
    \A c \in Callouts :
        pending[c] /\ TickAdd(c_time[c], 1) = ticks =>
            \/ cc_softticks = c_time[c] /\ pc \in {"tick", "softclock"}
            \/ curticks = c_time[c] /\ Serving

(* The two KASSERTs at the head of softclock_call_cc: a callout about to   *)
(* run is pending and active.                                              *)
RunsArmed == (pc = "scan" /\ scan # NULL) => (pending[scan] /\ active[scan])

(* softclock is at most one tick behind the clock, and not at all between  *)
(* two ticks; a scan serves the tick before the current one.               *)
SoftticksInStep ==
    /\ pc \in {"idle", "scan", "handler", "drain", "spin"} => cc_softticks = ticks
    /\ pc \in {"tick", "softclock"} =>
          cc_softticks = ticks \/ TickAdd(cc_softticks, 1) = ticks
    /\ Serving => TickAdd(curticks, 1) = ticks

CursorOnList ==
    /\ (pc = "scan" /\ scan # NULL) => On(Scanned, scan)
    /\ (Serving /\ pc # "scan") => cc_bucket = callout_get_bucket(curticks)

CurrWhileRunning == (pc \in {"handler", "spin"}) <=> (cc_curr # NULL)

PendingActive == pc # "spin" => \A c \in Callouts : pending[c] => active[c]

(* Lists, flags, cursor and the phase of the tick are in step in every     *)
(* state: handlers that reset, stop and re-initialise callouts in the      *)
(* middle of softclock's scan never leave a callout off its list, or the   *)
(* scan off the list or behind a callout that is still due in it.          *)
WheelInvariant ==
    /\ TypeOK
    /\ WheelConsistent
    /\ NextOnList
    /\ ScanAhead
    /\ SoftticksInStep
    /\ CursorOnList
    /\ CurrWhileRunning
    /\ PendingActive

(* The clock time left of every callout, as a TimerService counts it. *)
left == [c \in Callouts |->
            IF ~pending[c] THEN -2
            ELSE IF TickAdd(c_time[c], 1) = ticks THEN -1
            ELSE TickDiff(c_time[c], ticks)]

Timers == INSTANCE TimerService WITH Timers <- Callouts, MaxDelay <- TickMod - 2,
                                      None <- NULL, running <- cc_curr

(* The wheel implements the timer service: every callout runs at the tick  *)
(* after its due tick, once, and not at all after a stop that found it     *)
(* pending, also across a wrap of ticks.                                   *)
ImplementsTimers == Timers!Spec

(* A callout that stays armed is run, unless its owner resets it for ever. *)
EveryCalloutServed ==
    \A c \in Callouts :
        \/ []<>(~pending[c])
        \/ []<><<\E to \in ToTicks, dir \in DirectFlags : callout_reset_tick_on(c, to, dir)>>_vars

(* Every tick's work ends: softclock's loops terminate although handlers   *)
(* keep linking callouts at the head of the list being scanned.            *)
TickEnds == []<>(pc = "idle")
=============================================================================
