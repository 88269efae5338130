---------------------------- MODULE TimerService ----------------------------
(***************************************************************************)
(* What the callout facility of bsd/lib/lazybsd_kern_timeout.c promises to *)
(* the network stack: a timer armed for d ticks expires at the (d+1)-th    *)
(* clock tick from then (never earlier, never later, exactly once), unless *)
(* it is re-armed or disarmed first, and the clock does not tick while an  *)
(* expired timer waits or a handler runs.  No wheel, no list, no int width. *)
(***************************************************************************)
EXTENDS Integers

CONSTANTS Timers,       \* the timers of the clients
          MaxDelay,     \* the longest delay a client asks for
          None          \* no timer

VARIABLES left,         \* ticks left of every timer, Expired or Off
          running       \* the timer whose handler runs, or None

Off     == -2
Expired == -1

Init == left = [t \in Timers |-> Off] /\ running = None

Arm(t, d) == left' = [left EXCEPT ![t] = d] /\ UNCHANGED running

Disarm(t) == left' = [left EXCEPT ![t] = Off] /\ UNCHANGED running

Tick == /\ running = None
        /\ \A t \in Timers : left[t] # Expired
        /\ left' = [t \in Timers |-> IF left[t] = Off THEN Off ELSE left[t] - 1]
        /\ UNCHANGED running

Fire(t) == /\ running = None
           /\ left[t] = Expired
           /\ left' = [left EXCEPT ![t] = Off]
           /\ running' = t

Return == running' = None /\ UNCHANGED left

Next == \/ Tick
        \/ Return
        \/ \E t \in Timers : Fire(t) \/ Disarm(t) \/ \E d \in 1..MaxDelay : Arm(t, d)

Spec == Init /\ [][Next]_<<left, running>>
=============================================================================
