----------------------------- MODULE MCMainLoop -----------------------------
(***************************************************************************)
(* What main_loop comes back to on every turn, the timers and the ring of  *)
(* control messages, each on a small instance.  The two do not touch each  *)
(* other's state, and a behaviour is one of the one or of the other.       *)
(***************************************************************************)
EXTENDS MsgRing

CONSTANTS c1, c2,
          Callouts, NULL, WheelSize, TickMod, ToTicks, DirectFlags, SelfDrain

VARIABLES part,
          ticks, cc_callwheel, cc_next, cc_softticks, cc_bucket, cc_curr, cc_drain,
          pending, active, direct, c_time, curticks, scan, pc

wheelVars == <<ticks, cc_callwheel, cc_next, cc_softticks, cc_bucket, cc_curr, cc_drain,
               pending, active, direct, c_time, curticks, scan, pc>>

Wheel == INSTANCE Callout

allVars == <<vars, wheelVars, part>>

TwoCallouts == {c1, c2}

Timing(A)    == part = "timers" /\ A /\ UNCHANGED <<vars, part>>
Messaging(A) == part = "messages" /\ A /\ UNCHANGED <<wheelVars, part>>

(* The clock's first value is of no account to the messages. *)
LoopInit ==
    /\ Init /\ Wheel!Init
    /\ part \in {"timers", "messages"}
    /\ part = "messages" => ticks = 0

LoopNext ==
    \/ Timing(Wheel!Next)
    \/ Messaging(Tool)
    \/ \E p \in Procs : Messaging(Lcore(p))

(* The loop goes round for ever on every lcore, handlers return, and a     *)
(* step of softclock or of handle_msg is a step of the running lcore.      *)
(* Tools may stop at any point.                                            *)
LoopSpec ==
    /\ LoopInit /\ [][LoopNext]_allVars
    /\ WF_allVars(Timing(Wheel!lazybsd_hardclock)) /\ WF_allVars(Timing(Wheel!Clock))
    /\ \A p \in Procs : WF_allVars(Messaging(Lcore(p)))

(* A callout that stays armed is run by softclock, unless its owner resets *)
(* it for ever (Callout).                                                  *)
EveryCalloutServed == Wheel!EveryCalloutServed

(* Every tick's work ends: the loops of softclock terminate (Callout).     *)
TickEnds == Wheel!TickEnds
=============================================================================
