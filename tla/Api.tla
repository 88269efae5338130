-------------------------------- MODULE Api --------------------------------
(***************************************************************************)
(* The socket calls and the routing ioctl together.  The calls of one part *)
(* do not touch the state of another, so that a behaviour stays in one     *)
(* part.                                                                   *)
(***************************************************************************)
EXTENDS SocketApi, Route

CONSTANT Parts      \* the parts of the interface a run looks at

VARIABLE part

vars == <<sockVars, routeVars, part>>

-----------------------------------------------------------------------------
Init == SockInit /\ RouteInit /\ part \in Parts

InPart(p, A) == part = p /\ A /\ UNCHANGED part

Next ==
    \/ InPart("file", FileCalls)       /\ UNCHANGED routeVars
    \/ InPart("option", OptionCalls)   /\ UNCHANGED routeVars
    \/ InPart("transfer", TransferCalls) /\ UNCHANGED routeVars
    \/ InPart("message", MessageCalls) /\ UNCHANGED routeVars
    \/ InPart("kevent", KeventCalls)   /\ UNCHANGED routeVars
    \/ InPart("route", RouteNext)      /\ UNCHANGED sockVars

Spec == Init /\ [][Next]_vars
=============================================================================
