----------------------------- MODULE MCMsgRing -----------------------------
(* Control messages between tools and two lcores. *)
EXTENDS MsgRing
=============================================================================
