---------------------------- MODULE MCRxDispatch ----------------------------
(* The receive path of two processes that share a pool of mbufs. *)
EXTENDS RxDispatch
=============================================================================
