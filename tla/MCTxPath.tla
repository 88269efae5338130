------------------------------ MODULE MCTxPath ------------------------------
(* The transmit path on small instances. *)
EXTENDS TxPath, TLC

CONSTANTS a, b, c, d, e

TwoPkts  == {a, c}
FivePkts == {a, b, c, d, e}

(* Chains of one, two and three mbufs. *)
MixedSegs == [p \in Pkts |-> CASE p \in {a, b} -> 1 [] p \in {c, d} -> 2 [] p = e -> 3]
=============================================================================
