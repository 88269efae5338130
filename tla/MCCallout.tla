----------------------------- MODULE MCCallout -----------------------------
(* The callout wheel on small instances. *)
EXTENDS Callout, TLC, FiniteSets

CONSTANTS c1, c2, c3

ThreeCallouts == {c1, c2, c3}

Symmetry3 == Permutations(ThreeCallouts)
=============================================================================
