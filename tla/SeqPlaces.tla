----------------------------- MODULE SeqPlaces -----------------------------
(* Rings and bursts as sequences of the buffers they hold. *)
EXTENDS Integers, Sequences

Lesser(a, b) == IF a < b THEN a ELSE b

On(s, m) == \E i \in 1 .. Len(s) : s[i] = m

Once(s) == \A i, k \in 1 .. Len(s) : s[i] = s[k] => i = k
=============================================================================
