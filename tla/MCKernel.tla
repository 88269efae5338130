------------------------------ MODULE MCKernel ------------------------------
(* Instances of the kernel library, the memory and the start-up modules. *)
EXTENDS Kernel

(* No limit, none allowed, one and three a second. *)
MCLimits == {-1, 0, 1, 3}

(* Pages out of order, and one between them that is another's. *)
MCPhy == 0 :> 12 @@ 1 :> 24 @@ 2 :> 0 @@ 3 :> 8

(* Entries out of order, with equal keys, and a placeholder; one added set *)
(* belongs before entries that have run.                                   *)
MCLinked == << "e3", "e1", "dummy", "e2" >>

MCModuleSets == {<< "late", "early" >>, << "same" >>, << "last" >>}

MCSubsystem == "dummy" :> 0 @@ "e1" :> 2 @@ "e2" :> 2 @@ "e3" :> 4 @@
               "early" :> 2 @@ "late" :> 5 @@ "same" :> 4 @@ "last" :> 6

MCOrder == "dummy" :> 9 @@ "e1" :> 1 @@ "e2" :> 3 @@ "e3" :> 1 @@
           "early" :> 2 @@ "late" :> 1 @@ "same" :> 1 @@ "last" :> 0

MCProcLcore == << 5, 6, 7 >>

MCSocketOf == 5 :> 0 @@ 6 :> 1 @@ 7 :> 1

(* A port of three queues, a port of one queue and a bond of two slaves,   *)
(* with devices of both key lengths.                                       *)
MCPortList == << 0, 4, 3 >>

MCSlaves == 0 :> << >> @@ 3 :> << 1, 2 >> @@ 4 :> << >>

MCLcoreList == 0 :> << 5, 6, 7 >> @@ 3 :> << 6, 5 >> @@ 4 :> << 7 >>

MCKeySize == 0 :> "40" @@ 1 :> "52" @@ 2 :> "40" @@ 3 :> "52" @@ 4 :> "40"

MCRetaSize == 0 :> 8 @@ 1 :> 2 @@ 2 :> 8 @@ 3 :> 2 @@ 4 :> 4

MCCapa == 0 :> {"rx", "ip", "l4"} @@ 1 :> {"ip", "tso"} @@ 2 :> {"rx"} @@ 3 :> {"ip", "l4"} @@ 4 :> {}

MCDescLim ==
    LET lim(min, max, align) == [min |-> min, max |-> max, align |-> align]
    IN  0 :> lim(1, 16, 4) @@ 1 :> lim(2, 6, 2) @@ 2 :> lim(4, 12, 4) @@ 3 :> lim(1, 16, 1) @@ 4 :> lim(12, 16, 1)

MCHashKey ==
    "40" :> << 1, 1, 0, 1, 0, 0, 0, 1, 1, 0, 0, 1, 0, 1 >> @@
    "52" :> << 0, 1, 0, 0, 0, 1, 1, 1, 0, 1, 1, 1, 1, 0, 0, 1 >> @@
    "sym" :> [i \in 1 .. 16 |-> i % 2]

MCPortConfigs ==
    {[symmetric |-> s, tso |-> t, csumskip |-> s, numa |-> t] : s \in BOOLEAN, t \in BOOLEAN}

MCFlows ==
    LET A == {<< 0, 1, 1, 0 >>, << 1, 0, 0, 1 >>, << 0, 0, 0, 1 >>}
        P == {<< 0, 1 >>, << 1, 0 >>, << 1, 1 >>}
    IN  [saddr : A, daddr : A, sport : P, dport : P]

(* Virtual addresses, one of which does not parse. *)
MCVips == << << 1, TRUE >>, << 2, FALSE >>, << 3, TRUE >> >>

MCVips6 == << << 4, TRUE >> >>

MCSegs == << 1, 2, 3 >>

(* One segment, a cut in the second and one at the end of the second. *)
MCFrames == {<< 1 >>, << 2, 3 >>, << 1, 2, 1 >>}

MCPrimes == << 1, 3, 5, 7 >>
=============================================================================
