---------------------------- MODULE DataLemmas -----------------------------
(***************************************************************************)
(* Facts about the data the models are built from: induction over numbers  *)
(* and over finite sets, division, sums over finite sets, sequences of     *)
(* sequences, and the places of buffers on rings and in bursts.            *)
(*                                                                         *)
(* The two inductions are stated with a set in the place of the predicate  *)
(* (the numbers, or the subsets, for which it holds), which a prover can   *)
(* instantiate, and rest on the well-foundedness of < on Nat.              *)
(***************************************************************************)
EXTENDS SeqPlaces, FiniteSets, SequencesExt, Functions, FiniteSetTheorems, SequenceTheorems,
        WellFoundedInduction, TLAPS

-----------------------------------------------------------------------------
(* Induction, recursion and sums.                                          *)

(* Every number is in a set that has 0 and, with a number, the next. *)
LEMMA SetInduction ==
    ASSUME NEW T, 0 \in T, \A n \in Nat : n \in T => n + 1 \in T
    PROVE  \A n \in Nat : n \in T
<1> SUFFICES ASSUME NEW n0 \in Nat, n0 \notin T PROVE FALSE
  OBVIOUS
<1>1. PICK m \in Nat \ T : \A y \in Nat \ T : << y, m >> \notin OpToRel(<, Nat)
  BY WFMin, NatLessThanWellFounded
<1>2. m # 0 /\ m - 1 \in Nat
  OBVIOUS
<1>3. << m - 1, m >> \in OpToRel(<, Nat)
  BY <1>2 DEF OpToRel
<1>4. m - 1 \in T
  BY <1>1, <1>2, <1>3
<1>5. QED
  BY <1>2, <1>4

(* h adds up the values of f over the subsets of S. *)
Adds(h, f, S) ==
    /\ h \in [SUBSET S -> Int]
    /\ h[{}] = 0
    /\ \A s \in SUBSET S : \A x \in s : h[s] = f[x] + h[s \ {x}]

(* The values of f can be added up over the subsets of a finite set. *)
LEMMA AddsExists ==
    ASSUME NEW f, NEW S, IsFiniteSet(S), \A x \in S : f[x] \in Int
    PROVE  \E h : Adds(h, f, S)
<1> DEFINE T == {n \in Nat : \A s \in SUBSET S : IsFiniteSet(s) /\ Cardinality(s) = n => \E h : Adds(h, f, s)}
<1>1. 0 \in T
  <2>1. ASSUME NEW s \in SUBSET S, IsFiniteSet(s), Cardinality(s) = 0
        PROVE  \E h : Adds(h, f, s)
    <3>1. s = {}
      BY <2>1, FS_EmptySet
    <3>2. PICK h : h = [t \in SUBSET s |-> 0]
      OBVIOUS
    <3>3. Adds(h, f, s)
      BY <3>1, <3>2 DEF Adds
    <3>4. QED
      BY <3>3
  <2>2. QED
    BY <2>1
<1>2. ASSUME NEW n \in Nat, n \in T PROVE n + 1 \in T
  <2>1. ASSUME NEW s \in SUBSET S, IsFiniteSet(s), Cardinality(s) = n + 1
        PROVE  \E h : Adds(h, f, s)
    <3>1. PICK a : a \in s
      BY <2>1, FS_EmptySet
    <3>2. IsFiniteSet(s \ {a}) /\ Cardinality(s \ {a}) = n /\ s \ {a} \in SUBSET S
      <4>1. IsFiniteSet(s \ {a}) /\ Cardinality(s \ {a}) = Cardinality(s) - 1
        BY <2>1, <3>1, FS_RemoveElement
      <4>2. QED
        BY <2>1, <4>1
    <3>3. PICK g : Adds(g, f, s \ {a})
      BY <1>2, <3>2
    <3>4. PICK h : h = [t \in SUBSET s |-> IF a \in t THEN f[a] + g[t \ {a}] ELSE g[t]]
      OBVIOUS
    <3>5. f[a] \in Int
      BY <3>1
    <3>6. \A t \in SUBSET s : t \ {a} \in SUBSET (s \ {a}) /\ (a \notin t => t \in SUBSET (s \ {a}))
      OBVIOUS
    <3>7. h \in [SUBSET s -> Int] /\ h[{}] = 0
      BY <3>3, <3>4, <3>5, <3>6 DEF Adds
    <3>8. ASSUME NEW t \in SUBSET s, NEW x \in t PROVE h[t] = f[x] + h[t \ {x}]
      <4>1. t \ {x} \in SUBSET s /\ f[x] \in Int
        OBVIOUS
      <4>2. CASE x = a
        BY <3>4, <4>1, <4>2
      <4>3. CASE x # a /\ a \notin t
        BY <3>3, <3>4, <3>6, <4>1, <4>3 DEF Adds
      <4>4. CASE x # a /\ a \in t
        <5>1. (t \ {a}) \ {x} = (t \ {x}) \ {a} /\ x \in t \ {a} /\ a \in t \ {x}
          BY <4>4
        <5>2. g[t \ {a}] = f[x] + g[(t \ {x}) \ {a}]
          BY <3>3, <3>6, <5>1 DEF Adds
        <5>3. h[t] = f[a] + g[t \ {a}] /\ h[t \ {x}] = f[a] + g[(t \ {x}) \ {a}]
          BY <3>4, <4>1, <4>4, <5>1
        <5>4. g[(t \ {x}) \ {a}] \in Int
          BY <3>3, <3>6, <4>1 DEF Adds
        <5>5. QED
          BY <3>5, <4>1, <5>2, <5>3, <5>4
      <4>5. QED
        BY <4>2, <4>3, <4>4
    <3>9. QED
      BY <3>7, <3>8 DEF Adds
  <2>2. QED
    BY <2>1
<1> HIDE DEF T
<1>3. Cardinality(S) \in T
  BY <1>1, <1>2, SetInduction, FS_CardinalityType
<1>4. QED
  BY <1>3 DEF T

(* What the fold computes. *)
LEMMA FoldAdds ==
    ASSUME NEW f, NEW S, IsFiniteSet(S), NEW h, Adds(h, f, S)
    PROVE  SumFunctionOnSet(f, S) = h[S]
<1> DEFINE Fold(g) == [s \in SUBSET S |-> IF s = {} THEN 0
                          ELSE f[CHOOSE x \in s : TRUE] + g[s \ {CHOOSE x \in s : TRUE}]]
<1> DEFINE iter == CHOOSE g : g = Fold(g)
<1>1. SumFunctionOnSet(f, S) = iter[S]
  BY Zenon DEF SumFunctionOnSet, FoldFunctionOnSet, MapThenFoldSet
<1>2. h = Fold(h)
  BY DEF Adds
<1>3. iter = Fold(iter)
  BY <1>2
<1> HIDE DEF iter
<1> DEFINE T == {n \in Nat : \A s \in SUBSET S : IsFiniteSet(s) /\ Cardinality(s) = n => iter[s] = h[s]}
<1>4. 0 \in T
  <2>1. ASSUME NEW s \in SUBSET S, IsFiniteSet(s), Cardinality(s) = 0 PROVE iter[s] = h[s]
    BY <1>3, <2>1, FS_EmptySet DEF Adds
  <2>2. QED
    BY <2>1
<1>5. ASSUME NEW n \in Nat, n \in T PROVE n + 1 \in T
  <2>1. ASSUME NEW s \in SUBSET S, IsFiniteSet(s), Cardinality(s) = n + 1 PROVE iter[s] = h[s]
    <3>1. PICK a : a = CHOOSE x \in s : TRUE
      OBVIOUS
    <3>2. a \in s /\ s # {}
      BY <2>1, <3>1, FS_EmptySet
    <3>3. IsFiniteSet(s \ {a}) /\ Cardinality(s \ {a}) = n /\ s \ {a} \in SUBSET S
      <4>1. IsFiniteSet(s \ {a}) /\ Cardinality(s \ {a}) = Cardinality(s) - 1
        BY <2>1, <3>2, FS_RemoveElement
      <4>2. QED
        BY <2>1, <4>1
    <3>4. iter[s] = f[a] + iter[s \ {a}]
      BY <1>3, <3>1, <3>2
    <3>5. h[s] = f[a] + h[s \ {a}]
      BY <3>2 DEF Adds
    <3>6. QED
      BY <1>5, <3>3, <3>4, <3>5
  <2>2. QED
    BY <2>1
<1> HIDE DEF T
<1>6. Cardinality(S) \in T
  BY <1>4, <1>5, SetInduction, FS_CardinalityType
<1>7. QED
  BY <1>1, <1>6 DEF T

(* A family of subsets that has the empty one and, with a set, the set     *)
(* with one element more, has all of a finite set.                         *)
LEMMA FamilyInduction ==
    ASSUME NEW S, IsFiniteSet(S), NEW F, {} \in F,
           \A s \in SUBSET S : \A x \in S \ s : s \in F => s \cup {x} \in F
    PROVE  S \in F
<1> DEFINE T == {n \in Nat : \A s \in SUBSET S : IsFiniteSet(s) /\ Cardinality(s) = n => s \in F}
<1>1. 0 \in T
  BY FS_EmptySet
<1>2. ASSUME NEW n \in Nat, n \in T PROVE n + 1 \in T
  <2>1. ASSUME NEW s \in SUBSET S, IsFiniteSet(s), Cardinality(s) = n + 1 PROVE s \in F
    <3>1. PICK a : a \in s
      BY <2>1, FS_EmptySet
    <3>2. IsFiniteSet(s \ {a}) /\ Cardinality(s \ {a}) = Cardinality(s) - 1
      BY <2>1, <3>1, FS_RemoveElement
    <3>3. s \ {a} \in F /\ a \in S \ (s \ {a}) /\ (s \ {a}) \cup {a} = s /\ s \ {a} \in SUBSET S
      BY <1>2, <2>1, <3>1, <3>2
    <3>4. QED
      BY <3>3
  <2>2. QED
    BY <2>1
<1> HIDE DEF T
<1>3. Cardinality(S) \in T
  BY <1>1, <1>2, SetInduction, FS_CardinalityType
<1>4. QED
  BY <1>3 DEF T

(* A sum is one of its terms and the sum of the others. *)
LEMMA SumStep ==
    ASSUME NEW f, NEW S, IsFiniteSet(S), \A x \in S : f[x] \in Int
    PROVE  /\ SumFunctionOnSet(f, S) \in Int
           /\ S = {} => SumFunctionOnSet(f, S) = 0
           /\ \A x \in S : SumFunctionOnSet(f, S) = f[x] + SumFunctionOnSet(f, S \ {x})
<1>1. PICK h : Adds(h, f, S)
  BY AddsExists
<1>2. SumFunctionOnSet(f, S) = h[S] /\ h[S] \in Int /\ (S = {} => h[S] = 0)
  <2>1. SumFunctionOnSet(f, S) = h[S]
    BY <1>1, FoldAdds
  <2>2. h[S] \in Int /\ (S = {} => h[S] = 0)
    BY <1>1 DEF Adds
  <2>3. QED
    BY <2>1, <2>2
<1>3. ASSUME NEW x \in S PROVE SumFunctionOnSet(f, S) = f[x] + SumFunctionOnSet(f, S \ {x})
  <2>1. IsFiniteSet(S \ {x}) /\ S \ {x} \in SUBSET S
    BY FS_RemoveElement
  <2>2. PICK g : g = [s \in SUBSET (S \ {x}) |-> h[s]]
    OBVIOUS
  <2>3. Adds(g, f, S \ {x})
    <3>1. \A s \in SUBSET (S \ {x}) : s \in SUBSET S /\ g[s] = h[s] /\ \A y \in s : s \ {y} \in SUBSET (S \ {x})
      BY <2>2
    <3>2. {} \in SUBSET (S \ {x})
      OBVIOUS
    <3>3. QED
      BY <1>1, <2>2, <3>1, <3>2 DEF Adds
  <2>4. SumFunctionOnSet(f, S \ {x}) = g[S \ {x}]
    BY <2>1, <2>3, FoldAdds
  <2>5. g[S \ {x}] = h[S \ {x}] /\ h[S] = f[x] + h[S \ {x}]
    BY <1>1, <2>1, <2>2 DEF Adds
  <2>6. QED
    BY <1>2, <2>4, <2>5
<1>4. QED
  BY <1>2, <1>3

(* Adding an element. *)
LEMMA SumAdd ==
    ASSUME NEW f, NEW S, IsFiniteSet(S), NEW a, a \notin S, \A x \in S \cup {a} : f[x] \in Int
    PROVE  /\ SumFunctionOnSet(f, S) \in Int
           /\ SumFunctionOnSet(f, S \cup {a}) = f[a] + SumFunctionOnSet(f, S)
<1>1. IsFiniteSet(S \cup {a})
  BY FS_AddElement
<1>2. (S \cup {a}) \ {a} = S /\ a \in S \cup {a}
  OBVIOUS
<1>3. SumFunctionOnSet(f, S \cup {a}) = f[a] + SumFunctionOnSet(f, (S \cup {a}) \ {a})
  BY <1>1, <1>2, SumStep
<1>4. QED
  BY <1>2, <1>3, SumStep

(* Sums grow with their terms. *)
LEMMA SumMonotonic ==
    ASSUME NEW f, NEW g, NEW S, IsFiniteSet(S), \A x \in S : f[x] \in Int /\ g[x] \in Int /\ f[x] <= g[x]
    PROVE  SumFunctionOnSet(f, S) <= SumFunctionOnSet(g, S)
<1> DEFINE F == {s \in SUBSET S : SumFunctionOnSet(f, s) <= SumFunctionOnSet(g, s)}
<1>1. {} \in F
  BY SumStep, FS_EmptySet
<1>2. ASSUME NEW s \in SUBSET S, NEW x \in S \ s, s \in F PROVE s \cup {x} \in F
  <2>1. IsFiniteSet(s)
    BY FS_Subset
  <2>2. \A y \in s \cup {x} : f[y] \in Int /\ g[y] \in Int /\ f[y] <= g[y]
    OBVIOUS
  <2>3. /\ SumFunctionOnSet(f, s) \in Int /\ SumFunctionOnSet(g, s) \in Int
        /\ SumFunctionOnSet(f, s \cup {x}) = f[x] + SumFunctionOnSet(f, s)
        /\ SumFunctionOnSet(g, s \cup {x}) = g[x] + SumFunctionOnSet(g, s)
    BY <2>1, <2>2, SumAdd
  <2>4. SumFunctionOnSet(f, s) <= SumFunctionOnSet(g, s) /\ f[x] <= g[x] /\ f[x] \in Int /\ g[x] \in Int
    BY <1>2
  <2>5. SumFunctionOnSet(f, s \cup {x}) <= SumFunctionOnSet(g, s \cup {x})
    BY <2>3, <2>4
  <2>6. QED
    BY <2>5
<1> HIDE DEF F
<1>3. S \in F
  BY <1>1, <1>2, FamilyInduction
<1>4. QED
  BY <1>3 DEF F

(* Equal terms have equal sums. *)
LEMMA SumEqual ==
    ASSUME NEW f, NEW g, NEW S, IsFiniteSet(S), \A x \in S : f[x] \in Int /\ f[x] = g[x]
    PROVE  SumFunctionOnSet(f, S) = SumFunctionOnSet(g, S)
<1>1. \A x \in S : f[x] \in Int /\ g[x] \in Int /\ f[x] <= g[x] /\ g[x] <= f[x]
  OBVIOUS
<1>2. SumFunctionOnSet(f, S) <= SumFunctionOnSet(g, S) /\ SumFunctionOnSet(g, S) <= SumFunctionOnSet(f, S)
  BY <1>1, SumMonotonic
<1>3. SumFunctionOnSet(f, S) \in Int /\ SumFunctionOnSet(g, S) \in Int
  BY <1>1, SumStep
<1>4. QED
  BY <1>2, <1>3

(* A sum of numbers is at least each of them, and that of a part. *)
LEMMA SumOfNat ==
    ASSUME NEW f, NEW S, IsFiniteSet(S), \A x \in S : f[x] \in Nat
    PROVE  /\ SumFunctionOnSet(f, S) \in Nat
           /\ \A x \in S : f[x] <= SumFunctionOnSet(f, S)
<1>1. \A s \in SUBSET S : IsFiniteSet(s) /\ \A x \in s : f[x] \in Int
  BY FS_Subset
<1>2. ASSUME NEW s \in SUBSET S PROVE SumFunctionOnSet(f, s) \in Nat
  <2> DEFINE F == {t \in SUBSET s : SumFunctionOnSet(f, t) \in Nat}
  <2>1. {} \in F
    BY SumStep, FS_EmptySet
  <2>2. ASSUME NEW t \in SUBSET s, NEW x \in s \ t, t \in F PROVE t \cup {x} \in F
    <3>1. IsFiniteSet(t) /\ \A y \in t \cup {x} : f[y] \in Int
      BY <1>1
    <3>2. SumFunctionOnSet(f, t \cup {x}) = f[x] + SumFunctionOnSet(f, t)
      BY <3>1, SumAdd
    <3>3. SumFunctionOnSet(f, t) \in Nat /\ f[x] \in Nat
      BY <2>2
    <3>4. QED
      BY <3>2, <3>3
  <2> HIDE DEF F
  <2>3. IsFiniteSet(s)
    BY <1>1
  <2>4. s \in F
    BY <2>1, <2>2, <2>3, FamilyInduction
  <2>5. QED
    BY <2>4 DEF F
<1>3. ASSUME NEW x \in S PROVE f[x] <= SumFunctionOnSet(f, S)
  <2>1. SumFunctionOnSet(f, S) = f[x] + SumFunctionOnSet(f, S \ {x})
    BY <1>1, SumStep
  <2>2. SumFunctionOnSet(f, S \ {x}) \in Nat /\ f[x] \in Nat
    BY <1>2
  <2>3. QED
    BY <2>1, <2>2
<1>4. QED
  BY <1>2, <1>3

(* Nothing adds up to nothing. *)
LEMMA SumOfZeros ==
    ASSUME NEW f, NEW S, IsFiniteSet(S), \A x \in S : f[x] = 0
    PROVE  SumFunctionOnSet(f, S) = 0
<1> DEFINE F == {s \in SUBSET S : SumFunctionOnSet(f, s) = 0}
<1>1. {} \in F
  BY SumStep, FS_EmptySet
<1>2. ASSUME NEW s \in SUBSET S, NEW x \in S \ s, s \in F PROVE s \cup {x} \in F
  <2>1. IsFiniteSet(s) /\ \A y \in s \cup {x} : f[y] \in Int
    BY FS_Subset
  <2>2. SumFunctionOnSet(f, s \cup {x}) = f[x] + SumFunctionOnSet(f, s)
    BY <2>1, SumAdd
  <2>3. QED
    BY <1>2, <2>2
<1> HIDE DEF F
<1>3. S \in F
  BY <1>1, <1>2, FamilyInduction
<1>4. QED
  BY <1>3 DEF F

(* Sums of terms that are bounded. *)
LEMMA SumBounded ==
    ASSUME NEW f, NEW S, IsFiniteSet(S), NEW c \in Nat, \A x \in S : f[x] \in Int /\ f[x] <= c
    PROVE  SumFunctionOnSet(f, S) <= Cardinality(S) * c
<1> DEFINE F == {s \in SUBSET S : SumFunctionOnSet(f, s) <= Cardinality(s) * c}
<1>1. {} \in F
  <2>1. SumFunctionOnSet(f, {}) = 0 /\ Cardinality({}) = 0
    BY SumStep, FS_EmptySet
  <2>2. 0 * c = 0
    OBVIOUS
  <2>3. QED
    BY <2>1, <2>2
<1>2. ASSUME NEW s \in SUBSET S, NEW x \in S \ s, s \in F PROVE s \cup {x} \in F
  <2>1. IsFiniteSet(s) /\ \A y \in s \cup {x} : f[y] \in Int
    BY FS_Subset
  <2>2. SumFunctionOnSet(f, s) \in Int /\ SumFunctionOnSet(f, s \cup {x}) = f[x] + SumFunctionOnSet(f, s)
    BY <2>1, SumAdd
  <2>3. Cardinality(s) \in Nat /\ Cardinality(s \cup {x}) = Cardinality(s) + 1
    BY <2>1, FS_AddElement, FS_CardinalityType
  <2>4. PICK n \in Nat, t \in Int, p \in Int : n = Cardinality(s) /\ t = SumFunctionOnSet(f, s) /\ p = n * c
    BY <2>2, <2>3
  <2>5. (n + 1) * c = p + c
    BY <2>4
  <2>6. t <= p
    BY <1>2, <2>4
  <2>7. f[x] + t <= p + c
    BY <2>1, <2>6
  <2>8. QED
    BY <2>2, <2>3, <2>4, <2>5, <2>7
<1> HIDE DEF F
<1>3. S \in F
  BY <1>1, <1>2, FamilyInduction
<1>4. QED
  BY <1>3 DEF F

(* f starts with a and goes from n - 1 to n by G[n]. *)
Recurs(f, A, N, a, G) ==
    /\ f \in [0 .. N -> A]
    /\ f[0] = a
    /\ \A n \in 1 .. N : f[n] = G[n][f[n - 1]]

(* A recursion over the numbers up to N defines a function. *)
LEMMA Recursion ==
    ASSUME NEW A, NEW N \in Nat, NEW a \in A, NEW G \in [1 .. N -> [A -> A]]
    PROVE  \E f : Recurs(f, A, N, a, G)
<1> DEFINE T == {m \in Nat : m <= N => \E f : Recurs(f, A, m, a, G)}
<1>1. 0 \in T
  <2>1. PICK f : f = [n \in 0 .. 0 |-> a]
    OBVIOUS
  <2>2. Recurs(f, A, 0, a, G)
    BY <2>1 DEF Recurs
  <2>3. QED
    BY <2>2
<1>2. ASSUME NEW m \in Nat, m \in T PROVE m + 1 \in T
  <2>1. SUFFICES ASSUME m + 1 <= N PROVE \E f : Recurs(f, A, m + 1, a, G)
    OBVIOUS
  <2>2. PICK g : Recurs(g, A, m, a, G)
    BY <1>2, <2>1
  <2>3. PICK b \in A : b = G[m + 1][g[m]]
    <3>1. g[m] \in A /\ G[m + 1] \in [A -> A]
      BY <2>1, <2>2 DEF Recurs
    <3>2. QED
      BY <3>1
  <2>4. PICK f : f = [n \in 0 .. m + 1 |-> IF n = m + 1 THEN b ELSE g[n]]
    OBVIOUS
  <2>5. f \in [0 .. m + 1 -> A] /\ f[0] = a
    BY <2>2, <2>4 DEF Recurs
  <2>6. ASSUME NEW n \in 1 .. m + 1 PROVE f[n] = G[n][f[n - 1]]
    <3>1. CASE n = m + 1
      <4>1. n - 1 = m /\ m \in 0 .. m + 1 /\ m # m + 1
        BY <3>1
      <4>2. f[n - 1] = g[m] /\ f[n] = b
        BY <2>4, <3>1, <4>1
      <4>3. QED
        BY <2>3, <3>1, <4>2
    <3>2. CASE n # m + 1
      <4>1. n \in 1 .. m /\ n - 1 \in 0 .. m + 1 /\ n - 1 # m + 1 /\ n \in 0 .. m + 1
        BY <3>2
      <4>2. f[n] = g[n] /\ f[n - 1] = g[n - 1]
        BY <2>4, <3>2, <4>1
      <4>3. QED
        BY <2>2, <4>1, <4>2 DEF Recurs
    <3>3. QED
      BY <3>1, <3>2
  <2>7. Recurs(f, A, m + 1, a, G)
    BY <2>5, <2>6 DEF Recurs
  <2>8. QED
    BY <2>7
<1> HIDE DEF T
<1>3. N \in T
  BY <1>1, <1>2, SetInduction
<1>4. QED
  BY <1>3 DEF T

(* Two recursions that start and go on alike end alike. *)
LEMMA SameRecursion ==
    ASSUME NEW N \in Nat, NEW f, NEW g, f[0] = g[0],
           \A n \in 1 .. N : f[n - 1] = g[n - 1] => f[n] = g[n]
    PROVE  f[N] = g[N]
<1> DEFINE T == {n \in Nat : n <= N => f[n] = g[n]}
<1>1. 0 \in T
  OBVIOUS
<1>2. ASSUME NEW n \in Nat, n \in T PROVE n + 1 \in T
  <2>1. CASE n + 1 <= N
    <3>1. n + 1 \in 1 .. N /\ (n + 1) - 1 = n /\ f[n] = g[n]
      BY <1>2, <2>1
    <3>2. QED
      BY <3>1
  <2>2. QED
    BY <2>1
<1> HIDE DEF T
<1>3. N \in T
  BY <1>1, <1>2, SetInduction
<1>4. QED
  BY <1>3 DEF T

(* The only quotient and remainder. *)
LEMMA DivModUnique ==
    ASSUME NEW a \in Int, NEW m \in Nat, m > 0, NEW q \in Int, NEW r \in 0 .. m - 1, a = m * q + r
    PROVE  a \div m = q /\ a % m = r
OBVIOUS

(* Quotient and remainder. *)
LEMMA DivMod ==
    ASSUME NEW a \in Int, NEW m \in Nat, m > 0
    PROVE  /\ a \div m \in Int /\ a % m \in 0 .. m - 1
           /\ a = m * (a \div m) + (a % m)
<1>1. a \div m \in Int /\ a % m \in 0 .. m - 1
  OBVIOUS
<1>2. PICK q \in Int : q = a \div m
  BY <1>1
<1>3. PICK p \in Int : p = m * q
  OBVIOUS
<1>4. p <= a /\ a < p + m
  BY <1>2, <1>3
<1>5. a - p \in 0 .. m - 1 /\ a = m * q + (a - p)
  BY <1>3, <1>4
<1>6. a % m = a - p
  BY <1>5, DivModUnique
<1>7. QED
  BY <1>1, <1>2, <1>3, <1>5, <1>6

(* Products of numbers grow with them. *)
LEMMA ProductGrows ==
    ASSUME NEW a \in Nat, NEW b \in Nat, NEW c \in Nat, a <= b
    PROVE  a * c \in Nat /\ b * c \in Nat /\ a * c <= b * c /\ c * a = a * c /\ c * b = b * c
<1>1. PICK d \in Nat : b = a + d
  <2>1. b - a \in Nat /\ b = a + (b - a)
    OBVIOUS
  <2>2. QED
    BY <2>1
<1>2. a * c \in Nat /\ d * c \in Nat /\ (a + d) * c = a * c + d * c
  OBVIOUS
<1>3. a * c <= a * c + d * c
  BY <1>2
<1>4. c * a = a * c /\ c * b = b * c
  OBVIOUS
<1>5. QED
  BY <1>1, <1>2, <1>3, <1>4

(* A finite set of numbers has a largest one. *)
LEMMA HasLargest ==
    ASSUME NEW S \in SUBSET Int, IsFiniteSet(S), S # {}
    PROVE  Max(S) \in S /\ \A y \in S : y <= Max(S)
<1> DEFINE F == {s \in SUBSET S : s = {} \/ \E x \in s : \A y \in s : y <= x}
<1>1. {} \in F
  OBVIOUS
<1>2. ASSUME NEW s \in SUBSET S, NEW a \in S \ s, s \in F PROVE s \cup {a} \in F
  <2>1. CASE s = {}
    BY <2>1
  <2>2. CASE s # {}
    <3>1. PICK x \in s : \A y \in s : y <= x
      BY <1>2, <2>2
    <3>2. a \in Int /\ x \in Int /\ \A y \in s : y \in Int
      OBVIOUS
    <3>3. CASE a <= x
      <4>1. x \in s \cup {a} /\ \A y \in s \cup {a} : y <= x
        BY <3>1, <3>3
      <4>2. QED
        BY <4>1
    <3>4. CASE ~ (a <= x)
      <4>1. a \in s \cup {a} /\ \A y \in s \cup {a} : y <= a
        BY <3>1, <3>2, <3>4
      <4>2. QED
        BY <4>1
    <3>5. QED
      BY <3>3, <3>4
  <2>3. QED
    BY <2>1, <2>2
<1> HIDE DEF F
<1>3. S \in F
  BY <1>1, <1>2, FamilyInduction
<1>4. \E x \in S : \A y \in S : y <= x
  BY <1>3 DEF F
<1>5. Max(S) = CHOOSE x \in S : \A y \in S : x >= y
  BY Zenon DEF Max
<1>6. \A x, y \in Int : x >= y <=> y <= x
  OBVIOUS
<1>7. \E x \in S : \A y \in S : x >= y
  BY <1>4, <1>6
<1>8. Max(S) \in S /\ \A y \in S : Max(S) >= y
  BY <1>5, <1>7
<1>9. QED
  BY <1>6, <1>8

(* Numbers that are not negative have a least one among them. *)
LEMMA HasLeast ==
    ASSUME NEW S \in SUBSET Nat, S # {}
    PROVE  \E x \in S : \A y \in S : x <= y
<1> SUFFICES ASSUME ~ \E x \in S : \A y \in S : x <= y PROVE FALSE
  OBVIOUS
<1> DEFINE T == {m \in Nat : \A y \in S : m <= y}
<1>1. 0 \in T
  OBVIOUS
<1>2. ASSUME NEW m \in Nat, m \in T PROVE m + 1 \in T
  <2>1. m \notin S
    BY <1>2
  <2>2. ASSUME NEW y \in S PROVE m + 1 <= y
    <3>1. m <= y /\ m # y /\ y \in Nat
      BY <1>2, <2>1
    <3>2. QED
      BY <3>1
  <2>3. QED
    BY <2>2
<1> HIDE DEF T
<1>3. \A m \in Nat : m \in T
  BY <1>1, <1>2, SetInduction
<1>4. PICK s \in S : s \in Nat
  OBVIOUS
<1>5. s + 1 \in T /\ s + 1 \in Nat
  BY <1>3, <1>4
<1>6. s + 1 <= s
  BY <1>4, <1>5 DEF T
<1>7. QED
  BY <1>4, <1>6

(* The smaller of two numbers. *)
LEMMA MinOfTwo ==
    ASSUME NEW a \in Int, NEW b \in Int
    PROVE  Min({a, b}) = IF a <= b THEN a ELSE b
<1>1. \E x \in {a, b} : \A y \in {a, b} : x <= y
  OBVIOUS
<1>2. Min({a, b}) \in {a, b} /\ \A y \in {a, b} : Min({a, b}) <= y
  BY <1>1 DEF Min
<1>3. QED
  BY <1>2

-----------------------------------------------------------------------------
(* Sequences of sequences.                                                 *)

(* Appending, as a symbol of its own, which the provers take as it is. *)
Joined(a, b) == a \o b

(* The elements of the first and then those of the second. *)
LEMMA JoinedElements ==
    ASSUME NEW A, NEW a \in Seq(A), NEW b \in Seq(A)
    PROVE  /\ Joined(a, b) \in Seq(A) /\ Len(a) \in Nat /\ Len(b) \in Nat
           /\ Len(Joined(a, b)) = Len(a) + Len(b)
           /\ \A k \in 1 .. Len(a) + Len(b) : Joined(a, b)[k] = IF k <= Len(a) THEN a[k] ELSE b[k - Len(a)]
           /\ a = << >> => Joined(a, b) = b
<1>1. a \o b \in Seq(A) /\ (a = << >> => a \o b = b)
  BY ConcatProperties, ConcatEmptySeq
<1>2. QED
  BY <1>1, ConcatProperties DEF Joined

(* fl[n] is the first n sequences one after the other. *)
Flattens(fl, ss, A) ==
    /\ fl \in [0 .. Len(ss) -> Seq(A)]
    /\ fl[0] = << >>
    /\ \A n \in 1 .. Len(ss) : fl[n] = Joined(fl[n - 1], ss[n])

(* FlattenSeq appends one sequence after the other. *)
LEMMA FlattenSteps ==
    ASSUME NEW A, NEW ss \in Seq(Seq(A))
    PROVE  \E fl : Flattens(fl, ss, A) /\ FlattenSeq(ss) = fl[Len(ss)]
<1>1. PICK N \in Nat : N = Len(ss)
  BY LenProperties
<1>2. PICK B : B = Seq(A)
  OBVIOUS
<1>3. \A n \in 1 .. N : ss[n] \in B
  BY <1>1, <1>2
<1>4. \A s, t \in B : Joined(s, t) \in B
  BY <1>2, JoinedElements
<1>5. PICK e \in B : e = << >>
  <2>1. << >> \in B
    BY <1>2
  <2>2. QED
    BY <2>1, Zenon
<1>6. PICK G \in [1 .. N -> [B -> B]] : G = [n \in 1 .. N |-> [s \in B |-> Joined(s, ss[n])]]
  BY <1>3, <1>4
<1>7. PICK f : Recurs(f, B, N, e, G)
  BY Recursion
<1>8. f \in [0 .. N -> B] /\ f[0] = << >>
  BY <1>5, <1>7 DEF Recurs
<1>9. ASSUME NEW n \in 1 .. N PROVE f[n - 1] \in B /\ f[n] = Joined(f[n - 1], ss[n])
  <2>1. PICK s \in B : s = f[n - 1]
    BY <1>8
  <2>2. G[n][s] = Joined(s, ss[n])
    BY <1>6
  <2>3. QED
    BY <1>7, <2>1, <2>2 DEF Recurs
<1>10. Flattens(f, ss, A)
  BY <1>1, <1>2, <1>8, <1>9 DEF Flattens
<1>11. FlattenSeq(ss) = f[N]
  <2>1. CASE N = 0
    <3>1. ss = << >> /\ Len(ss) = 0
      BY <1>1, <2>1, EmptySeq
    <3>2. FlattenSeq(ss) = ss
      BY <3>1, Zenon DEF FlattenSeq
    <3>3. QED
      BY <1>8, <2>1, <3>1, <3>2
  <2>2. CASE N # 0
    <3> DEFINE Fold(g) == [i \in 1 .. Len(ss) |-> IF i = 1 THEN ss[i] ELSE g[i - 1] \o ss[i]]
    <3> DEFINE flatten == CHOOSE g : g = Fold(g)
    <3> DEFINE Step(g) == [i \in 1 .. N |-> IF i = 1 THEN ss[i] ELSE Joined(g[i - 1], ss[i])]
    <3>1. FlattenSeq(ss) = flatten[Len(ss)]
      <4>1. Len(ss) # 0
        BY <1>1, <2>2
      <4>2. QED
        BY <4>1, Zenon DEF FlattenSeq
    <3>2. \A g : Fold(g) = Step(g)
      BY <1>1, Zenon DEF Joined
    <3> HIDE DEF Fold
    <3>3. PICK h : h = [i \in 1 .. N |-> f[i]]
      OBVIOUS
    <3>4. h = Step(h)
      <4>1. ASSUME NEW i \in 1 .. N, i = 1 PROVE h[i] = ss[i]
        <5>1. h[i] = Joined(<< >>, ss[i]) /\ ss[i] \in B
          BY <1>3, <1>8, <1>9, <3>3, <4>1
        <5>2. << >> \in Seq(A) /\ ss[i] \in Seq(A)
          BY <1>2, <5>1
        <5>3. Joined(<< >>, ss[i]) = ss[i]
          BY <5>2, JoinedElements
        <5>4. QED
          BY <5>1, <5>3
      <4>2. ASSUME NEW i \in 1 .. N, i # 1 PROVE h[i] = Joined(h[i - 1], ss[i])
        BY <1>9, <3>3, <4>2
      <4>3. QED
        BY <3>3, <4>1, <4>2
    <3>5. h = Fold(h)
      BY <3>2, <3>4
    <3>6. flatten = Fold(flatten)
      BY <3>5
    <3> HIDE DEF flatten
    <3>7. flatten = Step(flatten)
      BY <3>2, <3>6
    <3> DEFINE T == {n \in Nat : n + 1 \in 1 .. N => flatten[n + 1] = h[n + 1]}
    <3>8. 0 \in T
      <4>1. 1 \in 1 .. N => flatten[1] = ss[1] /\ h[1] = ss[1]
        BY <3>4, <3>7
      <4>2. QED
        BY <4>1
    <3>9. ASSUME NEW n \in Nat, n \in T PROVE n + 1 \in T
      <4>1. SUFFICES ASSUME n + 2 \in 1 .. N PROVE flatten[n + 2] = h[n + 2]
        OBVIOUS
      <4>2. flatten[n + 1] = h[n + 1]
        BY <3>9, <4>1
      <4>3. flatten[n + 2] = Joined(flatten[n + 1], ss[n + 2]) /\ h[n + 2] = Joined(h[n + 1], ss[n + 2])
        BY <3>4, <3>7, <4>1
      <4>4. QED
        BY <4>2, <4>3
    <3> HIDE DEF T
    <3>10. \A n \in Nat : n \in T
      BY <3>8, <3>9, SetInduction
    <3>11. N - 1 \in Nat /\ (N - 1) + 1 = N /\ N \in 1 .. N
      BY <2>2
    <3>12. flatten[N] = h[N]
      BY <3>10, <3>11 DEF T
    <3>13. QED
      BY <1>1, <3>1, <3>3, <3>11, <3>12
  <2>3. QED
    BY <2>1, <2>2
<1>12. QED
  BY <1>1, <1>10, <1>11

(* s has the elements of the first n sequences of ss. *)
Gathers(s, ss, n) ==
    /\ \A k \in 1 .. Len(s) : \E i \in 1 .. n : \E j \in 1 .. Len(ss[i]) : s[k] = ss[i][j]
    /\ \A i \in 1 .. n : \A j \in 1 .. Len(ss[i]) : \E k \in 1 .. Len(s) : s[k] = ss[i][j]

(* Its elements are those of the sequences. *)
LEMMA FlattenElements ==
    ASSUME NEW A, NEW ss \in Seq(Seq(A))
    PROVE  FlattenSeq(ss) \in Seq(A) /\ Gathers(FlattenSeq(ss), ss, Len(ss))
<1>1. PICK fl : Flattens(fl, ss, A) /\ FlattenSeq(ss) = fl[Len(ss)]
  BY FlattenSteps
<1>2. PICK N \in Nat : N = Len(ss)
  BY LenProperties
<1>3. fl[0] = << >> /\ \A n \in 0 .. N : fl[n] \in Seq(A)
  BY <1>1, <1>2 DEF Flattens
<1>4. \A n \in 1 .. N : ss[n] \in Seq(A)
  BY <1>2
<1>5. \A n \in 1 .. N : fl[n] = Joined(fl[n - 1], ss[n])
  BY <1>1, <1>2 DEF Flattens
<1> DEFINE T == {n \in Nat : n <= N => Gathers(fl[n], ss, n)}
<1>6. 0 \in T
  BY <1>3 DEF Gathers
<1>7. ASSUME NEW n \in Nat, n \in T PROVE n + 1 \in T
  <2>1. CASE n + 1 <= N
    <3>1. PICK a \in Seq(A), b \in Seq(A) : a = fl[n] /\ b = ss[n + 1]
      BY <1>3, <1>4, <2>1
    <3>2. PICK la \in Nat, lb \in Nat, s \in Seq(A) : la = Len(a) /\ lb = Len(b) /\ s = Joined(a, b)
      BY JoinedElements
    <3>3. Len(s) = la + lb /\ \A k \in 1 .. la + lb : s[k] = IF k <= la THEN a[k] ELSE b[k - la]
      BY <3>2, JoinedElements
    <3>4. fl[n + 1] = s
      <4>1. n + 1 \in 1 .. N /\ (n + 1) - 1 = n
        BY <2>1
      <4>2. QED
        BY <1>5, <3>1, <3>2, <4>1
    <3>5. Gathers(a, ss, n)
      <4>1. n <= N
        BY <2>1
      <4>2. QED
        BY <1>7, <3>1, <4>1
    <3>6. ASSUME NEW k \in 1 .. Len(s)
          PROVE  \E i \in 1 .. n + 1 : \E j \in 1 .. Len(ss[i]) : s[k] = ss[i][j]
      <4>1. CASE k <= la
        <5>1. k \in 1 .. Len(a) /\ s[k] = a[k]
          BY <3>2, <3>3, <4>1
        <5>2. PICK i \in 1 .. n : \E j \in 1 .. Len(ss[i]) : a[k] = ss[i][j]
          BY <3>5, <5>1 DEF Gathers
        <5>3. i \in 1 .. n + 1
          OBVIOUS
        <5>4. QED
          BY <5>1, <5>2, <5>3, Zenon
      <4>2. CASE k > la
        <5>1. PICK j \in Int : j = k - la
          OBVIOUS
        <5>2. j \in 1 .. lb /\ s[k] = b[j] /\ n + 1 \in 1 .. n + 1
          BY <3>3, <4>2, <5>1
        <5>3. QED
          BY <3>1, <3>2, <5>2, Zenon
      <4>3. QED
        BY <4>1, <4>2
    <3>7. ASSUME NEW i \in 1 .. n + 1, NEW j \in 1 .. Len(ss[i])
          PROVE  \E k \in 1 .. Len(s) : s[k] = ss[i][j]
      <4>1. CASE i \in 1 .. n
        <5>1. PICK k \in 1 .. Len(a) : a[k] = ss[i][j]
          BY <3>5, <4>1 DEF Gathers
        <5>2. k \in 1 .. Len(s) /\ s[k] = a[k]
          BY <3>2, <3>3, <5>1
        <5>3. QED
          BY <5>1, <5>2, Zenon
      <4>2. CASE i = n + 1
        <5>1. j \in 1 .. lb /\ ss[i][j] = b[j]
          BY <3>1, <3>2, <4>2
        <5>2. PICK k \in Int : k = la + j
          BY <5>1
        <5>3. k \in 1 .. Len(s) /\ s[k] = b[j]
          BY <3>3, <5>1, <5>2
        <5>4. QED
          BY <5>1, <5>3, Zenon
      <4>3. QED
        BY <4>1, <4>2
    <3>8. Gathers(s, ss, n + 1)
      BY <3>6, <3>7, Zenon DEF Gathers
    <3>9. QED
      BY <3>4, <3>8
  <2>2. CASE ~ (n + 1 <= N)
    BY <2>2
  <2>3. QED
    BY <2>1, <2>2
<1> HIDE DEF T
<1>8. N \in T
  BY <1>6, <1>7, SetInduction
<1>9. Gathers(fl[N], ss, N) /\ fl[N] \in Seq(A)
  BY <1>3, <1>8 DEF T
<1>10. QED
  BY <1>1, <1>2, <1>9

(* A sequence has finitely many elements, no more than places. *)
LEMMA FewElements ==
    ASSUME NEW A, NEW s \in Seq(A)
    PROVE  /\ IsFiniteSet(ToSet(s)) /\ Cardinality(ToSet(s)) <= Len(s)
           /\ \A x : x \in ToSet(s) <=> \E i \in 1 .. Len(s) : s[i] = x
<1>1. DOMAIN s = 1 .. Len(s) /\ ToSet(s) = {s[i] : i \in 1 .. Len(s)}
  BY DEF ToSet
<1>2. IsFiniteSet(1 .. Len(s)) /\ Cardinality(1 .. Len(s)) = Len(s)
  <2>1. PICK n \in Nat : n = Len(s)
    BY LenProperties
  <2>2. IsFiniteSet(1 .. n) /\ Cardinality(1 .. n) = IF 1 > n THEN 0 ELSE n - 1 + 1
    BY FS_Interval
  <2>3. QED
    BY <2>1, <2>2
<1>3. PICK f : f = [i \in 1 .. Len(s) |-> s[i]]
  OBVIOUS
<1>4. f \in Surjection(1 .. Len(s), ToSet(s))
  BY <1>1, <1>3 DEF Surjection
<1>5. IsFiniteSet(ToSet(s)) /\ Cardinality(ToSet(s)) <= Cardinality(1 .. Len(s))
  BY <1>2, <1>4, FS_Surjection
<1>6. QED
  BY <1>1, <1>2, <1>5

-----------------------------------------------------------------------------
(* Sums over the first places of a sequence.                               *)

UpTo(f, n) == SumFunctionOnSet(f, 1 .. n)

LEMMA UpToStep ==
    ASSUME NEW f, NEW n \in Nat, \A i \in 1 .. n : f[i] \in Int
    PROVE  /\ UpTo(f, n) \in Int
           /\ UpTo(f, 0) = 0
           /\ n > 0 => UpTo(f, n - 1) \in Int /\ UpTo(f, n) = UpTo(f, n - 1) + f[n]
<1>1. \A m \in Nat : IsFiniteSet(1 .. m)
  BY FS_Interval
<1>2. UpTo(f, n) \in Int
  BY <1>1, SumStep DEF UpTo
<1>3. UpTo(f, 0) = 0
  <2>1. 1 .. 0 = {} /\ IsFiniteSet({})
    BY FS_EmptySet
  <2>2. SumFunctionOnSet(f, {}) = 0
    BY <2>1, SumStep
  <2>3. QED
    BY <2>1, <2>2 DEF UpTo
<1>4. ASSUME n > 0 PROVE UpTo(f, n - 1) \in Int /\ UpTo(f, n) = UpTo(f, n - 1) + f[n]
  <2>1. PICK m \in Nat : m = n - 1
    BY <1>4
  <2>2. n \in 1 .. n /\ (1 .. n) \ {n} = 1 .. m /\ \A i \in 1 .. m : f[i] \in Int
    BY <1>4, <2>1
  <2>3. SumFunctionOnSet(f, 1 .. n) = f[n] + SumFunctionOnSet(f, (1 .. n) \ {n})
    BY <1>1, <2>2, SumStep
  <2>4. UpTo(f, m) \in Int
    BY <1>1, <2>2, SumStep DEF UpTo
  <2>5. PICK a \in Int, b \in Int : a = f[n] /\ b = UpTo(f, m) /\ UpTo(f, n) = a + b
    BY <2>2, <2>3, <2>4 DEF UpTo
  <2>6. QED
    BY <2>1, <2>4, <2>5
<1>5. QED
  BY <1>2, <1>3, <1>4

(* The same values have the same sum. *)
LEMMA UpToEqual ==
    ASSUME NEW f, NEW g, NEW n \in Nat, \A i \in 1 .. n : f[i] \in Int /\ f[i] = g[i]
    PROVE  UpTo(f, n) = UpTo(g, n)
<1>1. IsFiniteSet(1 .. n)
  BY FS_Interval
<1>2. QED
  BY <1>1, SumEqual DEF UpTo

(* Zeros behind add nothing. *)
LEMMA UpToZeros ==
    ASSUME NEW f, NEW n \in Nat, NEW m \in 0 .. n, \A i \in 1 .. n : f[i] \in Int,
           \A i \in m + 1 .. n : f[i] = 0
    PROVE  UpTo(f, n) = UpTo(f, m)
<1> DEFINE T == {d \in Nat : m + d <= n => UpTo(f, m + d) = UpTo(f, m)}
<1>1. 0 \in T
  <2>1. m + 0 = m
    OBVIOUS
  <2>2. QED
    BY <2>1
<1>2. ASSUME NEW d \in Nat, d \in T PROVE d + 1 \in T
  <2>1. SUFFICES ASSUME m + (d + 1) <= n PROVE UpTo(f, m + (d + 1)) = UpTo(f, m)
    OBVIOUS
  <2>2. PICK k \in Nat : k = m + (d + 1) /\ k > 0 /\ k - 1 = m + d /\ k \in m + 1 .. n
    BY <2>1
  <2>3. UpTo(f, k - 1) \in Int /\ UpTo(f, k) = UpTo(f, k - 1) + f[k]
    BY <2>2, UpToStep
  <2>4. f[k] = 0 /\ UpTo(f, m + d) = UpTo(f, m)
    BY <1>2, <2>1, <2>2
  <2>5. QED
    BY <2>2, <2>3, <2>4
<1> HIDE DEF T
<1>3. n - m \in T
  BY <1>1, <1>2, SetInduction
<1>4. m + (n - m) = n /\ m + (n - m) <= n
  OBVIOUS
<1>5. QED
  BY <1>3, <1>4 DEF T

(* One value more or less. *)
DifferAt(f, g, S, i) == \A x \in S : f[x] \in Int /\ g[x] \in Int /\ (x # i => f[x] = g[x])

LEMMA SumChange ==
    ASSUME NEW f, NEW g, NEW S, IsFiniteSet(S), NEW i \in S, DifferAt(f, g, S, i)
    PROVE  /\ SumFunctionOnSet(f, S) \in Int
           /\ SumFunctionOnSet(g, S) = SumFunctionOnSet(f, S) - f[i] + g[i]
<1>1. \A x \in S : f[x] \in Int /\ g[x] \in Int /\ (x # i => f[x] = g[x])
  BY DEF DifferAt
<1>2. PICK R : R = S \ {i} /\ IsFiniteSet(R)
  BY FS_RemoveElement
<1>3. SumFunctionOnSet(f, R) = SumFunctionOnSet(g, R) /\ SumFunctionOnSet(f, R) \in Int
  <2>1. \A x \in R : f[x] \in Int /\ f[x] = g[x]
    BY <1>1, <1>2
  <2>2. QED
    BY <1>2, <2>1, SumEqual, SumStep
<1>4. SumFunctionOnSet(f, S) = f[i] + SumFunctionOnSet(f, R)
  BY <1>1, <1>2, SumStep
<1>5. SumFunctionOnSet(g, S) = g[i] + SumFunctionOnSet(g, R)
  BY <1>1, <1>2, SumStep
<1>6. PICK r \in Int, a \in Int, b \in Int : r = SumFunctionOnSet(f, R) /\ a = f[i] /\ b = g[i]
  BY <1>1, <1>3
<1>7. QED
  BY <1>3, <1>4, <1>5, <1>6

(* The sum of some values of a function. *)
LEMMA SumOfPart ==
    ASSUME NEW f, NEW S, IsFiniteSet(S), \A k \in S : f[k] \in Nat
    PROVE  SumFunction([k \in S |-> f[k]]) = SumFunctionOnSet(f, S) /\ SumFunctionOnSet(f, S) \in Nat
<1>1. PICK h : h = [k \in S |-> f[k]]
  OBVIOUS
<1>2. \A k \in S : h[k] \in Int /\ h[k] = f[k]
  BY <1>1
<1>3. DOMAIN h = S
  BY <1>1
<1>4. SumFunction(h) = SumFunctionOnSet(h, S)
  BY <1>3, Zenon DEF SumFunction
<1>5. SumFunctionOnSet(h, S) = SumFunctionOnSet(f, S)
  BY <1>2, SumEqual
<1>6. SumFunctionOnSet(f, S) \in Nat
  BY SumOfNat
<1>7. QED
  BY <1>1, <1>4, <1>5, <1>6

(* The lengths of sequences, and what it means that their elements are     *)
(* numbered through.                                                       *)
Lens(ss) == [j \in 1 .. Len(ss) |-> Len(ss[j])]

Numbered(ss) == \A j \in 1 .. Len(ss) : \A k \in 1 .. Len(ss[j]) : ss[j][k] = UpTo(Lens(ss), j - 1) + k

LEMMA LensNat ==
    ASSUME NEW A, NEW ss \in Seq(Seq(A))
    PROVE  /\ Len(ss) \in Nat /\ \A j \in 1 .. Len(ss) : ss[j] \in Seq(A) /\ Lens(ss)[j] \in Nat /\ Lens(ss)[j] = Len(ss[j])
           /\ \A n \in 0 .. Len(ss) : UpTo(Lens(ss), n) \in Nat
<1>1. Len(ss) \in Nat /\ \A j \in 1 .. Len(ss) : ss[j] \in Seq(A)
  OBVIOUS
<1>2. \A j \in 1 .. Len(ss) : Lens(ss)[j] \in Nat /\ Lens(ss)[j] = Len(ss[j])
  <2>1. ASSUME NEW j \in 1 .. Len(ss) PROVE Len(ss[j]) \in Nat
    <3>1. PICK s \in Seq(A) : s = ss[j]
      BY <1>1
    <3>2. QED
      BY <3>1, LenProperties
  <2>2. QED
    BY <2>1 DEF Lens
<1>3. ASSUME NEW n \in 0 .. Len(ss) PROVE UpTo(Lens(ss), n) \in Nat
  <2>1. \A x \in 1 .. n : Lens(ss)[x] \in Nat
    BY <1>1, <1>2
  <2>2. IsFiniteSet(1 .. n)
    BY <1>1, FS_Interval
  <2>3. QED
    BY <2>1, <2>2, SumOfNat DEF UpTo
<1>4. QED
  BY <1>1, <1>2, <1>3

(* Numbered through, they are the numbers from 1 on. *)
LEMMA NumberedFlat ==
    ASSUME NEW ss \in Seq(Seq(Nat)), Numbered(ss)
    PROVE  FlattenSeq(ss) = [k \in 1 .. UpTo(Lens(ss), Len(ss)) |-> k]
<1>1. PICK fl : Flattens(fl, ss, Nat) /\ FlattenSeq(ss) = fl[Len(ss)]
  BY FlattenSteps
<1>2. PICK N \in Nat : N = Len(ss)
  BY LenProperties
<1>3. /\ \A j \in 1 .. N : ss[j] \in Seq(Nat) /\ Lens(ss)[j] \in Nat /\ Lens(ss)[j] = Len(ss[j])
      /\ \A n \in 0 .. N : UpTo(Lens(ss), n) \in Nat
  BY <1>2, LensNat
<1>4. /\ fl[0] = << >>
      /\ \A n \in 0 .. N : fl[n] \in Seq(Nat)
      /\ \A n \in 1 .. N : fl[n] = Joined(fl[n - 1], ss[n])
  BY <1>1, <1>2 DEF Flattens
<1> DEFINE T == {n \in Nat : n <= N => fl[n] = [k \in 1 .. UpTo(Lens(ss), n) |-> k]}
<1>5. 0 \in T
  <2>1. UpTo(Lens(ss), 0) = 0
    BY <1>3, UpToStep
  <2>2. << >> = [k \in 1 .. 0 |-> k]
    OBVIOUS
  <2>3. QED
    BY <1>4, <2>1, <2>2
<1>6. ASSUME NEW m \in Nat, m \in T PROVE m + 1 \in T
  <2>1. SUFFICES ASSUME m + 1 <= N PROVE fl[m + 1] = [k \in 1 .. UpTo(Lens(ss), m + 1) |-> k]
    OBVIOUS
  <2>2. PICK n \in 1 .. N : n = m + 1 /\ n - 1 = m
    BY <2>1
  <2>3. PICK a \in Nat, b \in Nat : a = UpTo(Lens(ss), m) /\ b = Len(ss[n]) /\ UpTo(Lens(ss), n) = a + b
    <3>1. UpTo(Lens(ss), n) = UpTo(Lens(ss), n - 1) + Lens(ss)[n]
      <4>1. PICK f : f = Lens(ss)
        OBVIOUS
      <4>2. n \in Nat /\ n > 0 /\ \A i \in 1 .. n : f[i] \in Int
        BY <1>3, <4>1
      <4>3. UpTo(f, n) = UpTo(f, n - 1) + f[n]
        BY <4>2, UpToStep
      <4>4. QED
        BY <4>1, <4>3
    <3>2. QED
      BY <1>3, <2>1, <2>2, <3>1
  <2>4. PICK s \in Seq(Nat), t \in Seq(Nat) : s = fl[m] /\ t = ss[n] /\ fl[n] = Joined(s, t)
    BY <1>3, <1>4, <2>1, <2>2
  <2>5. s = [k \in 1 .. a |-> k]
    BY <1>6, <2>1, <2>3, <2>4
  <2>6. Len(s) = a /\ Len(t) = b
    BY <2>3, <2>4, <2>5
  <2>7. \A k \in 1 .. b : t[k] = a + k
    BY <1>2, <2>2, <2>3, <2>4 DEF Numbered
  <2>8. PICK z \in Seq(Nat) : z = fl[n] /\ Len(z) = a + b /\ \A k \in 1 .. a + b : z[k] = IF k <= a THEN s[k] ELSE t[k - a]
    <3>1. /\ Joined(s, t) \in Seq(Nat) /\ Len(Joined(s, t)) = Len(s) + Len(t)
          /\ \A k \in 1 .. Len(s) + Len(t) : Joined(s, t)[k] = IF k <= Len(s) THEN s[k] ELSE t[k - Len(s)]
      BY JoinedElements
    <3>2. QED
      BY <2>4, <2>6, <3>1, Zenon
  <2>9. \A k \in 1 .. a + b : z[k] = k
    <3>1. ASSUME NEW k \in 1 .. a + b PROVE z[k] = k
      <4>1. CASE k <= a
        BY <2>5, <2>8, <4>1
      <4>2. CASE k > a
        <5>1. k - a \in 1 .. b /\ a + (k - a) = k
          BY <4>2
        <5>2. QED
          BY <2>7, <2>8, <4>2, <5>1
      <4>3. QED
        BY <4>1, <4>2
    <3>2. QED
      BY <3>1
  <2>10. z = [k \in 1 .. a + b |-> k]
    BY <2>8, <2>9
  <2>11. QED
    BY <2>2, <2>3, <2>8, <2>10
<1> HIDE DEF T
<1>7. N \in T
  BY <1>5, <1>6, SetInduction
<1>8. QED
  BY <1>1, <1>2, <1>7 DEF T

(* a numbers from b on behind s. *)
Longer(t, s, a, b) ==
    /\ Len(t) = Len(s) + a
    /\ \A k \in 1 .. Len(s) : t[k] = s[k]
    /\ \A k \in 1 .. a : t[Len(s) + k] = b + k

LEMMA JoinedLonger ==
    ASSUME NEW s \in Seq(Nat), NEW a \in Nat, NEW b \in Nat, NEW c, c = [k \in 1 .. a |-> b + k]
    PROVE  Joined(s, c) \in Seq(Nat) /\ Longer(Joined(s, c), s, a, b)
<1>1. \A k \in 1 .. a : b + k \in Nat
  OBVIOUS
<1>2. c \in Seq(Nat) /\ Len(c) = a /\ \A k \in 1 .. a : c[k] = b + k
  BY <1>1
<1>3. PICK t : t = Joined(s, c)
  OBVIOUS
<1>4. /\ t \in Seq(Nat) /\ Len(t) = Len(s) + Len(c)
      /\ \A k \in 1 .. Len(s) + Len(c) : t[k] = IF k <= Len(s) THEN s[k] ELSE c[k - Len(s)]
  BY <1>2, <1>3, JoinedElements
<1>5. PICK m \in Nat : m = Len(s)
  BY LenProperties
<1>6. \A k \in 1 .. m : t[k] = s[k]
  BY <1>2, <1>4, <1>5
<1>7. ASSUME NEW k \in 1 .. a PROVE t[m + k] = b + k
  <2>1. m + k \in 1 .. m + a /\ ~ (m + k <= m) /\ (m + k) - m = k
    BY <1>5
  <2>2. t[m + k] = c[(m + k) - m]
    BY <1>2, <1>4, <1>5, <2>1
  <2>3. QED
    BY <1>2, <2>1, <2>2
<1>8. QED
  BY <1>2, <1>3, <1>4, <1>5, <1>6, <1>7 DEF Longer

(* Sequences that grow by the numbers that come next stay numbered through. *)
LEMMA NumberedGrows ==
    ASSUME NEW ss \in Seq(Seq(Nat)), NEW tt \in Seq(Seq(Nat)), Len(tt) = Len(ss), Numbered(ss),
           NEW more, NEW base,
           \A j \in 1 .. Len(ss) : more[j] \in Nat /\ Longer(tt[j], ss[j], more[j], base[j]),
           \A j \in 1 .. Len(ss) : Len(ss[j]) > 0 => UpTo(Lens(tt), j - 1) = UpTo(Lens(ss), j - 1),
           \A j \in 1 .. Len(ss) : more[j] > 0 => base[j] = UpTo(Lens(tt), j - 1) + Len(ss[j])
    PROVE  Numbered(tt)
<1>1. SUFFICES ASSUME NEW j \in 1 .. Len(ss), NEW k \in 1 .. Len(tt[j]) PROVE tt[j][k] = UpTo(Lens(tt), j - 1) + k
  BY DEF Numbered
<1>2. PICK n \in Nat : n = Len(ss)
  BY LenProperties
<1>3. j - 1 \in 0 .. Len(tt)
  BY <1>2
<1>4. PICK u \in Nat : u = UpTo(Lens(tt), j - 1)
  BY <1>3, LensNat
<1>5. PICK s \in Seq(Nat), t \in Seq(Nat), m \in Nat, a \in Nat :
          s = ss[j] /\ t = tt[j] /\ m = Len(s) /\ a = more[j]
  <2>1. PICK s \in Seq(Nat), t \in Seq(Nat) : s = ss[j] /\ t = tt[j]
    BY LensNat
  <2>2. Len(s) \in Nat
    BY LenProperties
  <2>3. QED
    BY <2>1, <2>2
<1>6. Longer(t, s, a, base[j])
  BY <1>5
<1>7. Len(t) = m + a /\ (\A x \in 1 .. m : t[x] = s[x]) /\ \A x \in 1 .. a : t[m + x] = base[j] + x
  BY <1>5, <1>6 DEF Longer
<1>8. k \in 1 .. m + a
  BY <1>5, <1>7
<1>9. CASE k <= m
  <2>1. k \in 1 .. m /\ m > 0
    BY <1>8, <1>9
  <2>2. UpTo(Lens(ss), j - 1) = u
    BY <1>4, <1>5, <2>1
  <2>3. s[k] = UpTo(Lens(ss), j - 1) + k
    BY <1>5, <2>1 DEF Numbered
  <2>4. QED
    BY <1>4, <1>5, <1>7, <2>1, <2>2, <2>3
<1>10. CASE k > m
  <2>1. PICK x \in 1 .. a : x = k - m /\ m + x = k /\ a > 0
    BY <1>8, <1>10
  <2>2. base[j] = u + m
    BY <1>4, <1>5, <2>1
  <2>3. t[k] = base[j] + x
    BY <1>7, <2>1
  <2>4. QED
    BY <1>4, <1>5, <2>1, <2>2, <2>3
<1>11. QED
  BY <1>8, <1>9, <1>10

-----------------------------------------------------------------------------
(* Rings and bursts: what putting a buffer on a ring, taking one off and   *)
(* dequeueing a burst do to the places of buffers.                         *)

(* rte_ring_enqueue adds its argument, at the end, and moves nothing else. *)
LEMMA AppendPlaces ==
    ASSUME NEW S, NEW s \in Seq(S), NEW m \in S
    PROVE  /\ Append(s, m) \in Seq(S)
           /\ \A x : On(Append(s, m), x) <=> On(s, x) \/ x = m
           /\ Once(s) /\ ~On(s, m) => Once(Append(s, m))
<1> DEFINE a == Append(s, m)
<1>1. /\ a \in Seq(S) /\ Len(a) = Len(s) + 1 /\ Len(s) \in Nat
      /\ a[Len(s) + 1] = m /\ \A i \in 1 .. Len(s) : a[i] = s[i]
  OBVIOUS
<1> HIDE DEF a
<1>2. \A x : On(a, x) <=> On(s, x) \/ x = m
  <2>1. ASSUME NEW x, On(s, x) \/ x = m PROVE On(a, x)
    <3>1. CASE On(s, x)
      <4>1. PICK i \in 1 .. Len(s) : s[i] = x
        BY <3>1 DEF On
      <4>2. QED
        BY <1>1, <4>1 DEF On
    <3>2. CASE x = m
      <4>1. Len(s) + 1 \in 1 .. Len(a)
        BY <1>1
      <4>2. QED
        BY <1>1, <3>2, <4>1 DEF On
    <3>3. QED
      BY <2>1, <3>1, <3>2
  <2>2. ASSUME NEW x, On(a, x) PROVE On(s, x) \/ x = m
    <3>1. PICK i \in 1 .. Len(a) : a[i] = x
      BY <2>2 DEF On
    <3>2. i \in 1 .. Len(s) \/ i = Len(s) + 1
      BY <1>1
    <3>3. QED
      BY <1>1, <3>1, <3>2 DEF On
  <2>3. QED
    BY <2>1, <2>2
<1>3. ASSUME Once(s), ~On(s, m), NEW i \in 1 .. Len(a), NEW k \in 1 .. Len(a), a[i] = a[k]
      PROVE  i = k
  <2>1. (i \in 1 .. Len(s) \/ i = Len(s) + 1) /\ (k \in 1 .. Len(s) \/ k = Len(s) + 1)
    BY <1>1
  <2>2. QED
    BY <1>1, <1>3, <2>1 DEF Once, On
<1>4. QED
  BY <1>1, <1>2, <1>3 DEF Once, a

(* The first buffer of a burst goes, the others stay. *)
LEMMA TailPlaces ==
    ASSUME NEW S, NEW s \in Seq(S), Len(s) > 0, Once(s)
    PROVE  /\ Tail(s) \in Seq(S)
           /\ Len(Tail(s)) = Len(s) - 1
           /\ Head(s) = s[1] /\ s[1] \in S /\ On(s, s[1])
           /\ Once(Tail(s))
           /\ \A x : On(Tail(s), x) <=> On(s, x) /\ x # s[1]
<1> DEFINE t == Tail(s)
<1>1. /\ t \in Seq(S) /\ Len(t) = Len(s) - 1 /\ Len(s) \in Nat
      /\ Head(s) = s[1] /\ s[1] \in S
      /\ \A i \in 1 .. Len(t) : t[i] = s[i + 1]
  OBVIOUS
<1> HIDE DEF t
<1>2. On(s, s[1])
  BY <1>1 DEF On
<1>3. Once(t)
  <2>1. ASSUME NEW i \in 1 .. Len(t), NEW k \in 1 .. Len(t), t[i] = t[k] PROVE i = k
    <3>1. i + 1 \in 1 .. Len(s) /\ k + 1 \in 1 .. Len(s) /\ s[i + 1] = s[k + 1]
      BY <1>1, <2>1
    <3>2. i + 1 = k + 1
      BY <3>1 DEF Once
    <3>3. QED
      BY <3>2, <1>1
  <2>2. QED
    BY <2>1 DEF Once
<1>4. ASSUME NEW x, On(t, x) PROVE On(s, x) /\ x # s[1]
  <2>1. PICK i \in 1 .. Len(t) : t[i] = x
    BY <1>4 DEF On
  <2>2. i + 1 \in 1 .. Len(s) /\ 1 \in 1 .. Len(s) /\ i + 1 # 1 /\ s[i + 1] = x
    BY <1>1, <2>1
  <2>3. QED
    BY <2>2 DEF On, Once
<1>5. ASSUME NEW x, On(s, x), x # s[1] PROVE On(t, x)
  <2>1. PICK i \in 1 .. Len(s) : s[i] = x
    BY <1>5 DEF On
  <2>2. i - 1 \in 1 .. Len(t) /\ t[i - 1] = s[(i - 1) + 1] /\ (i - 1) + 1 = i
    BY <1>1, <1>5, <2>1
  <2>3. QED
    BY <2>1, <2>2 DEF On
<1>6. QED
  BY <1>1, <1>2, <1>3, <1>4, <1>5 DEF t

(* A burst of n is dequeued: every buffer is in the burst or in what is    *)
(* left, not in both.                                                      *)
LEMMA SplitPlaces ==
    ASSUME NEW S, NEW s \in Seq(S), NEW n \in 0 .. Len(s), Once(s)
    PROVE  LET a == SubSeq(s, 1, n)
               b == SubSeq(s, n + 1, Len(s))
           IN  /\ a \in Seq(S) /\ b \in Seq(S) /\ Len(a) = n
               /\ Once(a) /\ Once(b)
               /\ \A x : On(s, x) <=> On(a, x) \/ On(b, x)
               /\ \A x : ~(On(a, x) /\ On(b, x))
<1> DEFINE a == SubSeq(s, 1, n)
           b == SubSeq(s, n + 1, Len(s))
<1>1. Len(s) \in Nat
  OBVIOUS
<1>2. /\ a \in Seq(S) /\ Len(a) = n
      /\ \A i \in 1 .. n : a[i] = s[i]
  BY <1>1
<1>3. /\ b \in Seq(S) /\ Len(b) = Len(s) - n
      /\ \A i \in 1 .. Len(s) - n : b[i] = s[n + i]
  BY <1>1
<1> HIDE DEF a, b
<1>4. Once(a)
  BY <1>1, <1>2 DEF Once
<1>5. Once(b)
  <2>1. ASSUME NEW i \in 1 .. Len(b), NEW k \in 1 .. Len(b), b[i] = b[k] PROVE i = k
    <3>1. n + i \in 1 .. Len(s) /\ n + k \in 1 .. Len(s) /\ s[n + i] = s[n + k]
      BY <1>1, <1>3, <2>1
    <3>2. n + i = n + k
      BY <3>1 DEF Once
    <3>3. QED
      BY <3>2, <1>1, <1>3
  <2>2. QED
    BY <2>1 DEF Once
<1>6. ASSUME NEW x, On(s, x) PROVE On(a, x) \/ On(b, x)
  <2>1. PICK i \in 1 .. Len(s) : s[i] = x
    BY <1>6 DEF On
  <2>2. CASE i <= n
    BY <1>1, <1>2, <2>1, <2>2 DEF On
  <2>3. CASE i > n
    <3>1. i - n \in 1 .. Len(b) /\ b[i - n] = s[n + (i - n)] /\ n + (i - n) = i
      BY <1>1, <1>3, <2>1, <2>3
    <3>2. QED
      BY <2>1, <3>1 DEF On
  <2>4. QED
    BY <1>1, <2>2, <2>3
<1>7. ASSUME NEW x, On(a, x) PROVE \E i \in 1 .. n : s[i] = x
  BY <1>2, <1>7 DEF On
<1>8. ASSUME NEW x, On(b, x) PROVE \E i \in n + 1 .. Len(s) : s[i] = x
  <2>1. PICK i \in 1 .. Len(b) : b[i] = x
    BY <1>8 DEF On
  <2>2. n + i \in n + 1 .. Len(s) /\ s[n + i] = x
    BY <1>1, <1>3, <2>1
  <2>3. QED
    BY <2>2
<1>9. ASSUME NEW x, On(a, x) \/ On(b, x) PROVE On(s, x)
  BY <1>1, <1>7, <1>8, <1>9 DEF On
<1>10. ASSUME NEW x, On(a, x), On(b, x) PROVE FALSE
  <2>1. PICK i \in 1 .. n : s[i] = x
    BY <1>7, <1>10
  <2>2. PICK k \in n + 1 .. Len(s) : s[k] = x
    BY <1>8, <1>10
  <2>3. i \in 1 .. Len(s) /\ k \in 1 .. Len(s) /\ i # k
    BY <1>1
  <2>4. QED
    BY <2>1, <2>2, <2>3 DEF Once
<1>11. QED
  BY <1>2, <1>3, <1>4, <1>5, <1>6, <1>9, <1>10 DEF a, b

-----------------------------------------------------------------------------
(* The frames in a sequence of buffers, d[m] being the frame in buffer m   *)
(* and o[f] where frame f came from.                                       *)

Carried(s, d, f) == \E i \in 1 .. Len(s) : d[s[i]] = f

(* Frames from one place have the order of their numbers. *)
Ahead(o, f, g) == o[f] = o[g] => f < g

Sorted(s, d, o) == \A i, k \in 1 .. Len(s) : i < k => Ahead(o, d[s[i]], d[s[k]])

(* A frame that follows all others is put at the end. *)
LEMMA AppendFrames ==
    ASSUME NEW S, NEW s \in Seq(S), NEW m \in S, NEW d, NEW o
    PROVE  /\ \A f : Carried(Append(s, m), d, f) <=> Carried(s, d, f) \/ f = d[m]
           /\ Sorted(s, d, o) /\ (\A f : Carried(s, d, f) => Ahead(o, f, d[m]))
                 => Sorted(Append(s, m), d, o)
<1> DEFINE a == Append(s, m)
<1>1. /\ Len(a) = Len(s) + 1 /\ Len(s) \in Nat
      /\ a[Len(s) + 1] = m /\ \A i \in 1 .. Len(s) : a[i] = s[i]
  OBVIOUS
<1> HIDE DEF a
<1>2. ASSUME NEW f PROVE Carried(a, d, f) <=> Carried(s, d, f) \/ f = d[m]
  <2>1. ASSUME Carried(a, d, f) PROVE Carried(s, d, f) \/ f = d[m]
    <3>1. PICK i \in 1 .. Len(a) : d[a[i]] = f
      BY <2>1 DEF Carried
    <3>2. i \in 1 .. Len(s) \/ i = Len(s) + 1
      BY <1>1
    <3>3. QED
      BY <1>1, <3>1, <3>2 DEF Carried
  <2>2. ASSUME Carried(s, d, f) PROVE Carried(a, d, f)
    <3>1. PICK i \in 1 .. Len(s) : d[s[i]] = f
      BY <2>2 DEF Carried
    <3>2. i \in 1 .. Len(a) /\ a[i] = s[i]
      BY <1>1
    <3>3. QED
      BY <3>1, <3>2 DEF Carried
  <2>3. ASSUME f = d[m] PROVE Carried(a, d, f)
    <3>1. Len(s) + 1 \in 1 .. Len(a) /\ d[a[Len(s) + 1]] = f
      BY <1>1, <2>3
    <3>2. QED
      BY <3>1 DEF Carried
  <2>4. QED
    BY <2>1, <2>2, <2>3
<1>3. ASSUME Sorted(s, d, o), \A f : Carried(s, d, f) => Ahead(o, f, d[m]),
             NEW i \in 1 .. Len(a), NEW k \in 1 .. Len(a), i < k
      PROVE  Ahead(o, d[a[i]], d[a[k]])
  <2>1. i \in 1 .. Len(s) /\ a[i] = s[i]
    BY <1>1, <1>3
  <2>2. CASE k \in 1 .. Len(s)
    BY <1>1, <1>3, <2>1, <2>2 DEF Sorted
  <2>3. CASE k = Len(s) + 1
    <3>1. Carried(s, d, d[s[i]])
      BY <2>1 DEF Carried
    <3>2. QED
      BY <1>1, <1>3, <2>1, <2>3, <3>1
  <2>4. QED
    BY <1>1, <2>2, <2>3
<1>4. QED
  BY <1>2, <1>3 DEF Sorted, a

(* The first frame was ahead of the rest. *)
LEMMA TailFrames ==
    ASSUME NEW S, NEW s \in Seq(S), Len(s) > 0, NEW d, NEW o
    PROVE  /\ \A f : Carried(s, d, f) <=> f = d[s[1]] \/ Carried(Tail(s), d, f)
           /\ Sorted(s, d, o) => /\ Sorted(Tail(s), d, o)
                                 /\ \A f : Carried(Tail(s), d, f) => Ahead(o, d[s[1]], f)
<1> DEFINE t == Tail(s)
<1>1. /\ Len(t) = Len(s) - 1 /\ Len(s) \in Nat
      /\ \A i \in 1 .. Len(t) : t[i] = s[i + 1]
  OBVIOUS
<1> HIDE DEF t
<1>2. ASSUME NEW f, Carried(t, d, f)
      PROVE  \E i \in 2 .. Len(s) : d[s[i]] = f
  <2>1. PICK i \in 1 .. Len(t) : d[t[i]] = f
    BY <1>2 DEF Carried
  <2>2. i + 1 \in 2 .. Len(s) /\ d[s[i + 1]] = f
    BY <1>1, <2>1
  <2>3. QED
    BY <2>2
<1>3. ASSUME NEW f PROVE Carried(s, d, f) <=> f = d[s[1]] \/ Carried(t, d, f)
  <2>1. ASSUME Carried(s, d, f) PROVE f = d[s[1]] \/ Carried(t, d, f)
    <3>1. PICK i \in 1 .. Len(s) : d[s[i]] = f
      BY <2>1 DEF Carried
    <3>2. CASE i > 1
      <4>1. i - 1 \in 1 .. Len(t) /\ t[i - 1] = s[(i - 1) + 1] /\ (i - 1) + 1 = i
        BY <1>1, <3>1, <3>2
      <4>2. QED
        BY <3>1, <4>1 DEF Carried
    <3>3. QED
      BY <1>1, <3>1, <3>2
  <2>2. ASSUME f = d[s[1]] PROVE Carried(s, d, f)
    BY <1>1, <2>2 DEF Carried
  <2>3. ASSUME Carried(t, d, f) PROVE Carried(s, d, f)
    BY SMTT(30), <1>1, <1>2, <2>3 DEF Carried
  <2>4. QED
    BY <2>1, <2>2, <2>3
<1>4. ASSUME Sorted(s, d, o) PROVE Sorted(t, d, o) /\ \A f : Carried(t, d, f) => Ahead(o, d[s[1]], f)
  <2>1. ASSUME NEW i \in 1 .. Len(t), NEW k \in 1 .. Len(t), i < k
        PROVE  Ahead(o, d[t[i]], d[t[k]])
    <3>1. i + 1 \in 1 .. Len(s) /\ k + 1 \in 1 .. Len(s) /\ i + 1 < k + 1
      BY <1>1, <2>1
    <3>2. QED
      BY <1>1, <1>4, <3>1 DEF Sorted
  <2>2. ASSUME NEW f, Carried(t, d, f) PROVE Ahead(o, d[s[1]], f)
    <3>1. PICK i \in 2 .. Len(s) : d[s[i]] = f
      BY <1>2, <2>2
    <3>2. 1 \in 1 .. Len(s) /\ i \in 1 .. Len(s) /\ 1 < i
      BY <1>1
    <3>3. QED
      BY <1>4, <3>1, <3>2 DEF Sorted
  <2>3. QED
    BY <2>1, <2>2 DEF Sorted
<1>5. QED
  BY <1>3, <1>4 DEF t

(* What is dequeued was ahead of what is left. *)
LEMMA SplitFrames ==
    ASSUME NEW S, NEW s \in Seq(S), NEW n \in 0 .. Len(s), NEW d, NEW o
    PROVE  LET a == SubSeq(s, 1, n)
               b == SubSeq(s, n + 1, Len(s))
           IN  /\ \A f : Carried(s, d, f) <=> Carried(a, d, f) \/ Carried(b, d, f)
               /\ Sorted(s, d, o) =>
                     /\ Sorted(a, d, o) /\ Sorted(b, d, o)
                     /\ \A f, g : Carried(a, d, f) /\ Carried(b, d, g) => Ahead(o, f, g)
<1> DEFINE a == SubSeq(s, 1, n)
           b == SubSeq(s, n + 1, Len(s))
<1>1. Len(s) \in Nat
  OBVIOUS
<1>2. Len(a) = n /\ \A i \in 1 .. n : a[i] = s[i]
  BY <1>1
<1>3. Len(b) = Len(s) - n /\ \A i \in 1 .. Len(s) - n : b[i] = s[n + i]
  BY <1>1
<1> HIDE DEF a, b
<1>4. \A f : Carried(a, d, f) <=> \E i \in 1 .. n : d[s[i]] = f
  BY <1>2 DEF Carried
<1>5. ASSUME NEW f PROVE Carried(b, d, f) <=> \E i \in n + 1 .. Len(s) : d[s[i]] = f
  <2>1. ASSUME Carried(b, d, f) PROVE \E i \in n + 1 .. Len(s) : d[s[i]] = f
    <3>1. PICK i \in 1 .. Len(b) : d[b[i]] = f
      BY <2>1 DEF Carried
    <3>2. n + i \in n + 1 .. Len(s) /\ d[s[n + i]] = f
      BY <1>1, <1>3, <3>1
    <3>3. QED
      BY <3>2
  <2>2. ASSUME NEW i \in n + 1 .. Len(s), d[s[i]] = f PROVE Carried(b, d, f)
    <3>1. i - n \in 1 .. Len(b) /\ b[i - n] = s[n + (i - n)] /\ n + (i - n) = i
      BY <1>1, <1>3
    <3>2. QED
      BY <2>2, <3>1 DEF Carried
  <2>3. QED
    BY <2>1, <2>2
<1>6. \A f : Carried(s, d, f) <=> Carried(a, d, f) \/ Carried(b, d, f)
  <2>1. \A i : i \in 1 .. Len(s) <=> i \in 1 .. n \/ i \in n + 1 .. Len(s)
    BY <1>1
  <2>2. QED
    BY <1>4, <1>5, <2>1 DEF Carried
<1>7. ASSUME Sorted(s, d, o)
      PROVE  /\ Sorted(a, d, o) /\ Sorted(b, d, o)
             /\ \A f, g : Carried(a, d, f) /\ Carried(b, d, g) => Ahead(o, f, g)
  <2>1. Sorted(a, d, o)
    BY <1>1, <1>2, <1>7 DEF Sorted
  <2>2. ASSUME NEW i \in 1 .. Len(b), NEW k \in 1 .. Len(b), i < k
        PROVE  Ahead(o, d[b[i]], d[b[k]])
    <3>1. n + i \in 1 .. Len(s) /\ n + k \in 1 .. Len(s) /\ n + i < n + k
      BY <1>1, <1>3, <2>2
    <3>2. b[i] = s[n + i] /\ b[k] = s[n + k]
      BY <1>3
    <3>3. QED
      BY <1>7, <3>1, <3>2 DEF Sorted
  <2>3. ASSUME NEW f, NEW g, Carried(a, d, f), Carried(b, d, g) PROVE Ahead(o, f, g)
    <3>1. PICK i \in 1 .. n : d[s[i]] = f
      BY <1>4, <2>3
    <3>2. PICK k \in n + 1 .. Len(s) : d[s[k]] = g
      BY <1>5, <2>3
    <3>3. i \in 1 .. Len(s) /\ k \in 1 .. Len(s) /\ i < k
      BY <1>1
    <3>4. QED
      BY <1>7, <3>1, <3>2, <3>3 DEF Sorted
  <2>4. QED
    BY <2>1, <2>2, <2>3 DEF Sorted
<1>8. QED
  BY <1>6, <1>7 DEF a, b

(* Other buffers are filled and other frames arrive: nothing changes here. *)
LEMMA SameFrames ==
    ASSUME NEW s, NEW d, NEW e, NEW o, NEW p,
           \A x : On(s, x) => d[x] = e[x],
           \A f : Carried(s, d, f) => o[f] = p[f]
    PROVE  /\ \A f : Carried(s, e, f) <=> Carried(s, d, f)
           /\ Sorted(s, d, o) => Sorted(s, e, p)
<1>1. \A i \in 1 .. Len(s) : e[s[i]] = d[s[i]]
  BY DEF On
<1>2. \A f : Carried(s, e, f) <=> Carried(s, d, f)
  BY <1>1 DEF Carried
<1>3. \A i \in 1 .. Len(s) : o[d[s[i]]] = p[d[s[i]]]
  BY DEF Carried
<1>4. Sorted(s, d, o) => Sorted(s, e, p)
  BY <1>1, <1>3 DEF Sorted, Ahead
<1>5. QED
  BY <1>2, <1>4

(* Sequences one behind the other: where the elements of each are. *)
LEMMA FlattenPlaces ==
    ASSUME NEW A, NEW ss \in Seq(Seq(A))
    PROVE  /\ FlattenSeq(ss) \in Seq(A) /\ Len(FlattenSeq(ss)) = UpTo(Lens(ss), Len(ss))
           /\ \A i \in 1 .. Len(ss) : \A j \in 1 .. Len(ss[i]) : FlattenSeq(ss)[UpTo(Lens(ss), i - 1) + j] = ss[i][j]
<1>1. PICK fl : Flattens(fl, ss, A) /\ FlattenSeq(ss) = fl[Len(ss)]
  BY FlattenSteps
<1>2. PICK N \in Nat : N = Len(ss)
  BY LenProperties
<1>3. /\ \A j \in 1 .. N : ss[j] \in Seq(A) /\ Lens(ss)[j] \in Nat /\ Lens(ss)[j] = Len(ss[j])
      /\ \A n \in 0 .. N : UpTo(Lens(ss), n) \in Nat
  BY <1>2, LensNat
<1>4. /\ fl[0] = << >>
      /\ \A n \in 0 .. N : fl[n] \in Seq(A)
      /\ \A n \in 1 .. N : fl[n] = Joined(fl[n - 1], ss[n])
  BY <1>1, <1>2 DEF Flattens
<1> DEFINE u(n) == UpTo(Lens(ss), n)
<1> DEFINE Done(n) == /\ Len(fl[n]) = u(n)
                      /\ \A i \in 1 .. n : \A j \in 1 .. Len(ss[i]) : u(i - 1) + j \in 1 .. u(n) /\ fl[n][u(i - 1) + j] = ss[i][j]
<1> DEFINE T == {n \in Nat : n <= N => Done(n)}
<1>5. 0 \in T
  <2>1. UpTo(Lens(ss), 0) = 0
    BY <1>3, UpToStep
  <2>2. QED
    BY <1>4, <2>1
<1>6. ASSUME NEW m \in Nat, m \in T PROVE m + 1 \in T
  <2>1. SUFFICES ASSUME m + 1 <= N PROVE Done(m + 1)
    OBVIOUS
  <2>2. PICK n \in 1 .. N : n = m + 1 /\ n - 1 = m
    BY <2>1
  <2>3. PICK a \in Nat, b \in Nat : a = u(m) /\ b = Len(ss[n]) /\ u(n) = a + b
    <3>1. UpTo(Lens(ss), n) = UpTo(Lens(ss), n - 1) + Lens(ss)[n]
      <4>1. PICK f : f = Lens(ss)
        OBVIOUS
      <4>2. n \in Nat /\ n > 0 /\ \A i \in 1 .. n : f[i] \in Int
        BY <1>3, <4>1
      <4>3. UpTo(f, n) = UpTo(f, n - 1) + f[n]
        BY <4>2, UpToStep
      <4>4. QED
        BY <4>1, <4>3
    <3>2. QED
      BY <1>3, <2>1, <2>2, <3>1
  <2>4. PICK s \in Seq(A), t \in Seq(A) : s = fl[m] /\ t = ss[n] /\ fl[n] = Joined(s, t)
    BY <1>3, <1>4, <2>1, <2>2
  <2>5. Done(m)
    BY <1>6, <2>1
  <2>6. Len(s) = a /\ Len(t) = b
    BY <2>3, <2>4, <2>5
  <2>7. PICK z \in Seq(A) : z = fl[n] /\ Len(z) = a + b /\ \A k \in 1 .. a + b : z[k] = IF k <= a THEN s[k] ELSE t[k - a]
    <3>1. /\ Joined(s, t) \in Seq(A) /\ Len(Joined(s, t)) = Len(s) + Len(t)
          /\ \A k \in 1 .. Len(s) + Len(t) : Joined(s, t)[k] = IF k <= Len(s) THEN s[k] ELSE t[k - Len(s)]
      BY JoinedElements
    <3>2. QED
      BY <2>4, <2>6, <3>1, Zenon
  <2>8. ASSUME NEW i \in 1 .. n, NEW j \in 1 .. Len(ss[i])
        PROVE  u(i - 1) + j \in 1 .. u(n) /\ z[u(i - 1) + j] = ss[i][j]
    <3>1. CASE i = n
      <4>1. u(i - 1) = a /\ j \in 1 .. b /\ ss[i][j] = t[j]
        BY <2>2, <2>3, <2>4, <3>1
      <4>2. a + j \in 1 .. a + b /\ ~ (a + j <= a) /\ (a + j) - a = j
        BY <4>1
      <4>3. z[a + j] = t[j]
        BY <2>7, <4>2
      <4>4. QED
        BY <2>3, <4>1, <4>2, <4>3
    <3>2. CASE i # n
      <4>1. i \in 1 .. m
        BY <2>2, <3>2
      <4>2. u(i - 1) + j \in 1 .. u(m) /\ fl[m][u(i - 1) + j] = ss[i][j]
        BY <2>5, <4>1
      <4>3. PICK k \in 1 .. a : k = u(i - 1) + j /\ s[k] = ss[i][j]
        BY <2>3, <2>4, <4>2, Zenon
      <4>4. k \in 1 .. a + b /\ k <= a
        OBVIOUS
      <4>5. z[k] = s[k]
        BY <2>7, <4>4
      <4>6. QED
        BY <2>3, <4>3, <4>4, <4>5
    <3>3. QED
      BY <3>1, <3>2
  <2>9. QED
    BY <2>2, <2>3, <2>7, <2>8
<1> HIDE DEF T
<1>7. N \in T
  BY <1>5, <1>6, SetInduction
<1>8. Done(N)
  BY <1>7 DEF T
<1>9. FlattenSeq(ss) = fl[N] /\ fl[N] \in Seq(A)
  BY <1>1, <1>2, <1>4
<1>10. QED
  BY <1>2, <1>8, <1>9

(* States a loop runs through: it starts in the first set, and a turn leads *)
(* from every set to the next.                                              *)
Advances(H, S, B) ==
    B = UNION {S[n] : n \in Nat} /\ \A n \in Nat : S[n] \subseteq B /\ \A s \in S[n] : H[s] \in S[n + 1]

Loops(f, H, B, N, a) ==
    DOMAIN f = 0 .. N /\ f[0] = a /\ \A n \in 1 .. N : f[n - 1] \in B /\ f[n] = H[f[n - 1]]

LEMMA Loop ==
    ASSUME NEW B, NEW S, NEW H, NEW N \in Nat, NEW a, a \in S[0], Advances(H, S, B)
    PROVE  \E f : Loops(f, H, B, N, a)
<1>1. a \in B
  BY DEF Advances
<1>2. ASSUME NEW s \in B PROVE H[s] \in B
  <2>1. PICK n \in Nat : s \in S[n]
    BY DEF Advances
  <2>2. H[s] \in S[n + 1] /\ n + 1 \in Nat
    BY <2>1 DEF Advances
  <2>3. QED
    BY <2>2 DEF Advances
<1>3. PICK h : h = [s \in B |-> H[s]]
  OBVIOUS
<1>4. h \in [B -> B]
  BY <1>2, <1>3
<1>5. PICK G : G = [n \in 1 .. N |-> h]
  OBVIOUS
<1>6. G \in [1 .. N -> [B -> B]]
  BY <1>4, <1>5
<1>7. PICK f : Recurs(f, B, N, a, G)
  BY <1>1, <1>6, Recursion
<1>8. f \in [0 .. N -> B] /\ f[0] = a /\ \A n \in 1 .. N : f[n] = G[n][f[n - 1]]
  BY <1>7 DEF Recurs
<1>9. ASSUME NEW n \in 1 .. N PROVE f[n - 1] \in B /\ f[n] = H[f[n - 1]]
  <2>1. n - 1 \in 0 .. N
    OBVIOUS
  <2>2. f[n - 1] \in B
    BY <1>8, <2>1
  <2>3. G[n] = h
    BY <1>5
  <2>4. QED
    BY <1>3, <1>8, <2>2, <2>3
<1>10. QED
  BY <1>8, <1>9 DEF Loops

LEMMA LoopStates ==
    ASSUME NEW N \in Nat, NEW S, NEW f, f[0] \in S[0], \A n \in 1 .. N : f[n - 1] \in S[n - 1] => f[n] \in S[n]
    PROVE  f[N] \in S[N]
<1> DEFINE T == {n \in Nat : n <= N => f[n] \in S[n]}
<1>1. 0 \in T
  OBVIOUS
<1>2. ASSUME NEW n \in Nat, n \in T PROVE n + 1 \in T
  <2>1. CASE n + 1 <= N
    <3>1. n + 1 \in 1 .. N /\ (n + 1) - 1 = n /\ f[n] \in S[n]
      BY <1>2, <2>1
    <3>2. QED
      BY <3>1
  <2>2. QED
    BY <2>1
<1> HIDE DEF T
<1>3. N \in T
  BY <1>1, <1>2, SetInduction
<1>4. QED
  BY <1>3 DEF T
=============================================================================
