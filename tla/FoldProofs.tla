----------------------------- MODULE FoldProofs -----------------------------
(***************************************************************************)
(* What FoldLeft computes, for any operator.  The induction theorems of    *)
(* the library have the property to be proved as an operator parameter,    *)
(* which the provers cannot fill in; that a set of natural numbers has a   *)
(* least element has no such parameter, and Induct gets from it induction  *)
(* for a set.  The recursive function in the definition of FoldLeft is     *)
(* shown to exist, and with it the states the fold goes through.           *)
(*                                                                         *)
(* A module that folds with an operator of its own instantiates this one   *)
(* with Op.                                                                *)
(***************************************************************************)
EXTENDS Integers, Sequences, SequencesExt, SequenceTheorems, WellFoundedInduction, TLAPS

CONSTANT Op(_, _)

(* The order of the natural numbers as a relation.                           *)
LEMMA LessThan == OpToRel(<, Nat) = {ss \in Nat \X Nat : ss[1] < ss[2]}
  BY DEF OpToRel

(* A nonempty set of natural numbers has a least element.                    *)
LEMMA NatMin == ASSUME NEW T \in SUBSET Nat, T # {} PROVE \E x \in T : \A y \in T : x <= y
<1> DEFINE R == {ss \in Nat \X Nat : ss[1] < ss[2]}
<1>1. IsWellFoundedOn(R, Nat)
  BY NatLessThanWellFounded, LessThan, Zenon
<1> HIDE DEF R
<1>2. PICK x \in T : \A y \in T : ~(<<y, x>> \in R)
  BY <1>1, WFMin
<1>3. ASSUME NEW y \in T PROVE x <= y
  <2>1. x \in Nat /\ y \in Nat
    OBVIOUS
  <2>2. <<y, x>> \notin R
    BY <1>2
  <2>3. y < x => <<y, x>> \in R
    BY <2>1 DEF R
  <2> QED BY <2>1, <2>2, <2>3
<1> QED BY <1>3

(* Induction up to n, for the set T of the numbers for which the fact holds. *)
LEMMA Induct ==
  ASSUME NEW n \in Nat, NEW T, 0 \in T, \A k \in 0..(n - 1) : k \in T => k + 1 \in T
  PROVE  \A k \in 0..n : k \in T
<1> DEFINE F == {k \in Nat : k <= n /\ k \notin T}
<1> SUFFICES ASSUME F # {} PROVE FALSE
  OBVIOUS
<1>1. PICK x \in F : \A y \in F : x <= y
  <2>1. F \in SUBSET Nat
    OBVIOUS
  <2> HIDE DEF F
  <2> QED BY <2>1, NatMin
<1>2. x # 0 /\ x \in Nat /\ x <= n /\ x \notin T
  BY <1>1
<1>3. x - 1 \in Nat /\ x - 1 \notin F
  BY <1>1, <1>2
<1>4. x - 1 \in T /\ x - 1 \in 0..(n - 1)
  BY <1>2, <1>3
<1>5. (x - 1) + 1 = x
  BY <1>2
<1> QED BY <1>2, <1>4, <1>5

(* The greatest element of a set that has the bound as an element.           *)
LEMMA MaxLast == ASSUME NEW k \in Nat, NEW s \in SUBSET (1..k), k \in s PROVE Max(s) = k
<1>1. \A y \in s : k >= y
  OBVIOUS
<1>2. \A x \in s : (\A y \in s : x >= y) => x = k
  OBVIOUS
<1> QED BY <1>1, <1>2 DEF Max

(* A bounded set of positive numbers has a greatest element.                 *)
LEMMA MaxIn == ASSUME NEW n \in Nat, NEW s \in SUBSET (1..n), s # {} PROVE Max(s) \in s
<1> DEFINE D == {d \in Nat : n - d \in s}
<1>1. D \in SUBSET Nat /\ D # {}
  <2>1. PICK x \in s : TRUE
    OBVIOUS
  <2>2. n - x \in Nat /\ n - (n - x) = x
    OBVIOUS
  <2> QED BY <2>1, <2>2
<1>2. PICK d \in D : \A e \in D : d <= e
  <2> HIDE DEF D
  <2> QED BY <1>1, NatMin
<1>3. n - d \in s /\ d \in Nat
  BY <1>2
<1>4. ASSUME NEW y \in s PROVE n - d >= y
  <2>1. n - y \in Nat /\ n - (n - y) = y /\ y \in Nat
    OBVIOUS
  <2>2. n - y \in D
    BY <2>1
  <2>3. d <= n - y
    BY <1>2, <2>2
  <2> QED BY <1>3, <2>1, <2>3
<1> QED BY <1>3, <1>4 DEF Max

-----------------------------------------------------------------------------
(* The recursive function of a fold. *)

\* g is the function that MapThenFoldSet defines, for a fold over 1..n
Solves(g, n, S, base, step) ==
    /\ g \in [SUBSET (1..n) -> S]
    /\ \A s \in SUBSET (1..n) :
          g[s] = IF s = {} THEN base ELSE step[Max(s)][g[s \ {Max(s)}]]

(* There is such a function.                                                 *)
LEMMA FoldExists ==
    ASSUME NEW n \in Nat, NEW S, NEW base \in S, NEW step \in [1..n -> [S -> S]]
    PROVE  \E g : Solves(g, n, S, base, step)
<1> USE DEF Solves
<1> DEFINE Sol(k, g) == Solves(g, k, S, base, step)
           T == {k \in 0..n : \E g : Sol(k, g)}
<1>1. 0 \in T
  <2> DEFINE g == [s \in SUBSET (1..0) |-> base]
  <2>1. \A s \in SUBSET (1..0) : s = {}
    OBVIOUS
  <2>2. Sol(0, g)
    BY <2>1
  <2> HIDE DEF Sol, Solves
  <2> QED BY <2>2
<1>2. ASSUME NEW k \in 0..(n - 1), k \in T PROVE k + 1 \in T
  <2>1. PICK g : Sol(k, g)
    BY <1>2
  <2> DEFINE h == [s \in SUBSET (1..(k + 1)) |->
                     IF k + 1 \in s THEN step[k + 1][g[s \ {k + 1}]] ELSE g[s]]
  <2>2. ASSUME NEW s \in SUBSET (1..(k + 1))
        PROVE  /\ h[s] \in S
               /\ h[s] = IF s = {} THEN base ELSE step[Max(s)][h[s \ {Max(s)}]]
    <3>1. CASE k + 1 \in s
      <4>1. s \ {k + 1} \in SUBSET (1..k) /\ s # {}
        BY <3>1
      <4>2. Max(s) = k + 1
        BY <3>1, MaxLast
      <4>3. g[s \ {k + 1}] \in S
        BY <2>1, <4>1
      <4>4. h[s] = step[k + 1][g[s \ {k + 1}]]
        BY <3>1
      <4>5. h[s \ {k + 1}] = g[s \ {k + 1}]
        BY <4>1
      <4>6. k + 1 \in 1..n
        OBVIOUS
      <4> HIDE DEF h
      <4> QED BY <4>1, <4>2, <4>3, <4>4, <4>5, <4>6
    <3>2. CASE k + 1 \notin s
      <4>1. s \in SUBSET (1..k)
        BY <3>2
      <4>2. h[s] = g[s]
        BY <3>2
      <4>3. CASE s = {}
        BY <2>1, <4>1, <4>2, <4>3
      <4>4. CASE s # {}
        <5>1. s \ {Max(s)} \in SUBSET (1..k) /\ k + 1 \notin s \ {Max(s)}
          BY <3>2, <4>1
        <5>2. h[s \ {Max(s)}] = g[s \ {Max(s)}]
          BY <5>1
        <5> HIDE DEF h
        <5> QED BY <2>1, <4>1, <4>2, <4>4, <5>2
      <4> QED BY <4>3, <4>4
    <3> QED BY <3>1, <3>2
  <2>3. h = [s \in SUBSET (1..(k + 1)) |-> h[s]]
    OBVIOUS
  <2> HIDE DEF h
  <2>4. Sol(k + 1, h)
    BY <2>2, <2>3
  <2> HIDE DEF Sol, Solves
  <2> QED BY <2>4
<1>3. n \in T
  <2> HIDE DEF T
  <2>1. \A k \in 0..(n - 1) : k \in T => k + 1 \in T
    BY <1>2
  <2>2. \A k \in 0..n : k \in T
    BY <1>1, <2>1, Induct
  <2> QED BY <2>2
<1>4. PICK g : Sol(n, g)
  BY <1>3
<1> QED BY <1>4

-----------------------------------------------------------------------------
Folded(base, seq) == FoldLeft(Op, base, seq)

\* f[k] is the state of the fold after k elements
Trace(f, S, base, seq) ==
    /\ f \in [0..Len(seq) -> S] /\ f[0] = base
    /\ \A k \in 1..Len(seq) : f[k] = Op(f[k - 1], seq[k])

(* A fold whose operator stays in S goes through states of S, one for each     *)
(* element, and ends in the last.                                            *)
LEMMA FoldOp ==
    ASSUME NEW S, NEW C, NEW base \in S, NEW seq \in Seq(C),
           \A x \in S, c \in C : Op(x, c) \in S
    PROVE  \E f : Trace(f, S, base, seq) /\ Folded(base, seq) = f[Len(seq)]
<1> DEFINE n == Len(seq)
           step == [k \in 1..n |-> [x \in S |-> Op(x, seq[k])]]
           It(g) == g = [s \in SUBSET (1..n) |->
                           IF s = {} THEN base ELSE Op(g[s \ {Max(s)}], seq[Max(s)])]
<1>1. n \in Nat /\ DOMAIN seq = 1..n /\ \A k \in 1..n : seq[k] \in C
  BY LenProperties, ElementOfSeq
<1>2. step \in [1..n -> [S -> S]]
  BY <1>1
<1>11. \A k \in 1..n, x \in S : step[k][x] = Op(x, seq[k])
  OBVIOUS
<1>3. \E g : It(g)
  <2> HIDE DEF step, n
  <2>0. PICK g : Solves(g, n, S, base, step)
    BY <1>1, <1>2, FoldExists
  <2>1. g \in [SUBSET (1..n) -> S] /\ \A s \in SUBSET (1..n) :
               g[s] = IF s = {} THEN base ELSE step[Max(s)][g[s \ {Max(s)}]]
    BY <2>0 DEF Solves
  <2>2. ASSUME NEW s \in SUBSET (1..n), s # {}
        PROVE  step[Max(s)][g[s \ {Max(s)}]] = Op(g[s \ {Max(s)}], seq[Max(s)])
    <3>1. Max(s) \in s
      BY <1>1, <2>2, MaxIn
    <3> QED BY <1>11, <2>1, <3>1
  <2>3. It(g)
    BY <2>1, <2>2
  <2> QED BY <2>3
<1>4. Folded(base, seq) = (CHOOSE g : It(g))[1..n]
  BY <1>1, Zenon DEF Folded, FoldLeft, MapThenFoldSet
<1> DEFINE g == CHOOSE g : It(g)
           f == [k \in 0..n |-> g[1..k]]
<1>5. It(g)
  BY <1>3
<1> HIDE DEF g, It
<1>6. \A s \in SUBSET (1..n) : g[s] = IF s = {} THEN base ELSE Op(g[s \ {Max(s)}], seq[Max(s)])
  BY <1>5 DEF It
<1>7. f[0] = base
  <2>1. 1..0 = {} /\ {} \in SUBSET (1..n)
    OBVIOUS
  <2>2. f[0] = g[1..0]
    BY <1>1
  <2> QED BY <1>6, <2>1, <2>2
<1>8. ASSUME NEW k \in 1..n PROVE f[k] = Op(f[k - 1], seq[k])
  <2>1. Max(1..k) = k
    BY <1>1, MaxLast
  <2>0. k \in Nat /\ k >= 1 /\ k <= n
    BY <1>1
  <2>2. (1..k) \ {k} = 1..(k - 1) /\ 1..k # {} /\ 1..k \in SUBSET (1..n)
    <3>1. ASSUME NEW j PROVE j \in (1..k) \ {k} <=> j \in 1..(k - 1)
      BY <2>0
    <3>2. (1..k) \ {k} = 1..(k - 1)
      BY <3>1
    <3>3. 1 \in 1..k /\ \A j \in 1..k : j \in 1..n
      BY <1>1, <2>0
    <3> QED BY <3>2, <3>3
  <2>3. f[k] = g[1..k] /\ f[k - 1] = g[1..(k - 1)]
    BY <1>1
  <2> QED BY <1>6, <2>1, <2>2, <2>3
<1> HIDE DEF f
<1>9. \A k \in 0..n : f[k] \in S
  <2> DEFINE T == {k \in 0..n : f[k] \in S}
  <2>1. 0 \in T
    BY <1>1, <1>7
  <2>2. \A k \in 0..(n - 1) : k \in T => k + 1 \in T
    <3> SUFFICES ASSUME NEW k \in 0..(n - 1), k \in T PROVE k + 1 \in T
      OBVIOUS
    <3>1. k + 1 \in 1..n /\ (k + 1) - 1 = k
      BY <1>1
    <3> QED BY <1>1, <1>8, <3>1
  <2> HIDE DEF T
  <2>3. \A k \in 0..n : k \in T
    BY <1>1, <2>1, <2>2, Induct
  <2> QED BY <2>3 DEF T
<1>10. f \in [0..n -> S] /\ f[n] = g[1..n]
  BY <1>1, <1>9 DEF f
<1> QED BY <1>4, <1>7, <1>8, <1>10 DEF g, Trace

=============================================================================
