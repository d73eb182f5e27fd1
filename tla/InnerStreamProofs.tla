------------------------- MODULE InnerStreamProofs -------------------------
(***************************************************************************)
(* Proofs about InnerStream, for every length of messages and buffers and  *)
(* whatever the cuts of the reads: the type invariant, NothingStranded and  *)
(* BytesInOrder.                                                           *)
(*                                                                         *)
(* BytesInOrder is about two open ends and is not inductive.  The          *)
(* invariant has for each direction (Way) that what the receiver holds,    *)
(* what is on the wire, what the sender has queued and what it dropped     *)
(* when it closed are together the frames of the messages that were sent   *)
(* and not dispatched, and that what was dispatched is a prefix of what    *)
(* was sent, whoever is closing.  The writing side is dealt with by Grows  *)
(* (a handler appends messages to what was sent and their frames to what   *)
(* is queued), the reading side by Taken (read() dispatches the first of   *)
(* the messages left and holds the beginning of the others).               *)
(*                                                                         *)
(* FlattenSeq, Scan and FoldLeft are recursive functions: that they exist  *)
(* and what they compute is shown first, by induction over lengths and     *)
(* positions in the form FoldProofs has it.                                *)
(***************************************************************************)
EXTENDS InnerStream, SequenceTheorems, TLAPS

Fold == INSTANCE FoldProofs WITH Op <- DispatchFrame

-----------------------------------------------------------------------------
(* Joining three sequences, hidden in a name of its own from the provers.     *)
Joined(a, b, c) == (a \o b) \o c = a \o (b \o c)

(* Concatenation is associative.                                              *)
LEMMA Assoc ==
    ASSUME NEW S, NEW a \in Seq(S), NEW b \in Seq(S), NEW c \in Seq(S)
    PROVE  Joined(a, b, c)
  BY ConcatAssociative DEF Joined

-----------------------------------------------------------------------------
(* FlattenSeq. *)

\* f[i] is what the first i sequences of q make, for i up to n
Flat(f, q, n, S) ==
    /\ f \in [1..n -> Seq(S)]
    /\ n > 0 => f[1] = q[1]
    /\ \A i \in 1..(n - 1) : f[i + 1] = f[i] \o q[i + 1]

(* The recursive function in the definition of FlattenSeq exists.          *)
LEMMA FlatExists ==
    ASSUME NEW S, NEW q \in Seq(Seq(S)), q # <<>>
    PROVE  \E f : Flat(f, q, Len(q), S) /\ FlattenSeq(q) = f[Len(q)]
<1> DEFINE n == Len(q)
           T == {k \in 0..n : \E f : Flat(f, q, k, S)}
           Is(f) == f = [i \in 1..n |-> IF i = 1 THEN q[i] ELSE f[i - 1] \o q[i]]
<1>1. n \in Nat /\ n # 0 /\ \A i \in 1..n : q[i] \in Seq(S)
  BY EmptySeq, ElementOfSeq
<1> HIDE DEF n
<1>2. 0 \in T
  <2> DEFINE f == [i \in 1..0 |-> <<>>]
  <2>1. Flat(f, q, 0, S)
    BY DEF Flat
  <2> QED BY <1>1, <2>1
<1>3. ASSUME NEW k \in 0..(n - 1), k \in T PROVE k + 1 \in T
  <2>1. PICK f : Flat(f, q, k, S)
    BY <1>3
  <2> DEFINE x == IF k = 0 THEN q[1] ELSE f[k] \o q[k + 1]
             g == [i \in 1..(k + 1) |-> IF i = k + 1 THEN x ELSE f[i]]
  <2>2. k \in Nat /\ k + 1 \in 1..n /\ 1 \in 1..n
    BY <1>1
  <2>3. q[k + 1] \in Seq(S) /\ q[1] \in Seq(S)
    BY <1>1, <2>2
  <2>9. k > 0 => k \in 1..k
    BY <2>2
  <2>4. x \in Seq(S)
    BY <2>1, <2>2, <2>3, <2>9, ConcatProperties DEF Flat
  <2>10. x = IF k = 0 THEN q[1] ELSE f[k] \o q[k + 1]
    OBVIOUS
  <2> HIDE DEF x
  <2>5. g[k + 1] = x /\ \A i \in 1..k : g[i] = f[i]
    BY <2>2
  <2>11. 1..(k + 1) = (1..k) \cup {k + 1}
    BY <2>2
  <2>6. g \in [1..(k + 1) -> Seq(S)]
    <3>1. ASSUME NEW i \in 1..(k + 1) PROVE g[i] \in Seq(S)
      BY <2>1, <2>4, <2>5, <2>11 DEF Flat
    <3> QED BY <3>1
  <2> HIDE DEF g
  <2>7. g[1] = q[1]
    <3>1. CASE k = 0
      BY <2>5, <2>10, <3>1
    <3>2. CASE k > 0
      BY <2>1, <2>2, <2>5, <3>2 DEF Flat
    <3> QED BY <2>2, <3>1, <3>2
  <2>8. ASSUME NEW i \in 1..((k + 1) - 1) PROVE g[i + 1] = g[i] \o q[i + 1]
    <3>1. CASE i = k
      <4>1. k # 0 /\ k \in 1..k
        BY <2>2, <3>1
      <4>2. g[k + 1] = x /\ g[k] = f[k] /\ x = f[k] \o q[k + 1]
        BY <2>5, <2>10, <4>1
      <4> QED BY <3>1, <4>2
    <3>2. CASE i # k
      <4>1. i \in 1..k /\ i + 1 \in 1..k /\ i \in 1..(k - 1)
        BY <2>2, <3>2
      <4>2. f[i + 1] = f[i] \o q[i + 1]
        BY <2>1, <4>1 DEF Flat
      <4> QED BY <2>5, <4>1, <4>2
    <3> QED BY <3>1, <3>2
  <2>12. Flat(g, q, k + 1, S)
    BY <2>6, <2>7, <2>8 DEF Flat
  <2> QED BY <1>1, <2>2, <2>12
<1>4. n \in T
  <2> HIDE DEF T
  <2>1. \A k \in 0..(n - 1) : k \in T => k + 1 \in T
    BY <1>3
  <2>2. \A k \in 0..n : k \in T
    BY <1>1, <1>2, <2>1, Fold!Induct
  <2> QED BY <1>1, <2>2
<1>5. PICK f : Flat(f, q, n, S)
  BY <1>4
<1>6. Is(f)
  <2>1. ASSUME NEW i \in 1..n PROVE f[i] = IF i = 1 THEN q[i] ELSE f[i - 1] \o q[i]
    <3>1. CASE i = 1
      BY <1>1, <1>5, <3>1 DEF Flat
    <3>2. CASE i # 1
      <4>1. i - 1 \in 1..(n - 1) /\ (i - 1) + 1 = i
        BY <1>1, <3>2
      <4>2. f[(i - 1) + 1] = f[i - 1] \o q[(i - 1) + 1]
        BY <1>5, <4>1 DEF Flat
      <4> QED BY <3>2, <4>1, <4>2
    <3> QED BY <3>1, <3>2
  <2>2. f = [i \in 1..n |-> f[i]]
    BY <1>5 DEF Flat
  <2>3. [i \in 1..n |-> f[i]] = [i \in 1..n |-> IF i = 1 THEN q[i] ELSE f[i - 1] \o q[i]]
    BY <2>1
  <2> QED BY <2>2, <2>3
<1> DEFINE F == CHOOSE g : Is(g)
<1>7. FlattenSeq(q) = F[n]
  BY <1>1 DEF FlattenSeq, n
<1>8. Is(F)
  <2> HIDE DEF Is
  <2> QED BY <1>6
<1> HIDE DEF F
<1>9. F[1] = q[1] /\ \A i \in 1..(n - 1) : F[i + 1] = F[i] \o q[i + 1]
  <2>1. 1 \in 1..n
    BY <1>1
  <2>2. ASSUME NEW i \in 1..(n - 1) PROVE F[i + 1] = F[i] \o q[i + 1]
    <3>1. i + 1 \in 1..n /\ i + 1 # 1 /\ (i + 1) - 1 = i
      BY <1>1
    <3>2. F[i + 1] = F[(i + 1) - 1] \o q[i + 1]
      BY <1>8, <3>1
    <3> QED BY <3>1, <3>2
  <2> QED BY <1>8, <2>1, <2>2
<1>10. \A k \in 1..n : F[k] \in Seq(S)
  <2> DEFINE U == {k \in 0..n : k = 0 \/ F[k] \in Seq(S)}
  <2>2. 0 \in U
    BY <1>1
  <2>3. ASSUME NEW k \in 0..(n - 1), k \in U PROVE k + 1 \in U
    <3>1. k + 1 \in 1..n /\ k + 1 \in 0..n /\ q[k + 1] \in Seq(S)
      BY <1>1
    <3>2. CASE k = 0
      BY <1>1, <1>9, <3>1, <3>2
    <3>3. CASE k # 0
      <4>1. k \in 1..(n - 1)
        BY <1>1, <3>3
      <4>4. F[k] \in Seq(S)
        BY <2>3, <3>3
      <4>2. F[k + 1] = F[k] \o q[k + 1] /\ F[k] \in Seq(S)
        BY <1>9, <4>1, <4>4
      <4>3. F[k + 1] \in Seq(S)
        BY <3>1, <4>2, ConcatProperties
      <4> QED BY <3>1, <4>3
    <3> QED BY <3>2, <3>3
  <2> HIDE DEF U
  <2>5. \A k \in 0..(n - 1) : k \in U => k + 1 \in U
    BY <2>3
  <2>4. \A k \in 0..n : k \in U
    BY <1>1, <2>2, <2>5, Fold!Induct
  <2> QED BY <1>1, <2>4 DEF U
<1>11. F = [i \in 1..n |-> F[i]]
  BY <1>8
<1>12. Flat(F, q, n, S)
  BY <1>9, <1>10, <1>11 DEF Flat
<1> QED BY <1>7, <1>12 DEF n

(* The sequences of a sequence of sequences, put together one by one.        *)
LEMMA FlattenAppend ==
    ASSUME NEW S, NEW q \in Seq(Seq(S)), NEW x \in Seq(S)
    PROVE  /\ FlattenSeq(q) \in Seq(S)
           /\ FlattenSeq(Append(q, x)) = FlattenSeq(q) \o x
<1> DEFINE a == Append(q, x)
           n == Len(q)
<1>1. /\ a \in Seq(Seq(S)) /\ a # <<>> /\ Len(a) = n + 1 /\ n \in Nat
      /\ \A i \in 1..n : a[i] = q[i]
      /\ a[n + 1] = x
  BY AppendProperties, LenProperties
<1> HIDE DEF a
<1>2. PICK g : Flat(g, a, n + 1, S) /\ FlattenSeq(a) = g[n + 1]
  BY <1>1, FlatExists
<1>3. g[1] = a[1] /\ \A i \in 1..n : g[i + 1] = g[i] \o a[i + 1]
  <2>1. n + 1 > 0 /\ (n + 1) - 1 = n
    BY <1>1
  <2> QED BY <1>2, <2>1 DEF Flat
<1>4. CASE q = <<>>
  <2>1. n = 0 /\ FlattenSeq(q) = <<>>
    BY <1>4, EmptySeq DEF FlattenSeq
  <2>2. FlattenSeq(a) = x
    BY <1>1, <1>2, <1>3, <2>1
  <2> QED BY <2>1, <2>2, ConcatEmptySeq, EmptySeq DEF a
<1>5. CASE q # <<>>
  <2>1. PICK f : Flat(f, q, n, S) /\ FlattenSeq(q) = f[n]
    BY <1>5, FlatExists
  <2>2. n # 0 /\ n \in 1..n /\ 1 \in 1..n
    BY <1>1, <1>5, EmptySeq
  <2>3. /\ f[1] = q[1] /\ \A i \in 1..(n - 1) : f[i + 1] = f[i] \o q[i + 1]
        /\ \A i \in 1..n : f[i] \in Seq(S)
    <3> HIDE DEF n
    <3>1. n > 0
      BY <1>1, <2>2
    <3> QED BY <2>1, <3>1 DEF Flat
  <2> HIDE DEF n
  <2> DEFINE T == {k \in 0..n : k = 0 \/ f[k] = g[k]}
  <2>4. 0 \in T
    BY <1>1
  <2>5. ASSUME NEW k \in 0..(n - 1), k \in T PROVE k + 1 \in T
    <3>1. k + 1 \in 1..n /\ k + 1 \in 0..n
      BY <1>1
    <3>2. CASE k = 0
      BY <1>1, <1>3, <2>2, <2>3, <3>1, <3>2
    <3>3. CASE k # 0
      <4>1. k \in 1..(n - 1) /\ k \in 1..n
        BY <1>1, <3>3
      <4>2. f[k + 1] = f[k] \o q[k + 1] /\ g[k + 1] = g[k] \o a[k + 1]
        BY <1>3, <2>3, <4>1
      <4>3. f[k] = g[k] /\ a[k + 1] = q[k + 1]
        BY <1>1, <2>5, <3>1, <3>3
      <4> QED BY <3>1, <4>2, <4>3
    <3> QED BY <3>2, <3>3
  <2> HIDE DEF T
  <2>9. \A k \in 0..(n - 1) : k \in T => k + 1 \in T
    BY <2>5
  <2>6. \A k \in 0..n : k \in T
    BY <1>1, <2>4, <2>9, Fold!Induct
  <2>7. f[n] = g[n] /\ f[n] \in Seq(S)
    BY <1>1, <2>2, <2>3, <2>6 DEF T
  <2>8. g[n + 1] = g[n] \o x
    BY <1>1, <1>3, <2>2
  <2> QED BY <1>2, <2>1, <2>7, <2>8 DEF a
<1> QED BY <1>4, <1>5

(* FlattenSeq of no sequence and of one.                                    *)
LEMMA FlattenFew ==
    ASSUME NEW S, NEW x \in Seq(S)
    PROVE  FlattenSeq(<<>>) = <<>> /\ FlattenSeq(<<x>>) = x
<1>1. <<>> \in Seq(Seq(S)) /\ Len(<<>>) = 0
  BY EmptySeq
<1>2. FlattenSeq(<<>>) = <<>>
  BY <1>1 DEF FlattenSeq
<1>3. Append(<<>>, x) = <<x>>
  BY <1>1, AppendIsConcat, ConcatEmptySeq
<1>4. FlattenSeq(Append(<<>>, x)) = <<>> \o x
  BY <1>1, <1>2, FlattenAppend
<1> QED BY <1>2, <1>3, <1>4, ConcatEmptySeq

\* FlattenSeq goes through a concatenation
Flattens(q, a) == FlattenSeq(q \o a) = FlattenSeq(q) \o FlattenSeq(a)

(* FlattenSeq of two parts, when one more sequence joins the second.         *)
LEMMA FlattenStep ==
    ASSUME NEW S, NEW q \in Seq(Seq(S)), NEW a \in Seq(Seq(S)), NEW x \in Seq(S)
    PROVE  Flattens(q, a) => Flattens(q, a \o <<x>>)
<1> DEFINE z == <<x>>
<1>0. z \in Seq(Seq(S))
  OBVIOUS
<1>1. z \in Seq(Seq(S)) /\ q \o a \in Seq(Seq(S))
  BY <1>0, ConcatProperties
<1>2. a \o z = Append(a, x) /\ (q \o a) \o z = Append(q \o a, x)
  BY <1>1, AppendIsConcat
<1> HIDE DEF z
<1>3. (q \o a) \o z = q \o (a \o z)
  <2>1. Joined(q, a, z)
    BY <1>0, Assoc
  <2> QED BY <2>1, Zenon DEF Joined
<1>4. FlattenSeq(Append(q \o a, x)) = FlattenSeq(q \o a) \o x
  BY <1>1, FlattenAppend
<1>5. FlattenSeq(a \o z) = FlattenSeq(a) \o x
  BY <1>2, FlattenAppend
<1>6. FlattenSeq(q) \in Seq(S) /\ FlattenSeq(a) \in Seq(S)
  BY FlattenAppend
<1>7. (FlattenSeq(q) \o FlattenSeq(a)) \o x = FlattenSeq(q) \o (FlattenSeq(a) \o x)
  <2>1. Joined(FlattenSeq(q), FlattenSeq(a), x)
    BY <1>6, Assoc
  <2> QED BY <2>1, Zenon DEF Joined
<1>8. FlattenSeq(q \o a) = FlattenSeq(q) \o FlattenSeq(a) =>
         FlattenSeq(q \o (a \o z)) = FlattenSeq(q) \o FlattenSeq(a \o z)
  BY <1>2, <1>3, <1>4, <1>5, <1>7, Zenon
<1> QED BY <1>8, Zenon DEF z, Flattens

(* FlattenSeq of two parts.                                                 *)
LEMMA FlattenConcat ==
    ASSUME NEW S, NEW q \in Seq(Seq(S)), NEW r \in Seq(Seq(S))
    PROVE  FlattenSeq(q \o r) = FlattenSeq(q) \o FlattenSeq(r)
<1> DEFINE n == Len(r)
           Pre(k) == SubSeq(r, 1, k)
           T == {k \in 0..n : FlattenSeq(q \o Pre(k)) = FlattenSeq(q) \o FlattenSeq(Pre(k))}
<1>1. n \in Nat /\ \A i \in 1..n : r[i] \in Seq(S)
  BY LenProperties, ElementOfSeq
<1>2. ASSUME NEW k \in 0..n PROVE Pre(k) \in Seq(Seq(S)) /\ Len(Pre(k)) = k
  <2>1. \A i \in 1..k : r[i] \in Seq(S)
    BY <1>1
  <2> QED BY <1>1, <2>1, SubSeqProperties
<1>3. 0 \in T
  <2>1. Pre(0) = <<>>
    BY SubSeqEmpty
  <2>2. q \o <<>> = q
    BY ConcatEmptySeq
  <2>3. FlattenSeq(q) \in Seq(S)
    BY FlattenAppend, EmptySeq
  <2>4. FlattenSeq(q) \o <<>> = FlattenSeq(q)
    BY <2>3, ConcatEmptySeq
  <2>5. FlattenSeq(<<>>) = <<>>
    BY FlattenFew, EmptySeq
  <2>6. FlattenSeq(q \o Pre(0)) = FlattenSeq(q) \o FlattenSeq(Pre(0))
    BY <2>1, <2>2, <2>4, <2>5, Zenon
  <2>7. 0 \in 0..n
    BY <1>1
  <2> QED BY <2>6, <2>7, Zenon
<1>4. ASSUME NEW k \in 0..(n - 1), k \in T PROVE k + 1 \in T
  <2>1. k \in 0..n /\ k + 1 \in 0..n /\ k + 1 \in 1..n /\ (k + 1) - 1 = k /\ 1 \in 1..n
        /\ k + 1 \in 1..Len(r)
    BY <1>1
  <2>2. r[k + 1] \in Seq(S)
    BY <1>1, <2>1
  <2>3. Pre(k + 1) = Pre(k) \o <<r[k + 1]>>
    BY <2>1, SubSeqRecursiveSecond
  <2>4. Pre(k) \in Seq(Seq(S)) /\ <<r[k + 1]>> \in Seq(Seq(S))
    BY <1>2, <2>1, <2>2
  <2> DEFINE a == Pre(k)
             x == r[k + 1]
  <2>5. a \in Seq(Seq(S)) /\ x \in Seq(S) /\ Pre(k + 1) = a \o <<x>>
        /\ FlattenSeq(q \o a) = FlattenSeq(q) \o FlattenSeq(a)
    BY <1>4, <2>2, <2>3, <2>4
  <2> HIDE DEF a, x
  <2>12. FlattenSeq(q \o Pre(k + 1)) = FlattenSeq(q) \o FlattenSeq(Pre(k + 1))
    <3> HIDE DEF Pre, n, T
    <3>1. Flattens(q, a)
      BY <2>5, Zenon DEF Flattens
    <3>2. a \in Seq(Seq(S)) /\ x \in Seq(S)
      BY <2>5
    <3>3. Flattens(q, a \o <<x>>)
      BY <3>1, <3>2, FlattenStep
    <3> QED BY <2>5, <3>3, Zenon DEF Flattens
  <2> QED BY <2>1, <2>12
<1>5. \A k \in 0..(n - 1) : k \in T => k + 1 \in T
  BY <1>4
<1>6. n \in T
  <2> HIDE DEF T, n
  <2>1. \A k \in 0..n : k \in T
    BY <1>1, <1>3, <1>5, Fold!Induct
  <2> QED BY <1>1, <2>1
<1>7. Pre(n) = r
  BY SubSeqFull
<1> QED BY <1>6, <1>7

(* FlattenSeq begins with the first sequence.                               *)
LEMMA FlattenFirst ==
    ASSUME NEW S, NEW q \in Seq(Seq(S)), q # <<>>
    PROVE  /\ q[1] \in Seq(S) /\ Tail(q) \in Seq(Seq(S))
           /\ FlattenSeq(q) = q[1] \o FlattenSeq(Tail(q))
<1>1. Len(q) \in Nat /\ 1 \in 1..Len(q) /\ Len(q) \in 1..Len(q)
  BY EmptySeq
<1>2. q[1] \in Seq(S) /\ Tail(q) \in Seq(Seq(S))
  BY <1>1, ElementOfSeq, HeadTailProperties
<1>3. SubSeq(q, 1, Len(q)) = <<q[1]>> \o SubSeq(q, 1 + 1, Len(q))
  BY <1>1, SubSeqRecursiveFirst
<1>4. q = <<q[1]>> \o Tail(q)
  BY <1>3, SubSeqFull, TailIsSubSeq
<1>5. <<q[1]>> \in Seq(Seq(S))
  BY <1>2
<1> DEFINE h == <<q[1]>>
           t == Tail(q)
<1>6. FlattenSeq(h \o t) = FlattenSeq(h) \o FlattenSeq(t)
  <2> HIDE DEF h, t
  <2>1. h \in Seq(Seq(S)) /\ t \in Seq(Seq(S))
    BY <1>2, <1>5 DEF h, t
  <2> QED BY <2>1, FlattenConcat
<1>7. FlattenSeq(h) = q[1]
  BY <1>2, FlattenFew
<1> QED BY <1>2, <1>4, <1>6, <1>7

-----------------------------------------------------------------------------
(* Cutting a sequence. *)

(* A sequence cut at n.                                                     *)
LEMMA Cut ==
    ASSUME NEW S, NEW s \in Seq(S), NEW n \in 0..Len(s)
    PROVE  /\ SubSeq(s, 1, n) \in Seq(S) /\ Len(SubSeq(s, 1, n)) = n
           /\ SubSeq(s, n + 1, Len(s)) \in Seq(S) /\ Len(SubSeq(s, n + 1, Len(s))) = Len(s) - n
           /\ s = SubSeq(s, 1, n) \o SubSeq(s, n + 1, Len(s))
           /\ \A i \in 1..n : SubSeq(s, 1, n)[i] = s[i]
           /\ \A i \in 1..(Len(s) - n) : SubSeq(s, n + 1, Len(s))[i] = s[n + i]
<1>1. Len(s) \in Nat /\ \A i \in 1..Len(s) : s[i] \in S
  BY LenProperties, ElementOfSeq
<1>2. /\ SubSeq(s, 1, n) \in Seq(S) /\ Len(SubSeq(s, 1, n)) = IF 1 <= n THEN n - 1 + 1 ELSE 0
      /\ \A i \in 1..(n - 1 + 1) : SubSeq(s, 1, n)[i] = s[1 + i - 1]
  <2>1. 1 \in Int /\ n \in Int /\ \A i \in 1..n : s[i] \in S
    BY <1>1
  <2> QED BY <2>1, SubSeqProperties
<1>3. /\ SubSeq(s, n + 1, Len(s)) \in Seq(S)
      /\ Len(SubSeq(s, n + 1, Len(s))) = IF n + 1 <= Len(s) THEN Len(s) - (n + 1) + 1 ELSE 0
      /\ \A i \in 1..(Len(s) - (n + 1) + 1) : SubSeq(s, n + 1, Len(s))[i] = s[(n + 1) + i - 1]
  <2>1. n + 1 \in Int /\ Len(s) \in Int /\ \A i \in (n + 1)..Len(s) : s[i] \in S
    BY <1>1
  <2> QED BY <2>1, SubSeqProperties
<1>4. SubSeq(s, 1, n) \o SubSeq(s, n + 1, Len(s)) = SubSeq(s, 1, Len(s))
  <2>1. 1 \in 1..(Len(s) + 1) /\ n \in (1 - 1)..Len(s) /\ Len(s) \in n..Len(s)
    BY <1>1
  <2> QED BY <2>1, ConcatAdjacentSubSeq
<1>5. SubSeq(s, 1, Len(s)) = s
  BY SubSeqFull
<1>6. ASSUME NEW i \in 1..n PROVE SubSeq(s, 1, n)[i] = s[i]
  <2>1. i \in 1..(n - 1 + 1) /\ 1 + i - 1 = i
    BY <1>1
  <2> QED BY <1>2, <2>1
<1>7. ASSUME NEW i \in 1..(Len(s) - n) PROVE SubSeq(s, n + 1, Len(s))[i] = s[n + i]
  <2>1. i \in 1..(Len(s) - (n + 1) + 1) /\ (n + 1) + i - 1 = n + i
    BY <1>1
  <2> QED BY <1>3, <2>1
<1>8. Len(SubSeq(s, 1, n)) = n
  BY <1>1, <1>2
<1>9. Len(SubSeq(s, n + 1, Len(s))) = Len(s) - n
  BY <1>1, <1>3
<1> QED BY <1>2, <1>3, <1>4, <1>5, <1>6, <1>7, <1>8, <1>9

(* What follows the same beginning.                                          *)
LEMMA Cancel ==
    ASSUME NEW S, NEW s \in Seq(S), NEW t \in Seq(S), NEW u \in Seq(S), s \o t = s \o u
    PROVE  t = u
  BY ConcatSimplifications, Zenon

First(s, n) == SubSeq(s, 1, n)
After(s, n) == SubSeq(s, n + 1, Len(s))

(* Cut, in these terms.                                                       *)
LEMMA FirstAfter ==
    ASSUME NEW S, NEW s \in Seq(S), NEW n \in 0..Len(s)
    PROVE  /\ First(s, n) \in Seq(S) /\ Len(First(s, n)) = n
           /\ After(s, n) \in Seq(S) /\ Len(After(s, n)) = Len(s) - n
           /\ s = First(s, n) \o After(s, n)
           /\ \A i \in 1..n : First(s, n)[i] = s[i]
           /\ \A i \in 1..(Len(s) - n) : After(s, n)[i] = s[n + i]
  BY Cut DEF First, After

Cuts(S, s, t, a, b) == /\ s \in Seq(S) /\ t \in Seq(S) /\ a \in Seq(S) /\ b \in Seq(S)
                       /\ s \o t = a \o b /\ Len(a) <= Len(s)

(* Two ways to cut a sequence: the first cut comes no later than the second. *)
LEMMA TwoCuts ==
    ASSUME NEW S, NEW s, NEW t, NEW a, NEW b, Cuts(S, s, t, a, b)
    PROVE  a = First(s, Len(a)) /\ After(s, Len(a)) \in Seq(S) /\ After(s, Len(a)) \o t = b
<1> DEFINE n == Len(a)
           c == First(s, n)
           d == After(s, n)
<1>0. /\ s \in Seq(S) /\ t \in Seq(S) /\ a \in Seq(S) /\ b \in Seq(S)
      /\ s \o t = a \o b /\ Len(a) <= Len(s)
  BY DEF Cuts
<1>1. n \in 0..Len(s) /\ Len(s) \in Nat /\ n \in Nat
  BY <1>0, LenProperties
<1>2. c \in Seq(S) /\ Len(c) = n /\ d \in Seq(S) /\ s = c \o d
      /\ \A i \in 1..n : c[i] = s[i]
  <2>1. s \in Seq(S) /\ n \in 0..Len(s)
    BY <1>0, <1>1
  <2> HIDE DEF n
  <2> QED BY <2>1, FirstAfter
<1> HIDE DEF c, d
<1>3. ASSUME NEW i \in 1..n PROVE a[i] = c[i]
  <2>1. i \in 1..(Len(s) + Len(t)) /\ i <= Len(s) /\ i \in 1..(Len(a) + Len(b)) /\ i <= Len(a)
    BY <1>0, <1>1, LenProperties
  <2>2. (s \o t)[i] = s[i]
    BY <1>0, <2>1, ConcatProperties
  <2>3. (a \o b)[i] = a[i]
    BY <1>0, <2>1, ConcatProperties
  <2> QED BY <1>0, <1>2, <2>2, <2>3
<1>4. a = c
  BY <1>0, <1>2, <1>3, SeqEqual
<1>5. (c \o d) \o t = c \o (d \o t) /\ d \o t \in Seq(S)
  <2>1. Joined(c, d, t)
    BY <1>0, <1>2, Assoc
  <2>2. d \o t \in Seq(S)
    BY <1>0, <1>2, ConcatProperties
  <2> QED BY <2>1, <2>2, Zenon DEF Joined
<1>6. c \o (d \o t) = c \o b
  BY <1>0, <1>2, <1>4, <1>5
<1>7. d \o t = b
  BY <1>0, <1>2, <1>5, <1>6, Cancel
<1> QED BY <1>2, <1>4, <1>7 DEF c, d

-----------------------------------------------------------------------------
(* Messages and their bytes. *)

Kind == {"post", "ping", "pong", "kickoff"}
Msg == [kind: Kind, len: Nat \ {0}, seq: Nat]
Byte == Msg \X Nat
Chunk == Seq(Byte)

Frames(ms) == [i \in 1..Len(ms) |-> Bytes(ms[i])]
Wire(ms) == FlattenSeq(Frames(ms))

(* A frame: its length, and the message in every byte.                       *)
LEMMA BytesOK ==
    ASSUME NEW m \in Msg
    PROVE  /\ Bytes(m) \in Chunk /\ Len(Bytes(m)) = HeaderLen + m.len
           /\ HeaderLen + m.len \in Nat /\ HeaderLen + m.len > 2
           /\ Bytes(m)[1][1] = m /\ Bytes(m)[2][1] = m
           /\ HashOk(Bytes(m))
<1> DEFINE n == HeaderLen + m.len
           b == Bytes(m)
<1>1. n \in Nat /\ n > 2 /\ 1 \in 1..n /\ 2 \in 1..n
  BY DEF Msg, HeaderLen
<1>2. b = [i \in 1..n |-> <<m, i>>]
  BY DEF Bytes
<1> HIDE DEF n, b
<1>3. \A i \in 1..n : b[i] = <<m, i>> /\ b[i] \in Byte
  <2>1. \A i \in 1..n : i \in Nat
    BY <1>1
  <2> QED BY <1>2, <2>1 DEF Byte
<1>4. b \in [1..n -> Byte]
  BY <1>2, <1>3
<1>5. b \in Chunk /\ Len(b) = n
  BY <1>1, <1>4 DEF Chunk
<1>6. b[1][1] = m /\ b[2][1] = m
  BY <1>1, <1>3
<1> QED BY <1>1, <1>5, <1>6 DEF n, b, HashOk

(* Frames is a sequence of chunks.                                           *)
LEMMA FramesOK ==
    ASSUME NEW ms \in Seq(Msg)
    PROVE  /\ Frames(ms) \in Seq(Chunk) /\ Len(Frames(ms)) = Len(ms)
           /\ \A i \in 1..Len(ms) : Frames(ms)[i] = Bytes(ms[i])
           /\ Wire(ms) \in Chunk
<1> DEFINE n == Len(ms)
           f == Frames(ms)
<1>1. n \in Nat /\ \A i \in 1..n : ms[i] \in Msg
  BY LenProperties, ElementOfSeq
<1>2. \A i \in 1..n : Bytes(ms[i]) \in Chunk
  BY <1>1, BytesOK
<1>3. f = [i \in 1..n |-> Bytes(ms[i])]
  BY DEF Frames
<1> HIDE DEF f, n
<1>4. f \in [1..n -> Chunk] /\ \A i \in 1..n : f[i] = Bytes(ms[i])
  BY <1>2, <1>3
<1> HIDE DEF Chunk
<1>5. f \in Seq(Chunk) /\ Len(f) = n
  BY <1>1, <1>4
<1>6. FlattenSeq(f) \in Seq(Byte)
  BY <1>5, FlattenAppend, EmptySeq DEF Chunk
<1> QED BY <1>4, <1>5, <1>6 DEF f, n, Wire, Chunk

(* The frames of two sequences of messages.                                  *)
LEMMA FramesConcat ==
    ASSUME NEW ms \in Seq(Msg), NEW ns \in Seq(Msg)
    PROVE  /\ ms \o ns \in Seq(Msg)
           /\ Frames(ms \o ns) = Frames(ms) \o Frames(ns)
           /\ Wire(ms \o ns) = Wire(ms) \o Wire(ns)
<1> DEFINE a == Frames(ms)
           b == Frames(ns)
           c == Frames(ms \o ns)
<1>1. /\ ms \o ns \in Seq(Msg) /\ Len(ms \o ns) = Len(ms) + Len(ns)
      /\ \A i \in 1..(Len(ms) + Len(ns)) :
            (ms \o ns)[i] = IF i <= Len(ms) THEN ms[i] ELSE ns[i - Len(ms)]
      /\ Len(ms) \in Nat /\ Len(ns) \in Nat
  BY ConcatProperties, LenProperties
<1>2. /\ a \in Seq(Chunk) /\ Len(a) = Len(ms) /\ \A i \in 1..Len(ms) : a[i] = Bytes(ms[i])
      /\ b \in Seq(Chunk) /\ Len(b) = Len(ns) /\ \A i \in 1..Len(ns) : b[i] = Bytes(ns[i])
      /\ c \in Seq(Chunk) /\ Len(c) = Len(ms) + Len(ns)
      /\ \A i \in 1..(Len(ms) + Len(ns)) : c[i] = Bytes((ms \o ns)[i])
  BY <1>1, FramesOK
<1> HIDE DEF a, b, c, Chunk
<1>9. a \in Seq(Chunk) /\ b \in Seq(Chunk)
  BY <1>2
<1>3. /\ a \o b \in Seq(Chunk) /\ Len(a \o b) = Len(a) + Len(b)
      /\ \A i \in 1..(Len(a) + Len(b)) :
            (a \o b)[i] = IF i <= Len(a) THEN a[i] ELSE b[i - Len(a)]
  BY <1>9, ConcatProperties
<1> DEFINE d == a \o b
           e == ms \o ns
<1>8. /\ d \in Seq(Chunk) /\ Len(d) = Len(ms) + Len(ns)
      /\ \A i \in 1..(Len(ms) + Len(ns)) : d[i] = IF i <= Len(ms) THEN a[i] ELSE b[i - Len(ms)]
      /\ \A i \in 1..(Len(ms) + Len(ns)) : e[i] = IF i <= Len(ms) THEN ms[i] ELSE ns[i - Len(ms)]
      /\ \A i \in 1..(Len(ms) + Len(ns)) : c[i] = Bytes(e[i])
  BY <1>1, <1>2, <1>3
<1> HIDE DEF d, e
<1>4. ASSUME NEW i \in 1..(Len(ms) + Len(ns)) PROVE c[i] = d[i]
  <2>1. CASE i <= Len(ms)
    <3>1. i \in 1..Len(ms)
      BY <1>1, <2>1
    <3> QED BY <1>2, <1>8, <2>1, <3>1
  <2>2. CASE ~(i <= Len(ms))
    <3>1. i - Len(ms) \in 1..Len(ns)
      BY <1>1, <2>2
    <3> QED BY <1>2, <1>8, <2>2, <3>1
  <2> QED BY <2>1, <2>2
<1>5. c = d
  BY <1>2, <1>4, <1>8, SeqEqual
<1>6. FlattenSeq(a \o b) = FlattenSeq(a) \o FlattenSeq(b)
  BY <1>2, FlattenConcat DEF Chunk
<1> QED BY <1>1, <1>5, <1>6 DEF a, b, c, d, Wire

(* The frame of one message, and of none.                                    *)
LEMMA FramesFew ==
    ASSUME NEW m \in Msg
    PROVE  /\ <<m>> \in Seq(Msg) /\ Frames(<<m>>) = <<Bytes(m)>> /\ Wire(<<m>>) = Bytes(m)
           /\ Frames(<<>>) = <<>> /\ Wire(<<>>) = <<>>
<1> DEFINE b == Bytes(m)
           o == <<m>>
<1>1. b \in Seq(Byte)
  BY BytesOK DEF Chunk
<1>2. o \in Seq(Msg) /\ Len(o) = 1 /\ o[1] = m
  OBVIOUS
<1> HIDE DEF o
<1>3. Frames(o) \in Seq(Chunk) /\ Len(Frames(o)) = 1 /\ Frames(o)[1] = b
  BY <1>2, FramesOK
<1> HIDE DEF b
<1>4. <<b>> \in Seq(Chunk) /\ Len(<<b>>) = 1 /\ <<b>>[1] = b
  BY <1>1 DEF Chunk
<1> DEFINE bb == <<b>>
           f == Frames(o)
<1>8. bb \in Seq(Chunk) /\ Len(bb) = 1 /\ bb[1] = b /\ f \in Seq(Chunk) /\ Len(f) = 1 /\ f[1] = b
  BY <1>3, <1>4
<1> HIDE DEF Chunk, bb, f
<1>5. \A i \in 1..Len(f) : f[i] = bb[i]
  BY <1>8
<1>6. f = bb
  BY <1>5, <1>8, SeqEqual
<1>7. <<>> \in Seq(Msg) /\ Frames(<<>>) = <<>>
  BY EmptySeq DEF Frames
<1>9. FlattenSeq(<<b>>) = b /\ FlattenSeq(<<>>) = <<>>
  BY <1>1, FlattenFew
<1> QED BY <1>2, <1>6, <1>7, <1>9 DEF Wire, b, bb, f, o

(* No message has no frame.                                                  *)
LEMMA FramesNone == Frames(<<>>) = <<>> /\ Wire(<<>>) = <<>>
  BY EmptySeq DEF Frames, Wire, FlattenSeq

(* The frames of a sequence of messages, from the first on.                  *)
LEMMA FramesFirst ==
    ASSUME NEW ms \in Seq(Msg), ms # <<>>
    PROVE  /\ ms[1] \in Msg /\ Tail(ms) \in Seq(Msg) /\ Len(Tail(ms)) = Len(ms) - 1
           /\ Len(ms) \in Nat \ {0} /\ ms = <<ms[1]>> \o Tail(ms)
           /\ Wire(ms) = Bytes(ms[1]) \o Wire(Tail(ms))
<1>1. Len(ms) \in Nat \ {0} /\ 1 \in 1..Len(ms) /\ Len(ms) \in 1..Len(ms)
  BY EmptySeq
<1>2. ms[1] \in Msg /\ Tail(ms) \in Seq(Msg) /\ Len(Tail(ms)) = Len(ms) - 1
  BY <1>1, ElementOfSeq, HeadTailProperties
<1>3. SubSeq(ms, 1, Len(ms)) = <<ms[1]>> \o SubSeq(ms, 1 + 1, Len(ms))
  BY <1>1, SubSeqRecursiveFirst
<1>4. ms = <<ms[1]>> \o Tail(ms)
  BY <1>3, SubSeqFull, TailIsSubSeq
<1> DEFINE h == <<ms[1]>>
           t == Tail(ms)
<1>5. h \in Seq(Msg) /\ t \in Seq(Msg) /\ Wire(h) = Bytes(ms[1])
  BY <1>2, FramesFew
<1>6. Wire(h \o t) = Wire(h) \o Wire(t)
  <2> HIDE DEF h, t
  <2> QED BY <1>5, FramesConcat
<1> QED BY <1>1, <1>2, <1>4, <1>5, <1>6

(* A part of a part of a sequence.                                           *)
LEMMA CutAgain ==
    ASSUME NEW S, NEW s \in Seq(S), NEW i \in 0..Len(s), NEW c \in 0..(Len(s) - i)
    PROVE  /\ SubSeq(SubSeq(s, i + 1, Len(s)), 1, c) = SubSeq(s, i + 1, i + c)
           /\ SubSeq(SubSeq(s, i + 1, Len(s)), c + 1, Len(s) - i) = SubSeq(s, (i + c) + 1, Len(s))
<1> DEFINE n == Len(s)
           u == SubSeq(s, i + 1, n)
           a == SubSeq(u, 1, c)
           b == SubSeq(u, c + 1, n - i)
           x == SubSeq(s, i + 1, i + c)
           y == SubSeq(s, (i + c) + 1, n)
<1>1. n \in Nat /\ i \in Nat /\ c \in Nat /\ i + c \in 0..n
  BY LenProperties
<1>2. u \in Seq(S) /\ Len(u) = n - i /\ \A k \in 1..(n - i) : u[k] = s[i + k]
  BY Cut
<1>3. y \in Seq(S) /\ Len(y) = n - (i + c) /\ \A k \in 1..(n - (i + c)) : y[k] = s[(i + c) + k]
  <2> DEFINE d == i + c
  <2>1. d \in 0..Len(s)
    BY <1>1
  <2> HIDE DEF d
  <2>2. SubSeq(s, d + 1, Len(s)) \in Seq(S) /\ Len(SubSeq(s, d + 1, Len(s))) = Len(s) - d
        /\ \A k \in 1..(Len(s) - d) : SubSeq(s, d + 1, Len(s))[k] = s[d + k]
    BY <2>1, Cut
  <2> QED BY <2>2 DEF d
<1>4. x \in Seq(S) /\ Len(x) = c /\ \A k \in 1..c : x[k] = s[i + k]
  <2>1. \A k \in (i + 1)..(i + c) : s[k] \in S
    <3>1. \A k \in (i + 1)..(i + c) : k \in 1..n
      BY <1>1
    <3> QED BY <3>1, ElementOfSeq
  <2>2. i + 1 \in Int /\ i + c \in Int
    BY <1>1
  <2>3. /\ x \in Seq(S)
        /\ Len(x) = IF i + 1 <= i + c THEN (i + c) - (i + 1) + 1 ELSE 0
        /\ \A k \in 1..((i + c) - (i + 1) + 1) : x[k] = s[(i + 1) + k - 1]
    BY <2>1, <2>2, SubSeqProperties
  <2> HIDE DEF x
  <2>4. ASSUME NEW k \in 1..c PROVE x[k] = s[i + k]
    <3>1. k \in 1..((i + c) - (i + 1) + 1) /\ (i + 1) + k - 1 = i + k
      BY <1>1
    <3> QED BY <2>3, <3>1
  <2>5. Len(x) = c
    BY <1>1, <2>3
  <2> QED BY <2>3, <2>4, <2>5
<1>5. c \in 0..Len(u)
  BY <1>1, <1>2
<1> HIDE DEF u, x, y, n
<1>6. /\ a \in Seq(S) /\ Len(a) = c /\ \A k \in 1..c : a[k] = u[k]
      /\ SubSeq(u, c + 1, Len(u)) \in Seq(S) /\ Len(SubSeq(u, c + 1, Len(u))) = Len(u) - c
      /\ \A k \in 1..(Len(u) - c) : SubSeq(u, c + 1, Len(u))[k] = u[c + k]
  BY <1>2, <1>5, Cut
<1>7. b \in Seq(S) /\ Len(b) = (n - i) - c /\ \A k \in 1..((n - i) - c) : b[k] = u[c + k]
  BY <1>2, <1>6
<1> HIDE DEF a, b
<1>8. a = x
  <2>1. ASSUME NEW k \in 1..c PROVE a[k] = x[k]
    <3>1. k \in 1..(n - i)
      BY <1>1
    <3> QED BY <1>2, <1>4, <1>6, <3>1
  <2> QED BY <1>4, <1>6, <2>1, SeqEqual
<1>9. b = y
  <2>1. ASSUME NEW k \in 1..((n - i) - c) PROVE b[k] = y[k]
    <3>1. c + k \in 1..(n - i) /\ i + (c + k) = (i + c) + k /\ k \in 1..(n - (i + c))
      BY <1>1
    <3>2. b[k] = u[c + k] /\ u[c + k] = s[i + (c + k)]
      BY <1>2, <1>7, <3>1
    <3>3. y[k] = s[(i + c) + k]
      BY <1>3, <3>1
    <3> QED BY <3>1, <3>2, <3>3
  <2>2. (n - i) - c = n - (i + c)
    BY <1>1
  <2> QED BY <1>3, <1>7, <2>1, <2>2, SeqEqual
<1> QED BY <1>8, <1>9 DEF a, b, x, y, u, n

(* A sequence cut at k + 1 and its tail cut at k.                             *)
LEMMA TailCut ==
    ASSUME NEW S, NEW s \in Seq(S), s # <<>>, NEW k \in 0..(Len(s) - 1)
    PROVE  /\ SubSeq(s, 1, k + 1) = <<s[1]>> \o SubSeq(Tail(s), 1, k)
           /\ SubSeq(s, (k + 1) + 1, Len(s)) = SubSeq(Tail(s), k + 1, Len(Tail(s)))
<1>1. Len(s) \in Nat \ {0} /\ 1 \in 0..Len(s) /\ 1 \in 1..Len(s) /\ k + 1 \in 1..Len(s)
      /\ k \in 0..(Len(s) - 1) /\ 1 + k = k + 1
  BY EmptySeq
<1>2. Tail(s) = SubSeq(s, 1 + 1, Len(s)) /\ Len(Tail(s)) = Len(s) - 1
  BY TailIsSubSeq, HeadTailProperties
<1>3. /\ SubSeq(SubSeq(s, 1 + 1, Len(s)), 1, k) = SubSeq(s, 1 + 1, 1 + k)
      /\ SubSeq(SubSeq(s, 1 + 1, Len(s)), k + 1, Len(s) - 1) = SubSeq(s, (1 + k) + 1, Len(s))
  BY <1>1, CutAgain
<1>4. SubSeq(s, 1, k + 1) = <<s[1]>> \o SubSeq(s, 1 + 1, k + 1)
  BY <1>1, SubSeqRecursiveFirst
<1>5. SubSeq(Tail(s), 1, k) = SubSeq(s, 1 + 1, k + 1)
  BY <1>1, <1>2, <1>3
<1>6. SubSeq(Tail(s), k + 1, Len(Tail(s))) = SubSeq(s, (k + 1) + 1, Len(s))
  BY <1>1, <1>2, <1>3
<1> QED BY <1>4, <1>5, <1>6

-----------------------------------------------------------------------------
(* Scan. *)

More(s, i) == /\ Len(s) - i > HeaderLen
              /\ Len(s) - i >= HeaderLen + LengthAt(s, i)
Then(s, i) == i + HeaderLen + LengthAt(s, i)
Leaf(s, i) == [rest |-> SubSeq(s, i + 1, Len(s)), frames |-> <<>>]
Put(r, f) == [r EXCEPT !.frames = <<f>> \o @]
Turn(g, s, i) == IF More(s, i) THEN Put(g[Then(s, i)], SubSeq(s, i + 1, Then(s, i)))
                 ELSE Leaf(s, i)

(* A complete message ends later than it begins, and within the bytes.       *)
LEMMA ThenOK ==
    ASSUME NEW s \in Chunk, NEW i \in 0..Len(s), More(s, i)
    PROVE  Then(s, i) \in (i + 1)..Len(s)
<1>1. Len(s) \in Nat /\ i \in Nat /\ Len(s) - i > 2
  BY LenProperties DEF More, HeaderLen, Chunk
<1>2. i + 2 \in 1..Len(s)
  BY <1>1
<1>3. s[i + 2] \in Byte
  BY <1>2, ElementOfSeq DEF Chunk
<1>4. LengthAt(s, i) \in Nat /\ LengthAt(s, i) >= 1
  BY <1>3 DEF LengthAt, HeaderLen, Byte, Msg
<1>5. Len(s) - i >= 2 + LengthAt(s, i) /\ Then(s, i) = i + 2 + LengthAt(s, i)
  BY DEF More, Then, HeaderLen
<1> QED BY <1>1, <1>4, <1>5

(* The recursive function in the definition of Scan exists.                  *)
LEMMA ScanExists ==
    ASSUME NEW s \in Chunk
    PROVE  \E g : Scan(s) = g[0] /\ \A i \in 0..Len(s) : g[i] = Turn(g, s, i)
<1> DEFINE n == Len(s)
           Part(g, m) == \A i \in m..n : g[i] = Turn(g, s, i)
           T == {d \in 0..n : \E g : Part(g, n - d)}
           Is(g) == g = [i \in 0..n |-> Turn(g, s, i)]
<1>1. n \in Nat
  BY LenProperties DEF Chunk
<1>2. 0 \in T
  <2> DEFINE g == [i \in n..n |-> Leaf(s, i)]
  <2>1. ASSUME NEW i \in n..n PROVE g[i] = Turn(g, s, i)
    <3>1. i = n /\ ~More(s, i)
      BY <1>1 DEF More, HeaderLen
    <3> QED BY <3>1 DEF Turn
  <2>2. n - 0 = n /\ 0 \in 0..n
    BY <1>1
  <2>3. Part(g, n - 0)
    BY <2>1, <2>2
  <2> HIDE DEF Part, n
  <2> QED BY <2>2, <2>3
<1>3. ASSUME NEW d \in 0..(n - 1), d \in T PROVE d + 1 \in T
  <2>1. PICK g : Part(g, n - d)
    BY <1>3
  <2> DEFINE m == n - (d + 1)
             x == Turn(g, s, m)
             h == [i \in m..n |-> IF i = m THEN x ELSE g[i]]
  <2>2. m \in Nat /\ m \in m..n /\ m \in 0..n /\ m + 1 = n - d /\ d + 1 \in 0..n
    BY <1>1
  <2> HIDE DEF x, n, m
  <2>3. h[m] = x /\ \A i \in (m + 1)..n : h[i] = g[i]
    <3>1. \A i \in (m + 1)..n : i \in m..n /\ i # m
      BY <1>1, <2>2
    <3> QED BY <2>2, <3>1
  <2> HIDE DEF h
  <2>4. ASSUME NEW i \in m..n PROVE Turn(h, s, i) = Turn(g, s, i)
    <3>1. CASE More(s, i)
      <4>1. i \in 0..Len(s)
        BY <1>1, <2>2 DEF n
      <4>2. Then(s, i) \in (i + 1)..n
        BY <3>1, <4>1, ThenOK DEF n
      <4>3. Then(s, i) \in (m + 1)..n
        BY <1>1, <2>2, <4>2
      <4> QED BY <2>3, <4>3 DEF Turn
    <3>2. CASE ~More(s, i)
      BY <3>2 DEF Turn
    <3> QED BY <3>1, <3>2
  <2>5. ASSUME NEW i \in m..n PROVE h[i] = Turn(h, s, i)
    <3>1. CASE i = m
      BY <2>2, <2>3, <2>4, <3>1 DEF x
    <3>2. CASE i # m
      <4>1. i \in (m + 1)..n /\ i \in (n - d)..n
        BY <1>1, <2>2, <3>2
      <4> QED BY <2>1, <2>3, <2>4, <4>1
    <3> QED BY <3>1, <3>2
  <2>6. Part(h, n - (d + 1))
    BY <2>5 DEF m
  <2> HIDE DEF Part
  <2> QED BY <2>2, <2>6
<1>4. n \in T
  <2> HIDE DEF T, n
  <2>1. \A d \in 0..(n - 1) : d \in T => d + 1 \in T
    BY <1>3
  <2>2. \A d \in 0..n : d \in T
    BY <1>1, <1>2, <2>1, Fold!Induct
  <2> QED BY <1>1, <2>2
<1>5. PICK g : Part(g, 0)
  <2>1. n - n = 0
    BY <1>1
  <2> HIDE DEF Part, n
  <2> QED BY <1>4, <2>1
<1> DEFINE h == [i \in 0..n |-> g[i]]
<1>6. Is(h)
  <2>1. ASSUME NEW i \in 0..n PROVE Turn(h, s, i) = Turn(g, s, i)
    <3>1. CASE More(s, i)
      <4>1. Then(s, i) \in (i + 1)..n
        BY <3>1, ThenOK
      <4>2. Then(s, i) \in 0..n
        BY <1>1, <4>1
      <4>3. h[Then(s, i)] = g[Then(s, i)]
        BY <4>2
      <4> QED BY <4>3 DEF Turn
    <3>2. CASE ~More(s, i)
      BY <3>2 DEF Turn
    <3> QED BY <3>1, <3>2
  <2>2. \A i \in 0..n : g[i] = Turn(h, s, i)
    BY <1>5, <2>1
  <2> HIDE DEF n
  <2>3. [i \in 0..n |-> g[i]] = [i \in 0..n |-> Turn(h, s, i)]
    BY <2>2
  <2> QED BY <2>3
<1> DEFINE F == CHOOSE f : Is(f)
<1>7. Scan(s) = F[0]
  BY DEF Scan, Turn, More, Then, Leaf, Put
<1>8. Is(F)
  <2> HIDE DEF Is
  <2> QED BY <1>6
<1> HIDE DEF F
<1>9. \A i \in 0..n : F[i] = Turn(F, s, i)
  BY <1>8
<1> QED BY <1>7, <1>9

ScanResult == [rest: Chunk, frames: Seq(Chunk)]

\* the scan r found the first k messages of ms, and the rest, with t, is that of the others
Scanned(r, ms, k, t) ==
    /\ r \in ScanResult
    /\ r.frames = Frames(SubSeq(ms, 1, k))
    /\ r.rest \o t = Wire(SubSeq(ms, k + 1, Len(ms)))
    /\ Len(r.rest) > HeaderLen => Len(r.rest) < HeaderLen + LengthAt(r.rest, 0)

\* the scan from position i on is right, whatever the messages
ScanRight(g, s, t, i) ==
    \A ms \in Seq(Msg) : SubSeq(s, i + 1, Len(s)) \o t = Wire(ms) =>
        \E k \in 0..Len(ms) : Scanned(g[i], ms, k, t)

(* Where no message is complete the scan stops.                              *)
LEMMA ScanStops ==
    ASSUME NEW s \in Chunk, NEW t \in Chunk, NEW i \in 0..Len(s), ~More(s, i),
           NEW g, g[i] = Leaf(s, i)
    PROVE  ScanRight(g, s, t, i)
<1> SUFFICES ASSUME NEW ms \in Seq(Msg), SubSeq(s, i + 1, Len(s)) \o t = Wire(ms)
             PROVE  \E k \in 0..Len(ms) : Scanned(g[i], ms, k, t)
  BY DEF ScanRight
<1> DEFINE u == SubSeq(s, i + 1, Len(s))
<1>1. u \in Chunk /\ Len(u) = Len(s) - i /\ \A x \in 1..(Len(s) - i) : u[x] = s[i + x]
  BY Cut DEF Chunk
<1>2. Len(s) \in Nat /\ i \in Nat /\ Len(ms) \in Nat
  BY LenProperties DEF Chunk
<1>3. u \o t = Wire(ms)
  OBVIOUS
<1>4. g[i] = [rest |-> u, frames |-> <<>>]
  BY DEF Leaf
<1> HIDE DEF u
<1>5. SubSeq(ms, 1, 0) = <<>> /\ SubSeq(ms, 0 + 1, Len(ms)) = ms
  BY SubSeqEmpty, SubSeqFull
<1>6. Frames(<<>>) = <<>>
  BY FramesNone
<1>7. Len(u) > 2 => Len(u) < 2 + u[0 + 2][1].len
  <2> SUFFICES ASSUME Len(u) > 2 PROVE Len(u) < 2 + u[0 + 2][1].len
    OBVIOUS
  <2>1. 2 \in 1..(Len(s) - i) /\ i + 2 \in 1..Len(s)
    BY <1>1, <1>2
  <2>2. u[2] = s[i + 2]
    BY <1>1, <2>1
  <2>3. s[i + 2] \in Byte
    BY <2>1, ElementOfSeq DEF Chunk
  <2>4. s[i + 2][1].len \in Nat
    BY <2>3 DEF Byte, Msg
  <2>5. ~(Len(s) - i >= 2 + s[i + 2][1].len)
    BY <1>1 DEF More, HeaderLen, LengthAt
  <2> DEFINE l == s[i + 2][1].len
             x == Len(s) - i
  <2>6. Len(u) = x /\ x \in Int /\ l \in Nat /\ ~(x >= 2 + l)
    BY <1>1, <1>2, <2>4, <2>5
  <2>7. u[0 + 2][1].len = l
    BY <2>2
  <2> HIDE DEF l, x
  <2>8. x < 2 + l
    BY <2>6
  <2> QED BY <2>6, <2>7, <2>8
<1>8. <<>> \in Seq(Chunk)
  BY EmptySeq
<1> DEFINE r == g[i]
<1>11. r \in ScanResult /\ r.rest = u /\ r.frames = <<>>
  BY <1>1, <1>4, <1>8 DEF ScanResult
<1> HIDE DEF r
<1>12. r.frames = Frames(SubSeq(ms, 1, 0)) /\ r.rest \o t = Wire(SubSeq(ms, 0 + 1, Len(ms)))
  BY <1>3, <1>5, <1>6, <1>11, Zenon
<1>13. Len(r.rest) > HeaderLen => Len(r.rest) < HeaderLen + LengthAt(r.rest, 0)
  BY <1>7, <1>11 DEF HeaderLen, LengthAt
<1>9. Scanned(g[i], ms, 0, t)
  BY <1>11, <1>12, <1>13, Zenon DEF Scanned, r
<1>10. 0 \in 0..Len(ms)
  BY <1>2
<1> QED BY <1>9, <1>10

(* One more message in front of a scan that is right.                        *)
LEMMA PutScanned ==
    ASSUME NEW ms \in Seq(Msg), ms # <<>>, NEW k \in 0..Len(Tail(ms)), NEW t, NEW r,
           Scanned(r, Tail(ms), k, t)
    PROVE  k + 1 \in 0..Len(ms) /\ Scanned(Put(r, Bytes(ms[1])), ms, k + 1, t)
<1> DEFINE m == ms[1]
           h == <<m>>
           b == Bytes(m)
           a == SubSeq(Tail(ms), 1, k)
           f == r.frames
<1>1. m \in Msg /\ Tail(ms) \in Seq(Msg) /\ Len(Tail(ms)) = Len(ms) - 1 /\ Len(ms) \in Nat \ {0}
  BY FramesFirst
<1>2. k \in 0..(Len(ms) - 1) /\ k + 1 \in 0..Len(ms)
  BY <1>1
<1>3. /\ SubSeq(ms, 1, k + 1) = h \o a
      /\ SubSeq(ms, (k + 1) + 1, Len(ms)) = SubSeq(Tail(ms), k + 1, Len(Tail(ms)))
  BY <1>2, TailCut
<1>4. a \in Seq(Msg)
  BY <1>1, Cut
<1>5. h \in Seq(Msg) /\ Frames(h) = <<b>> /\ b \in Chunk
  BY <1>1, FramesFew, BytesOK
<1> HIDE DEF h, a
<1>6. Frames(h \o a) = Frames(h) \o Frames(a)
  BY <1>4, <1>5, FramesConcat
<1>7. r \in ScanResult /\ f = Frames(a)
  BY DEF Scanned, a
<1> HIDE DEF b, m
<1> DEFINE bb == <<b>>
<1>8. bb \in Seq(Chunk) /\ f \in Seq(Chunk)
  BY <1>5, <1>7 DEF ScanResult
<1>9. Put(r, b) = [r EXCEPT !.frames = bb \o f]
  BY DEF Put
<1> HIDE DEF bb, f
<1>10. bb \o f \in Seq(Chunk)
  BY <1>8, ConcatProperties
<1> DEFINE c == bb \o f
<1>11. c = Frames(SubSeq(ms, 1, k + 1))
  BY <1>3, <1>5, <1>6, <1>7 DEF bb
<1> HIDE DEF c
<1>12. Put(r, b) \in ScanResult /\ Put(r, b).frames = c /\ Put(r, b).rest = r.rest
  BY <1>7, <1>9, <1>10 DEF ScanResult, c
<1>13. Scanned(Put(r, b), ms, k + 1, t)
  BY <1>3, <1>11, <1>12, Zenon DEF Scanned
<1> QED BY <1>2, <1>13 DEF b, m

(* Bytes longer than a header begin with the frame of the first message.     *)
LEMMA FirstMessage ==
    ASSUME NEW u \in Chunk, NEW t \in Chunk, NEW ms \in Seq(Msg), u \o t = Wire(ms), Len(u) > 2
    PROVE  /\ ms # <<>> /\ u[2][1] = ms[1] /\ u[1][1] = ms[1]
           /\ u \o t = Bytes(ms[1]) \o Wire(Tail(ms))
<1> DEFINE b == Bytes(ms[1])
           w == Wire(Tail(ms))
<1>1. /\ u \o t \in Seq(Byte) /\ Len(u \o t) = Len(u) + Len(t)
      /\ \A i \in 1..(Len(u) + Len(t)) : (u \o t)[i] = IF i <= Len(u) THEN u[i] ELSE t[i - Len(u)]
      /\ Len(u) \in Nat /\ Len(t) \in Nat
  BY ConcatProperties, LenProperties DEF Chunk
<1>2. ms # <<>>
  BY <1>1, FramesNone, EmptySeq
<1>3. ms[1] \in Msg /\ Tail(ms) \in Seq(Msg) /\ Wire(ms) = b \o w
  BY <1>2, FramesFirst
<1>4. b \in Seq(Byte) /\ w \in Seq(Byte) /\ b[2][1] = ms[1] /\ b[1][1] = ms[1] /\ Len(b) > 2
  BY <1>3, BytesOK, FramesOK DEF Chunk
<1> HIDE DEF b, w
<1>5. Len(b) \in Nat /\ Len(w) \in Nat
  BY <1>4, LenProperties
<1>6. \A i \in 1..(Len(b) + Len(w)) : (b \o w)[i] = IF i <= Len(b) THEN b[i] ELSE w[i - Len(b)]
  BY <1>4, ConcatProperties
<1>7. (b \o w)[2] = b[2] /\ (b \o w)[1] = b[1]
  BY <1>4, <1>5, <1>6
<1>8. (u \o t)[2] = u[2] /\ (u \o t)[1] = u[1]
  BY <1>1
<1>9. u \o t = b \o w
  BY <1>3
<1> QED BY <1>2, <1>4, <1>7, <1>8, <1>9 DEF b, w

(* Where the first message is complete its frame can be cut off.             *)
LEMMA FirstFrame ==
    ASSUME NEW u \in Chunk, NEW t \in Chunk, NEW ms \in Seq(Msg), u \o t = Wire(ms),
           Len(u) > 2, Len(u) >= 2 + u[2][1].len
    PROVE  /\ ms # <<>> /\ Len(Bytes(ms[1])) = 2 + u[2][1].len
           /\ Bytes(ms[1]) = First(u, Len(Bytes(ms[1])))
           /\ After(u, Len(Bytes(ms[1]))) \o t = Wire(Tail(ms))
<1> DEFINE b == Bytes(ms[1])
           w == Wire(Tail(ms))
<1>1. ms # <<>> /\ u[2][1] = ms[1] /\ u \o t = b \o w
  BY FirstMessage
<1>2. ms[1] \in Msg /\ Tail(ms) \in Seq(Msg)
  BY <1>1, FramesFirst
<1>3. b \in Seq(Byte) /\ w \in Seq(Byte) /\ Len(b) = 2 + u[2][1].len
  BY <1>1, <1>2, BytesOK, FramesOK DEF Chunk, HeaderLen
<1> HIDE DEF b, w
<1>4. Len(b) <= Len(u) /\ u \in Seq(Byte) /\ t \in Seq(Byte)
  BY <1>3 DEF Chunk
<1>5. b = First(u, Len(b)) /\ After(u, Len(b)) \o t = w
  <2>1. Cuts(Byte, u, t, b, w)
    BY <1>1, <1>3, <1>4, Zenon DEF Cuts
  <2> QED BY <2>1, TwoCuts
<1> QED BY <1>1, <1>3, <1>5 DEF b, w

(* Where a message is complete the scan takes its frame and goes on.         *)
LEMMA ScanGoesOn ==
    ASSUME NEW s \in Chunk, NEW t \in Chunk, NEW i \in 0..Len(s), More(s, i),
           NEW g, g[i] = Turn(g, s, i), \A j \in (i + 1)..Len(s) : ScanRight(g, s, t, j)
    PROVE  ScanRight(g, s, t, i)
<1>0. SUFFICES ASSUME NEW ms \in Seq(Msg), SubSeq(s, i + 1, Len(s)) \o t = Wire(ms)
               PROVE  \E k \in 0..Len(ms) : Scanned(g[i], ms, k, t)
  BY DEF ScanRight
<1> DEFINE n == Len(s)
           u == SubSeq(s, i + 1, n)
           b == Bytes(ms[1])
           c == Len(b)
           l == LengthAt(s, i)
<1>1. u \in Chunk /\ Len(u) = n - i /\ \A x \in 1..(n - i) : u[x] = s[i + x]
  BY Cut DEF Chunk
<1>2. n \in Nat /\ i \in Nat /\ n - i > 2
  BY LenProperties DEF Chunk, More, HeaderLen
<1>3. 2 \in 1..(n - i) /\ i + 2 \in 1..n
  BY <1>2
<1>4. l = u[2][1].len
  BY <1>1, <1>3 DEF LengthAt, HeaderLen
<1>5. l \in Nat /\ l >= 1
  <2>1. s[i + 2] \in Byte
    BY <1>3, ElementOfSeq DEF Chunk
  <2>2. l = s[i + 2][1].len
    BY DEF LengthAt, HeaderLen
  <2> HIDE DEF l
  <2> QED BY <2>1, <2>2 DEF Byte, Msg
<1>6. n - i >= 2 + l /\ Then(s, i) = i + 2 + l
  BY DEF More, Then, HeaderLen
<1>7. u \o t = Wire(ms)
  BY <1>0
<1> HIDE DEF u, n, l
<1>8. /\ ms # <<>> /\ c = 2 + l
      /\ b = First(u, c) /\ After(u, c) \o t = Wire(Tail(ms))
  <2>1. Len(u) > 2 /\ Len(u) >= 2 + u[2][1].len
    BY <1>1, <1>2, <1>4, <1>6
  <2> QED BY <1>1, <1>4, <1>7, <2>1, FirstFrame
<1> HIDE DEF b, c
<1>9. c \in 0..(n - i) /\ i + c \in (i + 1)..n /\ Then(s, i) = i + c
  <2>1. c = 2 + l
    BY <1>8
  <2> QED BY <1>2, <1>5, <1>6, <2>1
<1>10. First(u, c) = SubSeq(s, i + 1, i + c) /\ After(u, c) = SubSeq(s, (i + c) + 1, n)
  <2>1. SubSeq(u, 1, c) = SubSeq(s, i + 1, i + c)
        /\ SubSeq(u, c + 1, n - i) = SubSeq(s, (i + c) + 1, n)
    BY <1>9, CutAgain DEF u, Chunk, n
  <2>2. Len(u) = n - i
    BY <1>1
  <2> QED BY <2>1, <2>2 DEF First, After
<1>11. Tail(ms) \in Seq(Msg)
  BY <1>8, FramesFirst
<1>12. SubSeq(s, (i + c) + 1, n) \o t = Wire(Tail(ms))
  BY <1>8, <1>10
<1>13. PICK k \in 0..Len(Tail(ms)) : Scanned(g[i + c], Tail(ms), k, t)
  BY <1>9, <1>11, <1>12 DEF ScanRight, n
<1>14. g[i] = Put(g[i + c], b)
  BY <1>8, <1>9, <1>10 DEF Turn
<1>15. k + 1 \in 0..Len(ms) /\ Scanned(Put(g[i + c], b), ms, k + 1, t)
  BY <1>8, <1>13, PutScanned DEF b
<1> QED BY <1>14, <1>15

(* A scan of the beginning of the frames of ms finds the complete ones.      *)
LEMMA ScanFrames ==
    ASSUME NEW s \in Chunk, NEW t \in Chunk, NEW ms \in Seq(Msg), s \o t = Wire(ms)
    PROVE  \E k \in 0..Len(ms) : Scanned(Scan(s), ms, k, t)
<1> DEFINE n == Len(s)
<1>1. PICK g : Scan(s) = g[0] /\ \A i \in 0..n : g[i] = Turn(g, s, i)
  BY ScanExists
<1>2. n \in Nat
  BY LenProperties DEF Chunk
<1>3. ASSUME NEW i \in 0..n, \A j \in (i + 1)..n : ScanRight(g, s, t, j)
      PROVE  ScanRight(g, s, t, i)
  <2>1. g[i] = Turn(g, s, i)
    BY <1>1
  <2>2. CASE More(s, i)
    BY <1>3, <2>1, <2>2, ScanGoesOn
  <2>3. CASE ~More(s, i)
    <3>1. g[i] = Leaf(s, i)
      BY <2>1, <2>3 DEF Turn
    <3> QED BY <2>3, <3>1, ScanStops
  <2> QED BY <2>2, <2>3
<1> HIDE DEF n
<1> DEFINE T == {d \in 0..n : \A j \in (n - d)..n : ScanRight(g, s, t, j)}
<1>4. 0 \in T
  <2>1. ASSUME NEW j \in (n - 0)..n PROVE ScanRight(g, s, t, j)
    <3>1. j = n /\ n \in 0..n /\ \A x \in (n + 1)..n : FALSE
      BY <1>2
    <3> QED BY <1>3, <3>1
  <2> QED BY <1>2, <2>1
<1>5. ASSUME NEW d \in 0..(n - 1), d \in T PROVE d + 1 \in T
  <2> DEFINE m == n - (d + 1)
  <2>1. m \in 0..n /\ m + 1 = n - d /\ d + 1 \in 0..n
    BY <1>2
  <2>2. \A j \in (m + 1)..n : ScanRight(g, s, t, j)
    BY <1>5, <2>1
  <2> HIDE DEF m
  <2>3. ScanRight(g, s, t, m)
    BY <1>3, <2>1, <2>2
  <2>4. ASSUME NEW j \in m..n PROVE ScanRight(g, s, t, j)
    <3>1. j = m \/ j \in (m + 1)..n
      BY <1>2, <2>1
    <3> QED BY <2>2, <2>3, <3>1
  <2> QED BY <2>1, <2>4 DEF m
<1>6. \A d \in 0..(n - 1) : d \in T => d + 1 \in T
  BY <1>5
<1>7. ScanRight(g, s, t, 0)
  <2>1. n \in T
    <3> HIDE DEF T
    <3>1. \A d \in 0..n : d \in T
      BY <1>2, <1>4, <1>6, Fold!Induct
    <3> QED BY <1>2, <3>1
  <2>2. 0 \in (n - n)..n
    BY <1>2
  <2> QED BY <2>1, <2>2
<1>8. SubSeq(s, 0 + 1, Len(s)) = s
  BY SubSeqFull DEF Chunk
<1> QED BY <1>1, <1>7, <1>8 DEF ScanRight

-----------------------------------------------------------------------------
(* Writing. *)

Box == [need: Nat, data: Chunk]
Proto == [out: Seq(Chunk), writing: BOOLEAN, handed: BOOLEAN, closing: BOOLEAN,
          closed: BOOLEAN, head: Chunk, block: Box, sent: Seq(Msg), got: Seq(Msg)]

\* what holds of the writing side of a protocol object
SideOK(p) ==
    /\ p \in Proto
    /\ p.writing <=> p.out # <<>>
    /\ p.closed => p.closing
    /\ Len(FlattenSeq(p.out)) <= SendLimit

\* the bytes that the kernel has not taken
Queued(p) == IF p.writing /\ p.handed THEN Tail(p.out) ELSE p.out
Unsent(p) == FlattenSeq(Queued(p))

\* q has accepted messages that p had not, and queued their frames
Grown(p, q, new) == q.sent = p.sent \o new /\ Unsent(q) = Unsent(p) \o Wire(new)
Grows(p, q) == /\ SideOK(q)
               /\ p.closing => q.closing
               /\ \E new \in Seq(Msg) : Grown(p, q, new)

\* p and q have received the same
Reads(p, q) == q.head = p.head /\ q.block = p.block

(* Merging keeps the bytes, and something to write.                           *)
LEMMA MergedOK ==
    ASSUME NEW out \in Seq(Chunk), out # <<>>
    PROVE  /\ Merged(out) \in Seq(Chunk) /\ Merged(out) # <<>>
           /\ FlattenSeq(Merged(out)) = FlattenSeq(out)
<1>1. CASE ~(Len(out) > 1 /\ Len(out[1]) <= Small)
  BY <1>1 DEF Merged
<1>2. CASE Len(out) > 1 /\ Len(out[1]) <= Small
  <2> DEFINE fits == {k \in 1..Len(out) : Len(FlattenSeq(SubSeq(out, 1, k))) <= MergeLen}
             n == Max(fits)
             x == FlattenSeq(First(out, n))
             a == After(out, n)
             o == <<x>>
  <2>1. Len(out) \in Nat /\ 1 \in 1..Len(out) /\ out[1] \in Chunk
    BY EmptySeq, ElementOfSeq
  <2>2. 1 \in fits
    <3>1. SubSeq(out, 1, 1) = <<out[1]>>
      <4>1. SubSeq(out, 1, 1) = <<out[1]>> \o SubSeq(out, 1 + 1, 1)
        BY <2>1, SubSeqRecursiveFirst
      <4>2. SubSeq(out, 1 + 1, 1) = <<>>
        BY SubSeqEmpty
      <4>3. <<out[1]>> \in Seq(Chunk)
        BY <2>1
      <4> QED BY <4>1, <4>2, <4>3, ConcatEmptySeq
    <3>2. FlattenSeq(<<out[1]>>) = out[1]
      BY <2>1, FlattenFew DEF Chunk
    <3>3. Len(out[1]) \in Nat /\ Len(out[1]) <= MergeLen
      BY <1>2, <2>1, LenProperties, SizeAssumption DEF Chunk
    <3> QED BY <2>1, <3>1, <3>2, <3>3
  <2>3. n \in fits
    <3>1. fits \in SUBSET (1..Len(out)) /\ fits # {}
      BY <2>2
    <3> HIDE DEF fits
    <3>2. Fold!Max(fits) \in fits
      BY <2>1, <3>1, Fold!MaxIn
    <3> QED BY <3>2 DEF Fold!Max, Max
  <2>4. n \in 0..Len(out)
    BY <2>1, <2>3
  <2>5. Merged(out) = o \o a
    BY <1>2 DEF Merged, First, After
  <2> HIDE DEF n, Chunk
  <2>6. First(out, n) \in Seq(Chunk) /\ a \in Seq(Chunk) /\ out = First(out, n) \o a
    BY <2>4, FirstAfter
  <2> HIDE DEF a
  <2>7. x \in Chunk
    BY <2>6, FlattenAppend, EmptySeq DEF Chunk
  <2>8. FlattenSeq(o) = x
    BY <2>7, FlattenFew DEF Chunk
  <2> HIDE DEF x
  <2>9. o \in Seq(Chunk) /\ o # <<>>
    BY <2>7
  <2> HIDE DEF o
  <2>10. FlattenSeq(o \o a) = FlattenSeq(o) \o FlattenSeq(a)
    BY <2>6, <2>9, FlattenConcat DEF Chunk
  <2>11. FlattenSeq(First(out, n) \o a) = FlattenSeq(First(out, n)) \o FlattenSeq(a)
    BY <2>6, FlattenConcat DEF Chunk
  <2>12. o \o a \in Seq(Chunk) /\ o \o a # <<>>
    BY <2>6, <2>9, ConcatProperties, ConcatEqualIffEmpty
  <2> QED BY <2>5, <2>6, <2>8, <2>10, <2>11, <2>12 DEF x
<1> QED BY <1>1, <1>2

(* What is being written is a part of what is queued.                         *)
LEMMA QueuedOK ==
    ASSUME NEW p, SideOK(p)
    PROVE  /\ Queued(p) \in Seq(Chunk) /\ Unsent(p) \in Chunk /\ FlattenSeq(p.out) \in Chunk
           /\ p.out \in Seq(Chunk) /\ p.sent \in Seq(Msg) /\ p.got \in Seq(Msg)
<1>1. p.out \in Seq(Chunk) /\ p.sent \in Seq(Msg) /\ p.got \in Seq(Msg)
  BY DEF SideOK, Proto
<1>2. Queued(p) \in Seq(Chunk)
  BY <1>1, HeadTailProperties DEF Queued, SideOK
<1>3. Unsent(p) \in Chunk /\ FlattenSeq(p.out) \in Chunk
  BY <1>1, <1>2, FlattenAppend, EmptySeq DEF Unsent, Chunk
<1> QED BY <1>1, <1>2, <1>3

(* Nothing new is a way to grow.                                              *)
LEMMA GrowsSame ==
    ASSUME NEW p, SideOK(p), NEW q, SideOK(q), p.closing => q.closing,
           q.sent = p.sent, Unsent(q) = Unsent(p)
    PROVE  Grows(p, q)
<1>1. Grown(p, q, <<>>)
  BY QueuedOK, FramesNone, ConcatEmptySeq DEF Grown, Chunk
<1> QED BY <1>1, EmptySeq DEF Grows

(* Growing twice is growing.                                                  *)
LEMMA GrowsAgain ==
    ASSUME NEW p, SideOK(p), NEW q, Grows(p, q), NEW r, Grows(q, r)
    PROVE  Grows(p, r)
<1>1. PICK a \in Seq(Msg) : Grown(p, q, a)
  BY DEF Grows
<1>2. PICK b \in Seq(Msg) : Grown(q, r, b)
  BY DEF Grows
<1>3. a \o b \in Seq(Msg) /\ Wire(a \o b) = Wire(a) \o Wire(b)
  BY FramesConcat
<1>4. p.sent \in Seq(Msg) /\ Unsent(p) \in Seq(Byte) /\ Wire(a) \in Seq(Byte) /\ Wire(b) \in Seq(Byte)
  BY QueuedOK, FramesOK DEF Chunk
<1>5. (p.sent \o a) \o b = p.sent \o (a \o b)
  <2> DEFINE t == p.sent
  <2>1. t \in Seq(Msg)
    BY <1>4
  <2> HIDE DEF t
  <2>2. (t \o a) \o b = t \o (a \o b)
    <3>1. Joined(t, a, b)
      BY <2>1, Assoc
    <3> QED BY <3>1, Zenon DEF Joined
  <2> QED BY <2>2 DEF t
<1>6. (Unsent(p) \o Wire(a)) \o Wire(b) = Unsent(p) \o (Wire(a) \o Wire(b))
  <2>1. Joined(Unsent(p), Wire(a), Wire(b))
    BY <1>4, Assoc
  <2> QED BY <2>1, Zenon DEF Joined
<1>7. Grown(p, r, a \o b)
  BY <1>1, <1>2, <1>3, <1>5, <1>6, Zenon DEF Grown
<1>8. SideOK(r) /\ (p.closing => r.closing)
  BY DEF Grows
<1> QED BY <1>3, <1>7, <1>8 DEF Grows

(* write_msg.                                                                 *)
LEMMA WriteMsgGrows ==
    ASSUME NEW p, SideOK(p), ~p.closing, NEW m \in Msg
    PROVE  LET q == write_msg(p, m)
           IN  /\ Grows(p, q) /\ Reads(p, q) /\ q.got = p.got /\ q.closing = p.closing
               /\ q.closed = p.closed
<1> DEFINE q == write_msg(p, m)
           b == Bytes(m)
           o == Append(p.out, b)
           d == Append(p.sent, m)
           f == FlattenSeq(p.out)
<1>1. p \in Proto /\ p.out \in Seq(Chunk) /\ p.sent \in Seq(Msg) /\ f \in Chunk
  BY QueuedOK DEF SideOK
<1>2. b \in Chunk /\ Len(b) = HeaderLen + m.len /\ HeaderLen + m.len \in Nat
  BY BytesOK
<1>3. CASE Len(f) + HeaderLen + m.len > SendLimit
  <2>1. q = p
    BY <1>3 DEF write_msg
  <2> QED BY <2>1, GrowsSame DEF Reads
<1>4. CASE ~(Len(f) + HeaderLen + m.len > SendLimit)
  <2>1. q = try_write([p EXCEPT !.out = o, !.sent = d])
    BY <1>4 DEF write_msg
  <2>2. o \in Seq(Chunk) /\ o # <<>> /\ d \in Seq(Msg) /\ d = p.sent \o <<m>>
    <3>1. o \in Seq(Chunk) /\ o # <<>>
      BY <1>1, <1>2, AppendProperties
    <3>2. d \in Seq(Msg)
      BY <1>1, AppendProperties
    <3>3. d = p.sent \o <<m>>
      BY <1>1, AppendIsConcat
    <3> QED BY <3>1, <3>2, <3>3
  <2>3. FlattenSeq(o) = f \o b
    BY <1>1, <1>2, FlattenAppend DEF Chunk
  <2>4. Len(FlattenSeq(o)) <= SendLimit
    <3>1. Len(f \o b) = Len(f) + Len(b) /\ Len(f) \in Nat
      BY <1>1, <1>2, ConcatProperties, LenProperties DEF Chunk
    <3>2. SendLimit \in Nat /\ m.len \in Nat /\ HeaderLen = 2
      BY SizeAssumption DEF HeaderLen, Msg
    <3> QED BY <1>2, <1>4, <2>3, <3>1, <3>2
  <2>5. <<m>> \in Seq(Msg) /\ Wire(<<m>>) = b
    BY FramesFew
  <2> DEFINE new == <<m>>
  <2>6. d = p.sent \o new /\ new \in Seq(Msg) /\ Wire(new) = b
    BY <2>2, <2>5
  <2>7. CASE p.writing
    <3> DEFINE s == [p EXCEPT !.out = o, !.sent = d]
    <3>1. q = s
      BY <2>1, <2>7 DEF try_write
    <3> HIDE DEF q, d, new
    <3>3. Tail(o) = Append(Tail(p.out), b) /\ p.out # <<>>
      BY <1>1, <2>7, HeadTailAppend DEF SideOK
    <3> HIDE DEF o
    <3>2. /\ s \in Proto /\ s.out = o /\ s.sent = d /\ s.writing = p.writing /\ s.handed = p.handed
          /\ s.closing = p.closing /\ s.closed = p.closed /\ s.got = p.got
          /\ s.head = p.head /\ s.block = p.block
      BY <1>1, <2>2 DEF Proto
    <3> HIDE DEF s
    <3>4. SideOK(s)
      BY <2>2, <2>4, <2>7, <3>2 DEF SideOK
    <3>5. Unsent(s) = Unsent(p) \o b
      <4>1. CASE p.handed
        <5>1. Tail(p.out) \in Seq(Chunk)
          BY <1>1, <3>3, HeadTailProperties
        <5>2. FlattenSeq(Append(Tail(p.out), b)) = FlattenSeq(Tail(p.out)) \o b
          BY <1>2, <5>1, FlattenAppend DEF Chunk
        <5> QED BY <2>7, <3>2, <3>3, <4>1, <5>2, Zenon DEF Unsent, Queued
      <4>2. CASE ~p.handed
        BY <2>3, <3>2, <4>2, Zenon DEF Unsent, Queued
      <4> QED BY <4>1, <4>2
    <3>6. Grown(p, s, new)
      BY <2>6, <3>2, <3>5, Zenon DEF Grown
    <3>7. Grows(p, s) /\ Reads(p, s)
      BY <2>6, <3>2, <3>4, <3>6 DEF Grows, Reads
    <3> QED BY <3>1, <3>2, <3>7 DEF q
  <2>8. CASE ~p.writing
    <3> DEFINE g == Merged(o)
               s == [p EXCEPT !.out = g, !.sent = d, !.writing = TRUE, !.handed = FALSE]
    <3>1. q = s
      BY <1>1, <2>1, <2>2, <2>8 DEF try_write, Proto
    <3>2. g \in Seq(Chunk) /\ g # <<>> /\ FlattenSeq(g) = f \o b
      BY <2>2, <2>3, MergedOK
    <3>3. p.out = <<>> /\ f = <<>>
      BY <1>1, <2>8, EmptySeq DEF SideOK, FlattenSeq
    <3> HIDE DEF q, d, new, o, g
    <3>4. /\ s \in Proto /\ s.out = g /\ s.sent = d /\ s.writing /\ ~s.handed
          /\ s.closing = p.closing /\ s.closed = p.closed /\ s.got = p.got
          /\ s.head = p.head /\ s.block = p.block
      BY <1>1, <2>2, <3>2 DEF Proto
    <3> HIDE DEF s
    <3>5. Len(FlattenSeq(s.out)) <= SendLimit
      BY <2>3, <2>4, <3>2, <3>4
    <3>6. SideOK(s)
      BY <3>2, <3>4, <3>5 DEF SideOK
    <3>7. Unsent(s) = f \o b
      BY <3>2, <3>4, Zenon DEF Unsent, Queued
    <3>8. Unsent(p) = f
      BY <2>8, Zenon DEF Unsent, Queued
    <3>9. Grown(p, s, new)
      BY <2>6, <3>4, <3>7, <3>8, Zenon DEF Grown
    <3>10. Grows(p, s) /\ Reads(p, s)
      BY <2>6, <3>4, <3>6, <3>9 DEF Grows, Reads
    <3> QED BY <3>1, <3>4, <3>10 DEF q
  <2> QED BY <2>7, <2>8
<1> QED BY <1>3, <1>4

(* The messages an end makes up.                                              *)
LEMMA MessageOK ==
    ASSUME NEW p, SideOK(p), NEW kind \in Kind, NEW len \in Lens \cup {CtlLen}
    PROVE  Message(p, kind, len) \in Msg
<1>1. Len(p.sent) + 1 \in Nat
  BY QueuedOK, LenProperties
<1>2. len \in Nat \ {0}
  BY SizeAssumption
<1> QED BY <1>1, <1>2 DEF Message, Msg

(* close.                                                                     *)
LEMMA CloseGrows ==
    ASSUME NEW p, SideOK(p), NEW kick \in BOOLEAN
    PROVE  LET q == close(p, kick)
           IN  Grows(p, q) /\ Reads(p, q) /\ q.got = p.got /\ q.closing
<1> DEFINE z == close(p, kick)
<1>1. CASE p.closing
  <2>1. z = p
    BY <1>1 DEF close
  <2> QED BY <1>1, <2>1, GrowsSame DEF Reads
<1>2. CASE ~p.closing
  <2> DEFINE m == Message(p, "kickoff", CtlLen)
             q == IF kick THEN write_msg(p, m) ELSE p
             s == [q EXCEPT !.closing = TRUE, !.closed = ~q.writing]
  <2>1. m \in Msg
    BY MessageOK DEF Kind
  <2>2. z = s
    BY <1>2 DEF close
  <2> HIDE DEF m
  <2>3. Grows(p, q) /\ Reads(p, q) /\ q.got = p.got
    <3>1. CASE kick
      BY <1>2, <2>1, <3>1, WriteMsgGrows
    <3>2. CASE ~kick
      BY <3>2, GrowsSame DEF Reads
    <3> QED BY <3>1, <3>2
  <2> HIDE DEF q, z
  <2>4. SideOK(q) /\ q \in Proto
    BY <2>3 DEF Grows, SideOK
  <2>5. /\ s \in Proto /\ s.closing /\ s.out = q.out /\ s.writing = q.writing /\ s.handed = q.handed
        /\ s.sent = q.sent /\ s.got = q.got /\ s.head = q.head /\ s.block = q.block
    BY <2>4 DEF Proto
  <2> HIDE DEF s
  <2>6. SideOK(s)
    BY <2>4, <2>5 DEF SideOK
  <2>7. Unsent(s) = Unsent(q)
    BY <2>5, Zenon DEF Unsent, Queued
  <2>8. Grows(q, s)
    BY <2>4, <2>5, <2>6, <2>7, GrowsSame
  <2>9. Grows(p, s)
    BY <2>3, <2>8, GrowsAgain
  <2>10. Reads(p, s) /\ s.got = p.got
    BY <2>3, <2>5 DEF Reads
  <2> QED BY <2>2, <2>5, <2>9, <2>10 DEF z
<1> QED BY <1>1, <1>2

(* dispatch_data.                                                             *)
LEMMA DispatchGrows ==
    ASSUME NEW p, SideOK(p), NEW m \in Msg
    PROVE  LET q == dispatch_data(p, m)
           IN  /\ Grows(p, q) /\ Reads(p, q)
               /\ q.got = IF p.closing THEN p.got ELSE Append(p.got, m)
<1> DEFINE z == dispatch_data(p, m)
<1>1. CASE p.closing
  <2>1. z = p
    BY <1>1 DEF dispatch_data
  <2> QED BY <1>1, <2>1, GrowsSame DEF Reads
<1>2. CASE ~p.closing
  <2> DEFINE g == Append(p.got, m)
             q == [p EXCEPT !.got = g]
  <2>1. g \in Seq(Msg) /\ p \in Proto
    BY QueuedOK, AppendProperties DEF SideOK
  <2>2. z = CASE m.kind = "ping" -> write_msg(q, Message(q, "pong", CtlLen))
              [] m.kind = "kickoff" -> close(q, FALSE)
              [] OTHER -> q
    BY <1>2 DEF dispatch_data
  <2>3. q.got = g
    BY <2>1 DEF Proto
  <2> HIDE DEF g
  <2>4. /\ q \in Proto /\ q.closing = p.closing /\ q.closed = p.closed /\ q.out = p.out
        /\ q.writing = p.writing /\ q.handed = p.handed /\ q.sent = p.sent
        /\ q.head = p.head /\ q.block = p.block
    BY <2>1 DEF Proto
  <2> HIDE DEF q, z
  <2>5. SideOK(q)
    BY <2>4 DEF SideOK
  <2>6. Unsent(q) = Unsent(p)
    BY <2>4, Zenon DEF Unsent, Queued
  <2>7. Grows(p, q) /\ Reads(p, q)
    BY <2>4, <2>5, <2>6, GrowsSame DEF Reads
  <2>8. ASSUME NEW t, Grows(q, t) /\ Reads(q, t) /\ t.got = q.got
        PROVE  Grows(p, t) /\ Reads(p, t) /\ t.got = g
    BY <2>3, <2>7, <2>8, GrowsAgain DEF Reads
  <2>9. Grows(q, z) /\ Reads(q, z) /\ z.got = q.got
    <3>1. CASE m.kind = "ping"
      <4> DEFINE w == Message(q, "pong", CtlLen)
      <4>1. w \in Msg /\ z = write_msg(q, w)
        BY <2>2, <2>5, <3>1, MessageOK DEF Kind
      <4> HIDE DEF w
      <4> QED BY <1>2, <2>4, <2>5, <4>1, WriteMsgGrows
    <3>2. CASE m.kind = "kickoff"
      <4> DEFINE no == FALSE
      <4>1. z = close(q, no) /\ no \in BOOLEAN
        BY <2>2, <3>2
      <4> HIDE DEF no
      <4> QED BY <2>5, <4>1, CloseGrows
    <3>3. CASE m.kind # "ping" /\ m.kind # "kickoff"
      <4>1. z = q
        BY <2>2, <3>3
      <4> QED BY <2>5, <4>1, GrowsSame DEF Reads
    <3> QED BY <3>1, <3>2, <3>3
  <2>10. Grows(p, z) /\ Reads(p, z) /\ z.got = g
    BY <2>8, <2>9
  <2> QED BY <1>2, <2>10 DEF g, z
<1> QED BY <1>1, <1>2

-----------------------------------------------------------------------------
(* Dispatching the frames of messages. *)

Reading == [p: {q \in Proto : SideOK(q)}, bad: BOOLEAN]

\* got is what g was, with the first j messages of ms
GotFirst(got, g, ms, j) == got = g \o First(ms, j)

\* x, from p, when the first i of the messages ms have been dispatched; the last of
\* them may have closed p
Ran(p, x, ms, i) ==
    /\ x \in Reading /\ ~x.bad
    /\ Grows(p, x.p) /\ Reads(p, x.p)
    /\ \E j \in 0..i : GotFirst(x.p.got, p.got, ms, j) /\ (~x.p.closing => j = i)

(* A frame of a message is dispatched, unless an earlier one was bad.         *)
LEMMA DispatchFrameOK ==
    ASSUME NEW x \in Reading, NEW m \in Msg
    PROVE  LET y == DispatchFrame(x, Bytes(m))
           IN  /\ y \in Reading /\ y.bad = x.bad
               /\ ~x.bad => y.p = dispatch_data(x.p, m)
<1> DEFINE y == DispatchFrame(x, Bytes(m))
           d == dispatch_data(x.p, m)
<1>1. HashOk(Bytes(m)) /\ Bytes(m)[1][1] = m
  BY BytesOK
<1>2. x.bad \in BOOLEAN /\ x.p \in Proto /\ SideOK(x.p)
  BY DEF Reading
<1>3. SideOK(d)
  BY <1>2, DispatchGrows DEF Grows
<1>4. d \in Proto
  BY <1>3 DEF SideOK
<1>5. y = [p |-> IF x.bad THEN x.p ELSE d, bad |-> x.bad]
  BY <1>1, <1>2 DEF DispatchFrame
<1> HIDE DEF y, d
<1>6. y.bad = x.bad /\ (~x.bad => y.p = d)
  BY <1>5
<1>7. y \in Reading
  BY <1>2, <1>3, <1>4, <1>5 DEF Reading
<1> QED BY <1>6, <1>7 DEF y, d

(* One more message of a sequence.                                            *)
LEMMA FirstStep ==
    ASSUME NEW S, NEW ms \in Seq(S), NEW g \in Seq(S), NEW i \in 0..(Len(ms) - 1),
           NEW h, GotFirst(h, g, ms, i)
    PROVE  /\ i + 1 \in 1..Len(ms) /\ ms[i + 1] \in S
           /\ GotFirst(Append(h, ms[i + 1]), g, ms, i + 1)
<1> DEFINE a == First(ms, i)
           x == ms[i + 1]
           o == <<x>>
<1>1. Len(ms) \in Nat /\ i \in Nat /\ i \in 0..Len(ms) /\ i + 1 \in 1..Len(ms) /\ 1 \in 1..Len(ms)
      /\ (i + 1) - 1 = i
  BY LenProperties
<1>2. x \in S
  BY <1>1, ElementOfSeq
<1>3. SubSeq(ms, 1, i + 1) = SubSeq(ms, 1, (i + 1) - 1) \o <<ms[i + 1]>>
  BY <1>1, SubSeqRecursiveSecond
<1>4. First(ms, i + 1) = a \o o
  BY <1>1, <1>3 DEF First
<1>5. a \in Seq(S)
  BY <1>1, FirstAfter
<1>6. h = g \o a
  BY DEF GotFirst
<1> HIDE DEF a, x
<1>7. o \in Seq(S)
  BY <1>2
<1> HIDE DEF o
<1>8. (g \o a) \o o = g \o (a \o o)
  <2>1. Joined(g, a, o)
    BY <1>5, <1>7, Assoc
  <2> QED BY <2>1, Zenon DEF Joined
<1>9. h \in Seq(S)
  BY <1>5, <1>6, ConcatProperties
<1>10. Append(h, x) = h \o o
  BY <1>2, <1>9, AppendIsConcat DEF o
<1>11. Append(h, x) = g \o First(ms, i + 1)
  BY <1>4, <1>6, <1>8, <1>10, Zenon
<1> QED BY <1>1, <1>2, <1>11 DEF GotFirst, x

(* The next message.                                                          *)
LEMMA RanNext ==
    ASSUME NEW p, SideOK(p), NEW ms \in Seq(Msg), NEW i \in 0..(Len(ms) - 1),
           NEW x, Ran(p, x, ms, i), NEW y, y = DispatchFrame(x, Bytes(ms[i + 1]))
    PROVE  Ran(p, y, ms, i + 1)
<1> DEFINE m == ms[i + 1]
<1>1. PICK j \in 0..i : GotFirst(x.p.got, p.got, ms, j) /\ (~x.p.closing => j = i)
  BY DEF Ran
<1>2. i + 1 \in 1..Len(ms) /\ m \in Msg /\ i \in Nat
  BY LenProperties, ElementOfSeq
<1>3. x \in Reading /\ ~x.bad /\ Grows(p, x.p) /\ Reads(p, x.p) /\ SideOK(x.p)
  BY DEF Ran, Reading
<1> HIDE DEF m
<1>4. y \in Reading /\ ~y.bad /\ y.p = dispatch_data(x.p, m)
  BY <1>2, <1>3, DispatchFrameOK DEF m
<1>5. /\ Grows(x.p, y.p) /\ Reads(x.p, y.p)
      /\ y.p.got = IF x.p.closing THEN x.p.got ELSE Append(x.p.got, m)
  BY <1>2, <1>3, <1>4, DispatchGrows
<1>6. Grows(p, y.p) /\ Reads(p, y.p)
  BY <1>3, <1>5, GrowsAgain DEF Reads
<1>7. \E k \in 0..(i + 1) : GotFirst(y.p.got, p.got, ms, k) /\ (~y.p.closing => k = i + 1)
  <2>1. CASE x.p.closing
    <3>1. y.p.closing
      BY <1>5, <2>1 DEF Grows
    <3>2. y.p.got = x.p.got
      BY <1>5, <2>1
    <3>3. j \in 0..(i + 1)
      BY <1>2
    <3> QED BY <1>1, <3>1, <3>2, <3>3
  <2>2. CASE ~x.p.closing
    <3>1. y.p.got = Append(x.p.got, m) /\ GotFirst(x.p.got, p.got, ms, i)
      BY <1>1, <1>5, <2>2
    <3>2. p.got \in Seq(Msg)
      BY QueuedOK
    <3>3. GotFirst(Append(x.p.got, m), p.got, ms, i + 1)
      BY <3>1, <3>2, FirstStep DEF m
    <3>4. i + 1 \in 0..(i + 1)
      BY <1>2
    <3> QED BY <3>1, <3>3, <3>4
  <2> QED BY <2>1, <2>2
<1> QED BY <1>4, <1>6, <1>7 DEF Ran

(* All the messages.                                                          *)
LEMMA RanAll ==
    ASSUME NEW p, SideOK(p), NEW ms \in Seq(Msg)
    PROVE  Ran(p, FoldLeft(DispatchFrame, [p |-> p, bad |-> FALSE], Frames(ms)), ms, Len(ms))
<1> DEFINE C == {Bytes(m) : m \in Msg}
           base == [p |-> p, bad |-> FALSE]
           fr == Frames(ms)
           n == Len(ms)
<1>1. n \in Nat /\ \A i \in 1..n : ms[i] \in Msg
  BY LenProperties, ElementOfSeq
<1>2. base \in Reading
  BY DEF Reading, SideOK
<1>3. fr \in Seq(C) /\ Len(fr) = n /\ \A i \in 1..n : fr[i] = Bytes(ms[i])
  <2>1. fr = [i \in 1..n |-> Bytes(ms[i])]
    BY DEF Frames
  <2>2. \A i \in 1..n : Bytes(ms[i]) \in C
    BY <1>1
  <2> HIDE DEF C, fr, n
  <2>3. fr \in [1..n -> C]
    BY <2>1, <2>2
  <2> QED BY <1>1, <2>1, <2>3
<1>4. \A x \in Reading, c \in C : DispatchFrame(x, c) \in Reading
  BY DispatchFrameOK
<1>5. base.p = p /\ ~base.bad
  OBVIOUS
<1> HIDE DEF base, fr, C
<1>6. PICK f : Fold!Trace(f, Reading, base, fr) /\ Fold!Folded(base, fr) = f[n]
  BY <1>2, <1>3, <1>4, Fold!FoldOp
<1>7. Fold!Folded(base, fr) = FoldLeft(DispatchFrame, base, fr)
  BY Zenon DEF Fold!Folded, Fold!FoldLeft, FoldLeft, Fold!MapThenFoldSet, MapThenFoldSet,
               Fold!Max, Max
<1>8. f[0] = base /\ \A k \in 1..n : f[k] = DispatchFrame(f[k - 1], fr[k])
  BY <1>3, <1>6 DEF Fold!Trace
<1> DEFINE T == {i \in 0..n : Ran(p, f[i], ms, i)}
<1>9. 0 \in T
  <2>1. GotFirst(p.got, p.got, ms, 0)
    <3>1. First(ms, 0) = <<>>
      BY SubSeqEmpty DEF First
    <3>2. p.got \in Seq(Msg)
      BY QueuedOK
    <3> QED BY <3>1, <3>2, ConcatEmptySeq DEF GotFirst
  <2>2. Grows(p, p) /\ Reads(p, p)
    BY GrowsSame DEF Reads
  <2>3. 0 \in 0..0 /\ 0 \in 0..n
    BY <1>1
  <2>4. Ran(p, f[0], ms, 0)
    BY <1>2, <1>5, <1>8, <2>1, <2>2, <2>3 DEF Ran
  <2> QED BY <2>3, <2>4
<1>10. ASSUME NEW i \in 0..(n - 1), i \in T PROVE i + 1 \in T
  <2>1. i + 1 \in 1..n /\ (i + 1) - 1 = i /\ i + 1 \in 0..n
    BY <1>1
  <2>2. f[i + 1] = DispatchFrame(f[i], Bytes(ms[i + 1]))
    BY <1>3, <1>8, <2>1
  <2>3. Ran(p, f[i + 1], ms, i + 1)
    BY <1>10, <2>2, RanNext
  <2> QED BY <2>1, <2>3
<1>11. n \in T
  <2> HIDE DEF T, n
  <2>1. \A i \in 0..(n - 1) : i \in T => i + 1 \in T
    BY <1>10
  <2>2. \A i \in 0..n : i \in T
    BY <1>1, <1>9, <2>1, Fold!Induct
  <2> QED BY <1>1, <2>2
<1> QED BY <1>6, <1>7, <1>11 DEF base, fr

-----------------------------------------------------------------------------
(* Reading. *)

\* what holds of the reading side of a protocol object that is not closing
RecvOK(p) ==
    \/ p.block = NoBlock /\ Len(p.head) <= 2
    \/ /\ p.block # NoBlock /\ p.head = <<>>
       /\ Len(p.block.data) > 2 /\ p.block.need = 2 + p.block.data[2][1].len
       /\ Len(p.block.data) < p.block.need

Held(p) == p.head \o p.block.data

\* after read, from p, in state r: the first j of the messages ms have been dispatched, and,
\* unless the end is to close, what it holds and the bytes t to come are those of the others
Taken(p, r, ms, j, t) ==
    /\ r \in Reading /\ Grows(p, r.p)
    /\ GotFirst(r.p.got, p.got, ms, j)
    /\ r.bad \/ r.p.closing \/ (RecvOK(r.p) /\ Held(r.p) \o t = Wire(After(ms, j)))

Receive(q, h, b) == [q EXCEPT !.head = h, !.block = b]

(* What is written does not depend on what is being received.                 *)
LEMMA SetRead ==
    ASSUME NEW q, SideOK(q), NEW h \in Chunk, NEW b \in Box
    PROVE  LET r == Receive(q, h, b)
           IN  /\ r \in Proto /\ SideOK(r) /\ Grows(q, r) /\ r.got = q.got /\ r.closing = q.closing
               /\ r.head = h /\ r.block = b
<1> DEFINE r == Receive(q, h, b)
<1>1. q \in Proto
  BY DEF SideOK
<1>2. /\ r \in Proto /\ r.closing = q.closing /\ r.closed = q.closed /\ r.out = q.out
      /\ r.writing = q.writing /\ r.handed = q.handed /\ r.sent = q.sent /\ r.got = q.got
      /\ r.head = h /\ r.block = b
  BY <1>1 DEF Proto, Receive
<1> HIDE DEF r
<1>3. SideOK(r)
  BY <1>2 DEF SideOK
<1>4. Unsent(r) = Unsent(q)
  BY <1>2, Zenon DEF Unsent, Queued
<1>5. Grows(q, r)
  BY <1>2, <1>3, <1>4, GrowsSame
<1> QED BY <1>2, <1>3, <1>5 DEF r

(* The first of the first.                                                    *)
LEMMA FirstFirst ==
    ASSUME NEW S, NEW ms \in Seq(S), NEW k \in 0..Len(ms), NEW j \in 0..k
    PROVE  First(First(ms, k), j) = First(ms, j)
<1> DEFINE a == First(ms, k)
           b == First(a, j)
           c == First(ms, j)
<1>1. Len(ms) \in Nat /\ k \in Nat /\ j \in Nat /\ j \in 0..Len(ms)
  BY LenProperties
<1>2. a \in Seq(S) /\ Len(a) = k /\ \A i \in 1..k : a[i] = ms[i]
  BY FirstAfter
<1>3. c \in Seq(S) /\ Len(c) = j /\ \A i \in 1..j : c[i] = ms[i]
  BY <1>1, FirstAfter
<1> HIDE DEF a, c
<1>4. j \in 0..Len(a)
  BY <1>2
<1>5. b \in Seq(S) /\ Len(b) = j /\ \A i \in 1..j : b[i] = a[i]
  BY <1>2, <1>4, FirstAfter
<1> HIDE DEF b
<1>6. ASSUME NEW i \in 1..j PROVE b[i] = c[i]
  <2>1. i \in 1..k
    BY <1>1
  <2> QED BY <1>2, <1>3, <1>5, <2>1
<1> QED BY <1>3, <1>5, <1>6, SeqEqual DEF a, b, c

\* a head buffer h and a block b that hold the bytes rest
Holding(h, b, rest) ==
    /\ h \o b.data = rest
    /\ \/ b = NoBlock /\ Len(h) <= 2
       \/ /\ b # NoBlock /\ h = <<>> /\ b.data = rest
          /\ Len(rest) > 2 /\ b.need = 2 + rest[2][1].len

(* A head buffer and a block with the rest of the bytes.                      *)
LEMMA TakenSet ==
    ASSUME NEW p, SideOK(p), NEW ms, NEW j, NEW t, NEW q, SideOK(q), Grows(p, q),
           GotFirst(q.got, p.got, ms, j),
           NEW rest, Len(rest) > 2 => Len(rest) < 2 + rest[2][1].len,
           ~q.closing => rest \o t = Wire(After(ms, j)),
           NEW h \in Chunk, NEW b \in Box, NEW bad \in BOOLEAN, bad \/ Holding(h, b, rest),
           NEW y, y = [p |-> Receive(q, h, b), bad |-> bad]
    PROVE  Taken(p, y, ms, j, t)
<1> DEFINE r == Receive(q, h, b)
<1>1. /\ r \in Proto /\ SideOK(r) /\ Grows(q, r) /\ r.got = q.got /\ r.closing = q.closing
      /\ r.head = h /\ r.block = b
  BY SetRead
<1>2. y = [p |-> r, bad |-> bad]
  OBVIOUS
<1> HIDE DEF r
<1>3. y \in Reading /\ y.p = r /\ y.bad = bad
  BY <1>1, <1>2 DEF Reading
<1>4. Grows(p, r)
  BY <1>1, GrowsAgain
<1>5. ASSUME ~bad, ~r.closing PROVE RecvOK(r) /\ Held(r) \o t = Wire(After(ms, j))
  <2>1. Holding(h, b, rest)
    BY <1>5
  <2>2. Held(r) = rest
    BY <1>1, <2>1 DEF Held, Holding
  <2>3. RecvOK(r)
    BY <1>1, <2>1 DEF RecvOK, Holding
  <2>4. rest \o t = Wire(After(ms, j))
    BY <1>1, <1>5
  <2> QED BY <2>2, <2>3, <2>4
<1> QED BY <1>1, <1>3, <1>4, <1>5 DEF Taken

(* The head buffer after the complete messages are gone.                      *)
LEMMA SettleOK ==
    ASSUME NEW p, SideOK(p), NEW ms \in Seq(Msg), NEW j, NEW t,
           NEW x \in Reading, ~x.bad, Grows(p, x.p), x.p.block = NoBlock,
           GotFirst(x.p.got, p.got, ms, j),
           NEW rest \in Chunk, Len(rest) > 2 => Len(rest) < 2 + rest[2][1].len,
           ~x.p.closing => rest \o t = Wire(After(ms, j))
    PROVE  Taken(p, Settle(x, rest), ms, j, t)
<1> DEFINE y == Settle(x, rest)
           q == x.p
           l == rest[2][1].len
<1>1. SideOK(q) /\ q \in Proto /\ x.bad \in BOOLEAN /\ x = [p |-> q, bad |-> x.bad]
  BY DEF Reading
<1>2. Len(rest) \in Nat /\ <<>> \in Chunk /\ rest \o <<>> = rest /\ <<>> \o rest = rest
  BY LenProperties, EmptySeq, ConcatEmptySeq DEF Chunk
<1>3. NoBlock \in Box
  BY <1>2 DEF NoBlock, Box
<1>4. ASSUME NEW h \in Chunk, NEW b \in Box, NEW bad \in BOOLEAN,
             y = [p |-> Receive(q, h, b), bad |-> bad], bad \/ Holding(h, b, rest)
      PROVE  Taken(p, y, ms, j, t)
  BY <1>1, <1>4, TakenSet
<1>5. CASE Len(rest) <= 2
  <2>1. y = [p |-> Receive(q, rest, NoBlock), bad |-> FALSE]
    BY <1>1, <1>5 DEF Settle, HeaderLen, Proto, Receive
  <2>2. NoBlock.data = <<>>
    BY DEF NoBlock
  <2> HIDE DEF y, q
  <2> DEFINE no == FALSE
  <2>3. ~no /\ no \in BOOLEAN /\ y = [p |-> Receive(q, rest, NoBlock), bad |-> no]
    BY <2>1
  <2> HIDE DEF no
  <2>4. Holding(rest, NoBlock, rest)
    BY <1>2, <1>5, <2>2 DEF Holding
  <2> QED BY <1>3, <1>4, <2>3, <2>4 DEF y
<1>6. CASE Len(rest) > 2
  <2> DEFINE need == 2 + l
  <2>1. rest[2] \in Byte
    <3>1. 2 \in 1..Len(rest)
      BY <1>2, <1>6
    <3> QED BY <3>1, ElementOfSeq DEF Chunk
  <2>2. l \in Nat /\ l >= 1
    BY <2>1 DEF Byte, Msg
  <2>3. need \in Nat /\ need > 0
    BY <2>2
  <2>4. CASE need <= RecvLimit
    <3> DEFINE b == [need |-> need, data |-> rest]
    <3>1. y = [p |-> Receive(q, <<>>, b), bad |-> FALSE]
      <4>1. ~(Len(rest) <= HeaderLen) /\ HeaderLen + LengthAt(rest, 0) = need
        BY <1>2, <1>6 DEF HeaderLen, LengthAt
      <4>2. y = [x EXCEPT !.p.head = <<>>, !.p.block = b]
        BY <2>4, <4>1 DEF Settle
      <4> HIDE DEF b, y
      <4> QED BY <1>1, <4>2 DEF Proto, Receive
    <3>2. b \in Box /\ b # NoBlock /\ b.need = need /\ b.data = rest
      BY <2>3 DEF Box, NoBlock
    <3> HIDE DEF y, q, b
    <3> DEFINE no == FALSE
    <3>3. ~no /\ no \in BOOLEAN /\ y = [p |-> Receive(q, <<>>, b), bad |-> no]
      BY <3>1
    <3> HIDE DEF no
    <3>4. Holding(<<>>, b, rest)
      BY <1>2, <1>6, <3>2 DEF Holding
    <3> QED BY <1>2, <1>4, <3>2, <3>3, <3>4 DEF y
  <2>5. CASE ~(need <= RecvLimit)
    <3> DEFINE h == SubSeq(rest, HeaderLen + 1, Len(rest))
    <3>1. h \in Chunk
      <4>1. 2 \in 0..Len(rest)
        BY <1>2, <1>6
      <4> QED BY <4>1, Cut DEF Chunk, HeaderLen
    <3>2. y = [p |-> Receive(q, h, NoBlock), bad |-> TRUE]
      <4>1. ~(Len(rest) <= HeaderLen) /\ HeaderLen + LengthAt(rest, 0) = need
        BY <1>2, <1>6 DEF HeaderLen, LengthAt
      <4>2. y = [x EXCEPT !.p.head = h, !.bad = TRUE]
        BY <2>5, <4>1 DEF Settle
      <4> HIDE DEF h, y
      <4> QED BY <1>1, <4>2 DEF Proto, Receive
    <3> HIDE DEF y, q, h
    <3> DEFINE yes == TRUE
    <3>3. yes /\ yes \in BOOLEAN /\ y = [p |-> Receive(q, h, NoBlock), bad |-> yes]
      BY <3>2
    <3> HIDE DEF yes
    <3> QED BY <1>3, <1>4, <3>1, <3>3 DEF y
  <2> QED BY <2>4, <2>5
<1> QED BY <1>2, <1>5, <1>6

(* ReadHead.                                                                  *)
LEMMA ReadHeadOK ==
    ASSUME NEW p, SideOK(p), p.block = NoBlock, NEW bytes \in Chunk, NEW t \in Chunk,
           NEW ms \in Seq(Msg), (p.head \o bytes) \o t = Wire(ms)
    PROVE  \E j \in 0..Len(ms) : Taken(p, ReadHead(p, bytes), ms, j, t)
<1> DEFINE s == p.head \o bytes
           sc == Scan(s)
<1>1. p.head \in Chunk
  BY DEF SideOK, Proto
<1>2. s \in Chunk
  BY <1>1, ConcatProperties DEF Chunk
<1>3. s \o t = Wire(ms)
  OBVIOUS
<1>4. ReadHead(p, bytes) =
         Settle(FoldLeft(DispatchFrame, [p |-> p, bad |-> FALSE], sc.frames), sc.rest)
  BY DEF ReadHead
<1> HIDE DEF s
<1>5. PICK k \in 0..Len(ms) : Scanned(sc, ms, k, t)
  BY <1>2, <1>3, ScanFrames
<1> DEFINE a == First(ms, k)
           x == FoldLeft(DispatchFrame, [p |-> p, bad |-> FALSE], sc.frames)
           rest == sc.rest
<1>6. a \in Seq(Msg) /\ Len(a) = k
  BY FirstAfter
<1>7. sc.frames = Frames(a) /\ rest \o t = Wire(After(ms, k)) /\ rest \in Chunk
  BY <1>5 DEF Scanned, ScanResult, First, After
<1>8. Len(rest) > 2 => Len(rest) < 2 + rest[2][1].len
  BY <1>5 DEF Scanned, HeaderLen, LengthAt
<1> HIDE DEF sc, rest
<1>9. Ran(p, x, a, k)
  BY <1>6, <1>7, RanAll
<1> HIDE DEF a, x
<1>10. PICK j \in 0..k : GotFirst(x.p.got, p.got, a, j) /\ (~x.p.closing => j = k)
  BY <1>9 DEF Ran
<1>11. x \in Reading /\ ~x.bad /\ Grows(p, x.p) /\ x.p.block = NoBlock
  BY <1>9 DEF Ran, Reads
<1>12. j \in 0..Len(ms)
  <2>1. Len(ms) \in Nat
    BY LenProperties
  <2> QED BY <2>1
<1>13. GotFirst(x.p.got, p.got, ms, j)
  <2>1. First(a, j) = First(ms, j)
    BY FirstFirst DEF a
  <2> QED BY <1>10, <2>1 DEF GotFirst
<1>14. ~x.p.closing => rest \o t = Wire(After(ms, j))
  BY <1>7, <1>10
<1>15. Taken(p, Settle(x, rest), ms, j, t)
  BY <1>7, <1>8, <1>11, <1>13, <1>14, SettleOK
<1> QED BY <1>4, <1>12, <1>15 DEF x, rest

(* ReadBlock, while the block is not complete.                                *)
LEMMA ReadBlockMore ==
    ASSUME NEW p, SideOK(p), p.block # NoBlock, RecvOK(p), NEW bytes \in Chunk, NEW t \in Chunk,
           NEW ms \in Seq(Msg), (p.block.data \o bytes) \o t = Wire(ms),
           Len(p.block.data \o bytes) < p.block.need
    PROVE  Taken(p, ReadBlock(p, bytes), ms, 0, t)
<1> DEFINE c == p.block
           a == c.data
           d == a \o bytes
           b == [need |-> c.need, data |-> d]
           y == ReadBlock(p, bytes)
<1>1. p \in Proto /\ p.head \in Chunk /\ c \in Box /\ c = [need |-> c.need, data |-> a]
      /\ c.need \in Nat /\ a \in Chunk
  BY DEF SideOK, Proto, Box
<1>2. /\ d \in Chunk /\ Len(d) = Len(a) + Len(bytes) /\ Len(a) \in Nat /\ Len(bytes) \in Nat
      /\ \A i \in 1..(Len(a) + Len(bytes)) : d[i] = IF i <= Len(a) THEN a[i] ELSE bytes[i - Len(a)]
  BY <1>1, ConcatProperties, LenProperties DEF Chunk
<1>3. p.head = <<>> /\ Len(a) > 2 /\ c.need = 2 + a[2][1].len
  BY DEF RecvOK
<1>4. d \o t = Wire(ms) /\ Len(d) < c.need
  OBVIOUS
<1>5. y = [p |-> [p EXCEPT !.block.data = d], bad |-> FALSE]
  BY <1>4 DEF ReadBlock
<1> HIDE DEF d, y
<1>6. [p EXCEPT !.block.data = d] = [p EXCEPT !.block = b]
  <2>1. [c EXCEPT !.data = d] = b
    <3>1. c \in Box
      BY <1>1
    <3> HIDE DEF a, c
    <3> QED BY <3>1 DEF Box
  <2> HIDE DEF b
  <2> QED BY <2>1, Zenon
<1>7. b \in Box /\ b.data = d /\ b.need = c.need
  BY <1>1, <1>2 DEF Box
<1>8. d[2] = a[2] /\ Len(d) > 2
  <2> DEFINE la == Len(a)
             lb == Len(bytes)
  <2>1. la \in Nat /\ lb \in Nat /\ la > 2 /\ Len(d) = la + lb
    BY <1>2, <1>3
  <2>2. \A i \in 1..(la + lb) : i <= la => d[i] = a[i]
    BY <1>2
  <2> HIDE DEF a, d, la, lb
  <2>3. 2 \in 1..(la + lb) /\ 2 <= la /\ la + lb > 2
    BY <2>1
  <2>4. d[2] = a[2]
    BY <2>2, <2>3
  <2> QED BY <2>1, <2>3, <2>4
<1>9. b # NoBlock
  BY <1>7, <1>8, EmptySeq DEF NoBlock
<1>10. [p EXCEPT !.block = b] = Receive(p, <<>>, b)
  <2> HIDE DEF b
  <2> QED BY <1>1, <1>3 DEF Receive, Proto
<1> HIDE DEF b, a, c
<1>11. <<>> \o d = d /\ <<>> \in Chunk
  BY <1>2, ConcatEmptySeq, EmptySeq DEF Chunk
<1>12. Holding(<<>>, b, d)
  BY <1>3, <1>7, <1>8, <1>9, <1>11 DEF Holding
<1>13. After(ms, 0) = ms /\ GotFirst(p.got, p.got, ms, 0)
  <2>1. SubSeq(ms, 0 + 1, Len(ms)) = ms /\ First(ms, 0) = <<>>
    BY SubSeqFull, SubSeqEmpty DEF First
  <2>2. p.got \in Seq(Msg)
    BY QueuedOK
  <2> QED BY <2>1, <2>2, ConcatEmptySeq DEF After, GotFirst
<1> DEFINE no == FALSE
<1>14. no \in BOOLEAN /\ y = [p |-> Receive(p, <<>>, b), bad |-> no]
  BY <1>5, <1>6, <1>10
<1> HIDE DEF no
<1>15. Len(d) < 2 + d[2][1].len /\ Grows(p, p)
  BY <1>3, <1>4, <1>8, GrowsSame
<1>16. d \o t = Wire(After(ms, 0))
  BY <1>4, <1>13
<1> QED BY <1>7, <1>11, <1>12, <1>13, <1>14, <1>15, <1>16, TakenSet DEF y

(* After the first message.                                                   *)
LEMMA AfterFirst ==
    ASSUME NEW ms \in Seq(Msg), ms # <<>>
    PROVE  After(ms, 1) = Tail(ms)
<1>1. Tail(ms) = SubSeq(ms, 2, Len(ms))
  BY TailIsSubSeq
<1>2. 1 + 1 = 2
  OBVIOUS
<1> QED BY <1>1, <1>2, Zenon DEF After

(* ReadBlock, when the block is complete.                                     *)
LEMMA ReadBlockDone ==
    ASSUME NEW p, SideOK(p), ~p.closing, p.block # NoBlock, RecvOK(p), NEW bytes \in Chunk,
           NEW t \in Chunk, NEW ms \in Seq(Msg), (p.block.data \o bytes) \o t = Wire(ms),
           Len(p.block.data \o bytes) = p.block.need
    PROVE  1 \in 0..Len(ms) /\ Taken(p, ReadBlock(p, bytes), ms, 1, t)
<1> DEFINE a == p.block.data
           d == a \o bytes
           x == [p |-> p, bad |-> FALSE]
           z == DispatchFrame(x, d)
           y == ReadBlock(p, bytes)
<1>1. p \in Proto /\ a \in Chunk /\ p.block.need \in Nat
  BY DEF SideOK, Proto, Box
<1>2. /\ d \in Chunk /\ Len(d) = Len(a) + Len(bytes) /\ Len(a) \in Nat /\ Len(bytes) \in Nat
      /\ \A i \in 1..(Len(a) + Len(bytes)) : d[i] = IF i <= Len(a) THEN a[i] ELSE bytes[i - Len(a)]
  BY <1>1, ConcatProperties, LenProperties DEF Chunk
<1>3. p.head = <<>> /\ Len(a) > 2 /\ p.block.need = 2 + a[2][1].len
  BY DEF RecvOK
<1>4. d \o t = Wire(ms) /\ Len(d) = p.block.need
  OBVIOUS
<1>5. y = [z EXCEPT !.p.block = NoBlock]
  BY <1>1, <1>4 DEF ReadBlock
<1> HIDE DEF a, d, y
<1>6. d[2] = a[2] /\ Len(d) > 2
  <2> DEFINE la == Len(a)
             lb == Len(bytes)
  <2>1. la \in Nat /\ lb \in Nat /\ la > 2 /\ Len(d) = la + lb
    BY <1>2, <1>3
  <2>2. \A i \in 1..(la + lb) : i <= la => d[i] = a[i]
    BY <1>2
  <2> HIDE DEF a, d, la, lb
  <2>3. 2 \in 1..(la + lb) /\ 2 <= la /\ la + lb > 2
    BY <2>1
  <2>4. d[2] = a[2]
    BY <2>2, <2>3
  <2> QED BY <2>1, <2>3, <2>4
<1>7. Len(d) = 2 + d[2][1].len
  BY <1>3, <1>4, <1>6
<1>8. /\ ms # <<>> /\ Len(Bytes(ms[1])) = 2 + d[2][1].len
      /\ Bytes(ms[1]) = First(d, Len(Bytes(ms[1])))
      /\ After(d, Len(Bytes(ms[1]))) \o t = Wire(Tail(ms))
  <2>1. Len(d) >= 2 + d[2][1].len
    BY <1>2, <1>7
  <2> QED BY <1>2, <1>4, <1>6, <2>1, FirstFrame
<1>9. ms[1] \in Msg /\ Tail(ms) \in Seq(Msg) /\ Len(ms) \in Nat \ {0}
  BY <1>8, FramesFirst
<1>10. d = Bytes(ms[1]) /\ Wire(Tail(ms)) = t
  <2>1. First(d, Len(d)) = d /\ After(d, Len(d)) = <<>>
    BY <1>2, SubSeqFull, SubSeqEmpty DEF First, After, Chunk
  <2>2. <<>> \o t = t
    BY ConcatEmptySeq DEF Chunk
  <2> QED BY <1>7, <1>8, <2>1, <2>2
<1>11. x \in Reading /\ ~x.bad /\ x.p = p
  BY <1>1 DEF Reading
<1> HIDE DEF x
<1>12. z \in Reading /\ ~z.bad /\ z.p = dispatch_data(p, ms[1])
  BY <1>9, <1>10, <1>11, DispatchFrameOK
<1> HIDE DEF z
<1> DEFINE q == z.p
<1>13. SideOK(q) /\ Grows(p, q) /\ Reads(p, q) /\ q.got = Append(p.got, ms[1]) /\ q \in Proto
  <2> DEFINE w == dispatch_data(p, ms[1])
  <2>1. Grows(p, w) /\ Reads(p, w) /\ w.got = Append(p.got, ms[1])
    BY <1>9, DispatchGrows
  <2>2. q = w
    BY <1>12
  <2> HIDE DEF w, q
  <2>3. SideOK(q)
    BY <2>1, <2>2 DEF Grows
  <2>4. q \in Proto
    BY <2>3 DEF SideOK
  <2> QED BY <2>1, <2>2, <2>3, <2>4
<1>14. p.got \in Seq(Msg) /\ GotFirst(p.got, p.got, ms, 0)
  <2>1. First(ms, 0) = <<>>
    BY SubSeqEmpty DEF First
  <2>2. p.got \in Seq(Msg)
    BY QueuedOK
  <2> QED BY <2>1, <2>2, ConcatEmptySeq DEF GotFirst
<1>15. GotFirst(q.got, p.got, ms, 1)
  <2>1. 0 \in 0..(Len(ms) - 1)
    BY <1>9
  <2>2. GotFirst(Append(p.got, ms[0 + 1]), p.got, ms, 0 + 1)
    BY <1>14, <2>1, FirstStep
  <2> QED BY <1>13, <2>2
<1>16. z = [p |-> q, bad |-> FALSE]
  BY <1>12 DEF Reading
<1> HIDE DEF q
<1>17. y = [p |-> [q EXCEPT !.block = NoBlock], bad |-> FALSE]
  BY <1>5, <1>16
<1>18. [q EXCEPT !.block = NoBlock] = Receive(q, <<>>, NoBlock)
  BY <1>3, <1>13 DEF Reads, Receive, Proto
<1>19. <<>> \in Chunk /\ NoBlock \in Box /\ NoBlock.data = <<>> /\ <<>> \o <<>> = <<>> /\ Len(<<>>) = 0
  BY EmptySeq, ConcatEmptySeq DEF Chunk, Box, NoBlock
<1>20. Holding(<<>>, NoBlock, <<>>)
  BY <1>19 DEF Holding
<1> DEFINE no == FALSE
<1>21. no \in BOOLEAN /\ y = [p |-> Receive(q, <<>>, NoBlock), bad |-> no]
  BY <1>17, <1>18
<1> HIDE DEF no
<1>22. After(ms, 1) = Tail(ms)
  BY <1>8, AfterFirst
<1>23. <<>> \o t = Wire(After(ms, 1))
  BY <1>10, <1>22, ConcatEmptySeq DEF Chunk
<1>24. Len(<<>>) > 2 => Len(<<>>) < 2 + <<>>[2][1].len
  BY <1>19
<1>25. Taken(p, y, ms, 1, t)
  <2> DEFINE e == <<>>
  <2>1. /\ e \in Chunk /\ Holding(e, NoBlock, e) /\ e \o t = Wire(After(ms, 1))
        /\ (Len(e) > 2 => Len(e) < 2 + e[2][1].len)
        /\ y = [p |-> Receive(q, e, NoBlock), bad |-> no]
    BY <1>19, <1>20, <1>21, <1>23, <1>24
  <2> HIDE DEF e
  <2> QED BY <1>13, <1>15, <1>19, <1>21, <2>1, TakenSet
<1>26. 1 \in 0..Len(ms)
  BY <1>9
<1> QED BY <1>25, <1>26 DEF y

(* read.                                                                      *)
LEMMA ReadOK ==
    ASSUME NEW p, SideOK(p), ~p.closing, RecvOK(p), NEW bytes \in Chunk, Len(bytes) <= Room(p),
           NEW t \in Chunk, NEW ms \in Seq(Msg), (Held(p) \o bytes) \o t = Wire(ms)
    PROVE  \E j \in 0..Len(ms) : Taken(p, read(p, bytes), ms, j, t)
<1>1. p.head \in Chunk /\ p.block.data \in Chunk /\ p.block.need \in Nat
  BY DEF SideOK, Proto, Box
<1>2. CASE p.block = NoBlock
  <2>1. Held(p) = p.head
    BY <1>1, <1>2, ConcatEmptySeq DEF Held, NoBlock, Chunk
  <2>2. read(p, bytes) = ReadHead(p, bytes)
    BY <1>2 DEF read
  <2> QED BY <1>2, <2>1, <2>2, ReadHeadOK
<1>3. CASE p.block # NoBlock
  <2> DEFINE a == p.block.data
             n == p.block.need
  <2>1. Held(p) = a
    BY <1>1, <1>3, ConcatEmptySeq DEF Held, RecvOK, Chunk
  <2>2. read(p, bytes) = ReadBlock(p, bytes)
    BY <1>3 DEF read
  <2>3. Len(a \o bytes) = Len(a) + Len(bytes) /\ Len(a) \in Nat /\ Len(bytes) \in Nat /\ n \in Nat
    BY <1>1, ConcatProperties, LenProperties DEF Chunk
  <2>4. Len(bytes) <= n - Len(a)
    BY <1>3 DEF Room
  <2>5. Len(a \o bytes) < n \/ Len(a \o bytes) = n
    <3> DEFINE x == Len(a \o bytes)
               k == Len(a)
               l == Len(bytes)
    <3>1. x = k + l /\ k \in Nat /\ l \in Nat /\ n \in Nat /\ l <= n - k
      BY <2>3, <2>4
    <3> HIDE DEF a, n, x, k, l
    <3>2. x < n \/ x = n
      BY ONLY <3>1
    <3> QED BY <3>2 DEF x
  <2>6. CASE Len(a \o bytes) < n
    <3>1. Taken(p, ReadBlock(p, bytes), ms, 0, t)
      BY <1>3, <2>1, <2>6, ReadBlockMore
    <3>2. 0 \in 0..Len(ms)
      BY LenProperties
    <3> QED BY <2>2, <3>1, <3>2
  <2>7. CASE Len(a \o bytes) = n
    BY <1>3, <2>1, <2>2, <2>7, ReadBlockDone
  <2> QED BY <2>5, <2>6, <2>7
<1> QED BY <1>2, <1>3

-----------------------------------------------------------------------------
(* Rearranging what is joined. *)

Four(S, a, b, c, d) == a \in Seq(S) /\ b \in Seq(S) /\ c \in Seq(S) /\ d \in Seq(S)

\* what JoinLast, JoinShift, JoinSent and JoinRead show
Extended(a, u, x, y) == a \o (u \o <<>>) = y => a \o ((u \o x) \o <<>>) = y \o x
Shifted(a, o, u, z) == a \o ((o \o u) \o z) = (a \o o) \o (u \o z)
Moved(h, w, o, u, z) == (h \o w) \o ((o \o u) \o z) = (h \o (w \o o)) \o (u \o z)
Parted(h, f, g, z) == (h \o (f \o g)) \o z = (h \o f) \o (g \o z)

(* More at the end.                                                           *)
LEMMA JoinLast ==
    ASSUME NEW S, NEW a, NEW u, NEW x, NEW y, Four(S, a, u, x, y)
    PROVE  Extended(a, u, x, y)
<1> DEFINE ux == u \o x
<1>0. a \in Seq(S) /\ u \in Seq(S) /\ x \in Seq(S) /\ y \in Seq(S)
  BY DEF Four
<1>1. ux \in Seq(S)
  BY <1>0, ConcatProperties
<1>2. (a \o u) \o x = a \o (u \o x)
  <2>1. Joined(a, u, x)
    BY <1>0, Assoc
  <2> QED BY <2>1, Zenon DEF Joined
<1>3. u \o <<>> = u
  BY <1>0, ConcatEmptySeq
<1> HIDE DEF ux
<1>4. ux \o <<>> = ux
  BY <1>1, ConcatEmptySeq
<1> QED BY <1>2, <1>3, <1>4, Zenon DEF ux, Extended

(* A part changes sides.                                                      *)
LEMMA JoinShift ==
    ASSUME NEW S, NEW a, NEW o, NEW u, NEW z, Four(S, a, o, u, z)
    PROVE  Shifted(a, o, u, z)
<1> DEFINE uz == u \o z
<1>0. a \in Seq(S) /\ o \in Seq(S) /\ u \in Seq(S) /\ z \in Seq(S)
  BY DEF Four
<1>1. (o \o u) \o z = o \o (u \o z)
  <2>1. Joined(o, u, z)
    BY <1>0, Assoc
  <2> QED BY <2>1, Zenon DEF Joined
<1>2. uz \in Seq(S)
  BY <1>0, ConcatProperties
<1> HIDE DEF uz
<1>3. (a \o o) \o uz = a \o (o \o uz)
  <2>1. Joined(a, o, uz)
    BY <1>0, <1>2, Assoc
  <2> QED BY <2>1, Zenon DEF Joined
<1> QED BY <1>1, <1>3, Zenon DEF uz, Shifted

(* A block moves from the queue to the wire.                                  *)
LEMMA JoinSent ==
    ASSUME NEW S, NEW h \in Seq(S), NEW w, NEW o, NEW u, NEW z, Four(S, w, o, u, z)
    PROVE  Moved(h, w, o, u, z)
<1> DEFINE a == h \o w
<1>0. w \in Seq(S) /\ o \in Seq(S)
  BY DEF Four
<1>1. a \in Seq(S)
  BY <1>0, ConcatProperties
<1>2. (h \o w) \o o = h \o (w \o o)
  <2>1. Joined(h, w, o)
    BY <1>0, Assoc
  <2> QED BY <2>1, Zenon DEF Joined
<1> HIDE DEF a
<1>3. Shifted(a, o, u, z)
  <2>1. Four(S, a, o, u, z)
    BY <1>1 DEF Four
  <2> QED BY <2>1, JoinShift
<1> QED BY <1>2, <1>3, Zenon DEF a, Shifted, Moved

(* Bytes at the head of the wire are cut off.                                 *)
LEMMA JoinRead ==
    ASSUME NEW S, NEW h, NEW f, NEW g, NEW z, Four(S, h, f, g, z)
    PROVE  Parted(h, f, g, z)
<1> DEFINE a == h \o f
<1>0. h \in Seq(S) /\ f \in Seq(S) /\ g \in Seq(S) /\ z \in Seq(S)
  BY DEF Four
<1>1. a \in Seq(S)
  BY <1>0, ConcatProperties
<1>2. (h \o f) \o g = h \o (f \o g)
  <2>1. Joined(h, f, g)
    BY <1>0, Assoc
  <2> QED BY <2>1, Zenon DEF Joined
<1> HIDE DEF a
<1>3. (a \o g) \o z = a \o (g \o z)
  <2>1. Joined(a, g, z)
    BY <1>0, <1>1, Assoc
  <2> QED BY <2>1, Zenon DEF Joined
<1> QED BY <1>2, <1>3, Zenon DEF a, Parted

-----------------------------------------------------------------------------
(* One direction of the connection. *)

\* the bytes r holds, those on the wire, those p has queued and those p has dropped are the
\* frames of the messages left
Flow(p, r, w, rest, left) == (Held(r) \o w) \o (Unsent(p) \o rest) = Wire(left)

\* p has sent what r has got and the messages left; while the connection is live and r
\* open the bytes on their way are theirs, but for those that p dropped when it closed
Way(p, r, w, live) ==
    \E left \in Seq(Msg) :
        /\ p.sent = r.got \o left
        /\ live /\ ~r.closing => \E rest \in Chunk : /\ ~p.closing => rest = <<>>
                                                     /\ Flow(p, r, w, rest, left)

(* What is held is bytes.                                                     *)
LEMMA HeldOK ==
    ASSUME NEW p, SideOK(p)
    PROVE  Held(p) \in Chunk
<1>1. p.head \in Chunk /\ p.block.data \in Chunk
  BY DEF SideOK, Proto, Box
<1> DEFINE a == p.head
           b == p.block.data
<1> HIDE DEF a, b
<1>2. a \o b \in Chunk
  BY <1>1, ConcatProperties DEF Chunk, a, b
<1> QED BY <1>2 DEF Held, a, b

(* The sending end accepts messages.                                          *)
LEMMA WayGrows ==
    ASSUME NEW p, SideOK(p), ~p.closing, NEW r, SideOK(r), NEW w \in Chunk, NEW live,
           Way(p, r, w, live), NEW q, Grows(p, q)
    PROVE  Way(q, r, w, live)
<1>1. PICK left \in Seq(Msg) :
         /\ p.sent = r.got \o left
         /\ live /\ ~r.closing => \E rest \in Chunk : /\ ~p.closing => rest = <<>>
                                                      /\ Flow(p, r, w, rest, left)
  BY DEF Way
<1>2. PICK new \in Seq(Msg) : Grown(p, q, new)
  BY DEF Grows
<1>3. left \o new \in Seq(Msg) /\ Wire(left \o new) = Wire(left) \o Wire(new)
  BY FramesConcat
<1>4. q.sent = r.got \o (left \o new)
  <2> DEFINE g == r.got
  <2>1. g \in Seq(Msg)
    BY QueuedOK
  <2> HIDE DEF g
  <2>2. (g \o left) \o new = g \o (left \o new)
    <3>1. Joined(g, left, new)
      BY <2>1, Assoc
    <3> QED BY <3>1, Zenon DEF Joined
  <2>3. q.sent = p.sent \o new /\ p.sent = g \o left
    BY <1>1, <1>2 DEF Grown, g
  <2> QED BY <2>2, <2>3, Zenon DEF g
<1>5. ASSUME live /\ ~r.closing
      PROVE  Flow(q, r, w, <<>>, left \o new)
  <2> DEFINE a == Held(r) \o w
             u == Unsent(p)
             x == Wire(new)
             y == Wire(left)
  <2>1. a \in Chunk
    BY HeldOK, ConcatProperties DEF Chunk
  <2>2. u \in Chunk /\ x \in Chunk /\ y \in Chunk
    BY QueuedOK, FramesOK
  <2>3. Flow(p, r, w, <<>>, left)
    BY <1>1, <1>5
  <2>4. a \o (u \o <<>>) = y
    BY <2>3 DEF Flow
  <2>5. Unsent(q) = u \o x
    BY <1>2 DEF Grown
  <2>6. Wire(left \o new) = y \o x
    BY <1>3
  <2> HIDE DEF u, x, y
  <2>7. (a \o ((u \o x) \o <<>>) = y \o x) => Flow(q, r, w, <<>>, left \o new)
    BY <2>5, <2>6, Zenon DEF Flow
  <2> HIDE DEF a
  <2>8. Four(Byte, a, u, x, y)
    BY <2>1, <2>2 DEF Four, Chunk
  <2>9. Extended(a, u, x, y)
    BY <2>8, JoinLast
  <2> QED BY <2>4, <2>7, <2>9, Zenon DEF Extended
<1>6. <<>> \in Chunk
  BY EmptySeq DEF Chunk
<1> HIDE DEF Flow
<1> QED BY <1>3, <1>4, <1>5, <1>6 DEF Way

(* The receiving end changes, but not what it has received.                   *)
LEMMA WayKept ==
    ASSUME NEW p, NEW r, NEW w, NEW live, Way(p, r, w, live),
           NEW q, q.got = r.got, q.closing \/ (Reads(r, q) /\ ~r.closing)
    PROVE  Way(p, q, w, live)
<1>1. PICK left \in Seq(Msg) :
         /\ p.sent = r.got \o left
         /\ live /\ ~r.closing => \E rest \in Chunk : /\ ~p.closing => rest = <<>>
                                                      /\ Flow(p, r, w, rest, left)
  BY DEF Way
<1>2. p.sent = q.got \o left
  BY <1>1
<1>3. CASE q.closing
  BY <1>2, <1>3 DEF Way
<1>4. CASE ~q.closing
  <2>1. Held(q) = Held(r)
    BY <1>4 DEF Held, Reads
  <2>2. \A rest : Flow(p, r, w, rest, left) => Flow(p, q, w, rest, left)
    BY <2>1, Zenon DEF Flow
  <2> QED BY <1>1, <1>2, <1>4, <2>2 DEF Way
<1> QED BY <1>3, <1>4

(* The connection is gone.                                                    *)
LEMMA WayBroken ==
    ASSUME NEW p, NEW r, NEW w, NEW live, Way(p, r, w, live), NEW v, NEW dead, ~dead
    PROVE  Way(p, r, v, dead)
  BY DEF Way

(* The sending end drops what it will not write.                              *)
LEMMA WayDropped ==
    ASSUME NEW p, SideOK(p), NEW r, NEW w, NEW live, Way(p, r, w, live), NEW q, SideOK(q),
           q.sent = p.sent, q.closing = p.closing,
           live => \E gone \in Chunk : /\ ~p.closing => gone = <<>>
                                       /\ Unsent(q) \o gone = Unsent(p)
    PROVE  Way(q, r, w, live)
<1>1. PICK left \in Seq(Msg) :
         /\ p.sent = r.got \o left
         /\ live /\ ~r.closing => \E rest \in Chunk : /\ ~p.closing => rest = <<>>
                                                      /\ Flow(p, r, w, rest, left)
  BY DEF Way
<1>2. ASSUME live /\ ~r.closing
      PROVE  \E rest \in Chunk : (~q.closing => rest = <<>>) /\ Flow(q, r, w, rest, left)
  <2>1. PICK rest \in Chunk : (~p.closing => rest = <<>>) /\ Flow(p, r, w, rest, left)
    BY <1>1, <1>2
  <2>2. PICK gone \in Chunk : (~p.closing => gone = <<>>) /\ Unsent(q) \o gone = Unsent(p)
    BY <1>2
  <2> DEFINE u == Unsent(q)
             z == gone \o rest
  <2>3. u \in Chunk
    BY QueuedOK
  <2> HIDE DEF u
  <2>4. (u \o gone) \o rest = u \o (gone \o rest) /\ z \in Chunk
    <3>1. Joined(u, gone, rest)
      BY <2>3, Assoc DEF Chunk
    <3>2. z \in Chunk
      BY <2>3, ConcatProperties DEF Chunk
    <3> QED BY <3>1, <3>2, Zenon DEF Joined
  <2>5. Unsent(p) \o rest = Unsent(q) \o z
    BY <2>2, <2>4, Zenon DEF u
  <2>6. ~q.closing => z = <<>>
    BY <2>1, <2>2, EmptySeq, ConcatEmptySeq
  <2>7. Flow(q, r, w, z, left)
    <3> HIDE DEF z
    <3> QED BY <2>1, <2>5, Zenon DEF Flow
  <2> QED BY <2>4, <2>6, <2>7
<1> QED BY <1>1, <1>2 DEF Way

(* The kernel takes the first block.                                          *)
LEMMA WaySent ==
    ASSUME NEW p, SideOK(p), NEW r, SideOK(r), NEW w \in Chunk, NEW live, Way(p, r, w, live),
           NEW o \in Chunk, NEW q, SideOK(q), q.sent = p.sent, q.closing = p.closing,
           Unsent(p) = o \o Unsent(q)
    PROVE  Way(q, r, w \o o, live)
<1>1. PICK left \in Seq(Msg) :
         /\ p.sent = r.got \o left
         /\ live /\ ~r.closing => \E rest \in Chunk : /\ ~p.closing => rest = <<>>
                                                      /\ Flow(p, r, w, rest, left)
  BY DEF Way
<1>2. ASSUME NEW rest \in Chunk, Flow(p, r, w, rest, left)
      PROVE  Flow(q, r, w \o o, rest, left)
  <2> DEFINE h == Held(r)
             u == Unsent(q)
  <2>1. h \in Chunk /\ u \in Chunk
    BY HeldOK, QueuedOK
  <2> HIDE DEF h, u
  <2>2. Moved(h, w, o, u, rest)
    <3>1. Four(Byte, w, o, u, rest) /\ h \in Seq(Byte)
      BY <2>1 DEF Four, Chunk
    <3> QED BY <3>1, JoinSent
  <2>3. (h \o w) \o ((o \o u) \o rest) = Wire(left)
    BY <1>2, Zenon DEF Flow, h, u
  <2> QED BY <2>2, <2>3, Zenon DEF Flow, Moved, h, u
<1>3. live /\ ~r.closing => \E rest \in Chunk : /\ ~q.closing => rest = <<>>
                                                /\ Flow(q, r, w \o o, rest, left)
  BY <1>1, <1>2
<1> QED BY <1>1, <1>3 DEF Way

(* read.                                                                      *)
LEMMA WayRead ==
    ASSUME NEW s, SideOK(s), NEW p, SideOK(p), ~p.closing, RecvOK(p), NEW w \in Chunk,
           NEW live, live, Way(s, p, w, live), NEW n \in 1..Len(w), n <= Room(p)
    PROVE  LET r == read(p, SubSeq(w, 1, n))
           IN  /\ r \in Reading /\ Grows(p, r.p)
               /\ ~r.bad => /\ ~r.p.closing => RecvOK(r.p)
                            /\ Way(s, r.p, SubSeq(w, n + 1, Len(w)), live)
               /\ \A q : q.got = r.p.got /\ q.closing => Way(s, q, SubSeq(w, n + 1, Len(w)), live)
<1>1. PICK left \in Seq(Msg) :
         /\ s.sent = p.got \o left
         /\ live /\ ~p.closing => \E rest \in Chunk : /\ ~s.closing => rest = <<>>
                                                      /\ Flow(s, p, w, rest, left)
  BY DEF Way
<1>2. PICK rest \in Chunk : (~s.closing => rest = <<>>) /\ Flow(s, p, w, rest, left)
  BY <1>1
<1> DEFINE f == First(w, n)
           g == After(w, n)
           h == Held(p)
           z == Unsent(s) \o rest
           t == g \o z
           r == read(p, f)
<1>3. n \in 0..Len(w) /\ n \in Nat
  BY LenProperties DEF Chunk
<1>4. f \in Chunk /\ Len(f) = n /\ g \in Chunk /\ w = f \o g
  BY <1>3, FirstAfter DEF Chunk
<1>5. z \in Chunk /\ h \in Chunk
  <2>1. Unsent(s) \in Chunk
    BY QueuedOK
  <2> QED BY <2>1, HeldOK, ConcatProperties DEF Chunk
<1>6. (h \o w) \o z = Wire(left)
  BY <1>2 DEF Flow
<1> HIDE DEF f, g, h, z
<1>7. t \in Chunk
  BY <1>4, <1>5, ConcatProperties DEF Chunk
<1>8. (h \o f) \o t = Wire(left)
  <2>1. Four(Byte, h, f, g, z)
    BY <1>4, <1>5 DEF Four, Chunk
  <2>2. Parted(h, f, g, z)
    BY <2>1, JoinRead
  <2> QED BY <1>4, <1>6, <2>2, Zenon DEF Parted
<1> HIDE DEF t
<1>9. PICK j \in 0..Len(left) : Taken(p, r, left, j, t)
  <2>1. (Held(p) \o f) \o t = Wire(left) /\ Len(f) <= Room(p)
    BY <1>4, <1>8 DEF h
  <2> QED BY <1>4, <1>7, <2>1, ReadOK
<1> HIDE DEF r
<1>10. /\ r \in Reading /\ Grows(p, r.p) /\ GotFirst(r.p.got, p.got, left, j)
       /\ r.bad \/ r.p.closing \/ (RecvOK(r.p) /\ Held(r.p) \o t = Wire(After(left, j)))
  BY <1>9 DEF Taken
<1>11. After(left, j) \in Seq(Msg) /\ First(left, j) \in Seq(Msg)
       /\ left = First(left, j) \o After(left, j)
  BY FirstAfter
<1>12. s.sent = r.p.got \o After(left, j)
  <2> DEFINE a == p.got
             b == First(left, j)
             c == After(left, j)
  <2>1. a \in Seq(Msg)
    BY QueuedOK
  <2>2. r.p.got = a \o b /\ s.sent = a \o left /\ left = b \o c
    BY <1>1, <1>10, <1>11 DEF GotFirst
  <2>3. b \in Seq(Msg) /\ c \in Seq(Msg)
    BY <1>11
  <2> HIDE DEF a, b, c
  <2>4. (a \o b) \o c = a \o (b \o c)
    <3>1. Joined(a, b, c)
      BY <2>1, <2>3, Assoc
    <3> QED BY <3>1, Zenon DEF Joined
  <2> QED BY <2>2, <2>4, Zenon DEF c
<1>13. ASSUME NEW q, q.got = r.p.got, q.closing PROVE Way(s, q, g, live)
  BY <1>11, <1>12, <1>13 DEF Way
<1>14. ASSUME ~r.bad, ~r.p.closing PROVE RecvOK(r.p) /\ Way(s, r.p, g, live)
  <2>1. RecvOK(r.p) /\ Held(r.p) \o t = Wire(After(left, j))
    BY <1>10, <1>14
  <2> DEFINE k == Held(r.p)
             y == Wire(After(left, j))
  <2>2. k \in Chunk
    BY <1>10, HeldOK DEF Reading
  <2>3. k \o t = y
    BY <2>1
  <2> HIDE DEF k, y
  <2>4. (k \o g) \o z = k \o (g \o z)
    <3>1. k \in Seq(Byte) /\ g \in Seq(Byte) /\ z \in Seq(Byte)
      BY <1>4, <1>5, <2>2 DEF Chunk
    <3>2. Joined(k, g, z)
      BY <3>1, Assoc
    <3> QED BY <3>2, Zenon DEF Joined
  <2>5. (k \o g) \o z = y
    BY <2>3, <2>4, Zenon DEF t
  <2>6. Flow(s, r.p, g, rest, After(left, j))
    BY <2>5, Zenon DEF Flow, k, y, z
  <2> QED BY <1>2, <1>11, <1>12, <2>1, <2>6 DEF Way
<1>15. ~r.bad => (~r.p.closing => RecvOK(r.p)) /\ Way(s, r.p, g, live)
  BY <1>13, <1>14
<1>16. r = read(p, SubSeq(w, 1, n)) /\ g = SubSeq(w, n + 1, Len(w))
  BY DEF r, f, g, First, After
<1> QED BY <1>10, <1>13, <1>15, <1>16

-----------------------------------------------------------------------------
(* The end of a write. *)

(* write_done drops the block that was written and goes on with the others,   *)
(* unless the end is closing.                                                 *)
LEMMA WriteDoneOK ==
    ASSUME NEW p, SideOK(p), p.writing
    PROVE  LET q == write_done(p)
           IN  /\ SideOK(q) /\ Reads(p, q) /\ q.got = p.got /\ q.sent = p.sent
               /\ q.closing = p.closing
               /\ p.handed => \E gone \in Chunk : /\ ~p.closing => gone = <<>>
                                                  /\ Unsent(q) \o gone = Unsent(p)
<1> DEFINE o == Tail(p.out)
           a == [p EXCEPT !.out = o, !.writing = FALSE]
           b == try_write(a)
           q == write_done(p)
<1>1. p \in Proto /\ p.out \in Seq(Chunk) /\ p.out # <<>>
  BY DEF SideOK, Proto
<1>2. /\ o \in Seq(Chunk) /\ p.out[1] \in Chunk
      /\ FlattenSeq(p.out) = p.out[1] \o FlattenSeq(o)
  BY <1>1, FlattenFirst DEF Chunk
<1>3. FlattenSeq(o) \in Chunk /\ Len(FlattenSeq(o)) <= SendLimit
  <2> DEFINE x == p.out[1]
             y == FlattenSeq(o)
             fl == FlattenSeq(p.out)
  <2>1. y \in Chunk
    BY <1>2, FlattenAppend, EmptySeq DEF Chunk
  <2>2. Len(fl) <= SendLimit /\ fl = x \o y /\ x \in Chunk
    BY <1>2 DEF SideOK
  <2> HIDE DEF x, y, fl
  <2>3. Len(x \o y) = Len(x) + Len(y) /\ Len(x) \in Nat /\ Len(y) \in Nat
    BY <2>1, <2>2, ConcatProperties, LenProperties DEF Chunk
  <2>4. Len(x) + Len(y) <= SendLimit /\ SendLimit \in Nat
    BY <2>2, <2>3, SizeAssumption
  <2>5. Len(y) <= SendLimit
    BY <2>3, <2>4
  <2> QED BY <2>1, <2>5 DEF y
<1>4. q = [b EXCEPT !.closed = @ \/ (b.closing /\ ~b.writing)]
  BY DEF write_done
<1> HIDE DEF o, q
<1>5. /\ a \in Proto /\ a.out = o /\ ~a.writing /\ a.handed = p.handed /\ a.closing = p.closing
      /\ a.closed = p.closed /\ a.head = p.head /\ a.block = p.block /\ a.sent = p.sent
      /\ a.got = p.got
  BY <1>1, <1>2 DEF Proto
<1> DEFINE done == IF o = <<>> \/ p.closing THEN <<>> ELSE Merged(o)
<1>6. /\ done \in Seq(Chunk) /\ Len(FlattenSeq(done)) <= SendLimit
      /\ ~p.closing => FlattenSeq(done) = FlattenSeq(o)
      /\ p.closing => FlattenSeq(done) = <<>>
      /\ done = <<>> <=> (o = <<>> \/ p.closing)
  <2>1. <<>> \in Seq(Chunk) /\ FlattenSeq(<<>>) = <<>> /\ Len(<<>>) = 0 /\ 0 <= SendLimit
    <3>1. <<>> \in Seq(Byte) /\ <<>> \in Seq(Chunk) /\ Len(<<>>) = 0
      BY EmptySeq
    <3>2. FlattenSeq(<<>>) = <<>>
      BY <3>1, FlattenFew
    <3> QED BY <3>1, <3>2, SizeAssumption
  <2>2. CASE o = <<>> \/ p.closing
    BY <2>1, <2>2
  <2>3. CASE o # <<>> /\ ~p.closing
    BY <1>2, <1>3, <2>3, MergedOK
  <2> QED BY <2>2, <2>3
<1>7. /\ b \in Proto /\ b.out = done /\ b.writing = (done # <<>>) /\ b.closing = p.closing
      /\ b.closed = p.closed /\ b.head = p.head /\ b.block = p.block /\ b.sent = p.sent
      /\ b.got = p.got /\ (b.writing => ~b.handed)
  <2> HIDE DEF a
  <2>1. CASE o = <<>>
    <3>1. b = a /\ done = <<>>
      BY <1>5, <2>1 DEF try_write
    <3> HIDE DEF done, b
    <3> QED BY <1>5, <2>1, <3>1 DEF Proto
  <2>2. CASE o # <<>> /\ p.closing
    <3>1. b = [a EXCEPT !.out = <<>>] /\ done = <<>>
      BY <1>5, <2>2 DEF try_write
    <3> QED BY <1>5, <1>6, <2>2, <3>1 DEF Proto
  <2>3. CASE o # <<>> /\ ~p.closing
    <3>1. b = [a EXCEPT !.out = done, !.writing = TRUE, !.handed = FALSE] /\ done # <<>>
      BY <1>5, <1>6, <2>3 DEF try_write
    <3> HIDE DEF done, b
    <3> QED BY <1>5, <1>6, <2>3, <3>1 DEF Proto
  <2> QED BY <2>1, <2>2, <2>3
<1> HIDE DEF a, b, done
<1>8. /\ q \in Proto /\ q.out = done /\ q.writing = (done # <<>>) /\ q.closing = p.closing
      /\ q.head = p.head /\ q.block = p.block /\ q.sent = p.sent
      /\ q.got = p.got /\ (q.writing => ~q.handed)
      /\ q.closed = (p.closed \/ (p.closing /\ ~b.writing))
  BY <1>4, <1>7 DEF Proto
<1>9. SideOK(q)
  BY <1>6, <1>8 DEF SideOK
<1>10. Unsent(q) = FlattenSeq(done)
  <2>1. Queued(q) = done
    BY <1>8 DEF Queued
  <2> QED BY <2>1, Zenon DEF Unsent
<1>11. ASSUME p.handed
       PROVE  \E gone \in Chunk : /\ ~p.closing => gone = <<>>
                                  /\ Unsent(q) \o gone = Unsent(p)
  <2> DEFINE y == FlattenSeq(o)
  <2>1. Queued(p) = o
    BY <1>11 DEF Queued, o
  <2>2. Unsent(p) = y
    BY <2>1, Zenon DEF Unsent
  <2>3. y \in Chunk /\ <<>> \in Chunk
    BY <1>3, EmptySeq DEF Chunk
  <2> HIDE DEF y
  <2>4. y \o <<>> = y /\ <<>> \o y = y
    BY <2>3, ConcatEmptySeq DEF Chunk
  <2>5. CASE p.closing
    <3>1. Unsent(q) = <<>>
      BY <1>6, <1>10, <2>5
    <3> QED BY <2>2, <2>3, <2>4, <2>5, <3>1
  <2>6. CASE ~p.closing
    <3>1. Unsent(q) = y
      BY <1>6, <1>10, <2>6 DEF y
    <3> QED BY <2>2, <2>3, <2>4, <2>6, <3>1
  <2> QED BY <2>5, <2>6
<1> QED BY <1>8, <1>9, <1>11 DEF Reads, q

-----------------------------------------------------------------------------
(* The invariant. *)

\* P[e] is the protocol object of e, W[e] the bytes on its way out, live: not broken
EndOK(P, W, live, e) ==
    /\ SideOK(P[e])
    /\ ~P[e].closing => RecvOK(P[e])
    /\ ~live => W[e] = <<>>
    /\ Way(P[e], P[Peer(e)], W[e], live)

StreamOK(P, W, live) ==
    /\ P \in [Ends -> Proto] /\ W \in [Ends -> Chunk] /\ live \in BOOLEAN
    /\ \A e \in Ends : EndOK(P, W, live, e)

Inv == StreamOK(proto, wire, up)

(* The peer of an end.                                                        *)
LEMMA PeerOK ==
    ASSUME NEW e \in Ends
    PROVE  Peer(e) \in Ends /\ Peer(e) # e /\ Peer(Peer(e)) = e /\ Ends = {e, Peer(e)}
<1>1. PICK a \in Ends, b \in Ends : a # b /\ Ends = {a, b}
  BY EndsAssumption
<1>2. \A x \in Ends : Peer(x) \in Ends /\ Peer(x) # x
  BY <1>1 DEF Peer
<1>3. Peer(a) = b /\ Peer(b) = a
  BY <1>1, <1>2
<1> QED BY <1>1, <1>3

(* One end becomes q, and v and u are on the wires of that end and its peer.  *)
LEMMA OneEnd ==
    ASSUME NEW P, NEW W, NEW live, StreamOK(P, W, live), NEW e \in Ends, NEW q, SideOK(q),
           ~q.closing => RecvOK(q), NEW v \in Chunk, NEW u \in Chunk,
           ~live => v = <<>> /\ u = <<>>,
           Way(q, P[Peer(e)], v, live), Way(P[Peer(e)], q, u, live),
           NEW V, V = [W EXCEPT ![e] = v, ![Peer(e)] = u]
    PROVE  StreamOK([P EXCEPT ![e] = q], V, live)
<1> DEFINE d == Peer(e)
           Q == [P EXCEPT ![e] = q]
<1>1. d \in Ends /\ d # e /\ Peer(d) = e /\ Ends = {e, d}
  BY PeerOK
<1>2. P \in [Ends -> Proto] /\ W \in [Ends -> Chunk] /\ live \in BOOLEAN
  BY DEF StreamOK
<1>3. EndOK(P, W, live, d)
  BY <1>1 DEF StreamOK
<1>4. q \in Proto
  BY DEF SideOK
<1> HIDE DEF d
<1>5. Q \in [Ends -> Proto] /\ Q[e] = q /\ Q[d] = P[d]
  BY <1>1, <1>2, <1>4
<1>6. V \in [Ends -> Chunk] /\ V[e] = v /\ V[d] = u
  BY <1>1, <1>2 DEF d
<1> HIDE DEF Q
<1>7. EndOK(Q, V, live, e)
  BY <1>5, <1>6 DEF EndOK, d
<1>8. EndOK(Q, V, live, d)
  BY <1>1, <1>3, <1>5, <1>6 DEF EndOK, d
<1>9. \A x \in Ends : EndOK(Q, V, live, x)
  BY <1>1, <1>7, <1>8
<1> QED BY <1>2, <1>5, <1>6, <1>9 DEF StreamOK, Q

(* The facts about an end and its peer.                                       *)
LEMMA TwoEnds ==
    ASSUME NEW P, NEW W, NEW live, StreamOK(P, W, live), NEW e \in Ends
    PROVE  LET d == Peer(e)
           IN  /\ d \in Ends /\ SideOK(P[e]) /\ SideOK(P[d])
               /\ ~P[e].closing => RecvOK(P[e])
               /\ W[e] \in Chunk /\ W[d] \in Chunk
               /\ ~live => W[e] = <<>> /\ W[d] = <<>>
               /\ Way(P[e], P[d], W[e], live) /\ Way(P[d], P[e], W[d], live)
               /\ W = [W EXCEPT ![e] = W[e], ![d] = W[d]]
<1> DEFINE d == Peer(e)
<1>1. d \in Ends /\ d # e /\ Peer(d) = e
  BY PeerOK
<1>2. P \in [Ends -> Proto] /\ W \in [Ends -> Chunk] /\ EndOK(P, W, live, e) /\ EndOK(P, W, live, d)
  BY <1>1 DEF StreamOK
<1>3. W = [W EXCEPT ![e] = W[e], ![d] = W[d]]
  BY <1>1, <1>2
<1>4. SideOK(P[d]) /\ (~live => W[d] = <<>>) /\ Way(P[d], P[e], W[d], live)
  BY <1>1, <1>2, Zenon DEF EndOK
<1> HIDE DEF d
<1> QED BY <1>1, <1>2, <1>3, <1>4 DEF EndOK, d

(* An open end accepts messages, or closes.                                   *)
LEMMA OwnStep ==
    ASSUME NEW P, NEW W, NEW live, StreamOK(P, W, live), NEW e \in Ends, ~P[e].closing,
           NEW q, Grows(P[e], q), Reads(P[e], q), q.got = P[e].got
    PROVE  StreamOK([P EXCEPT ![e] = q], W, live)
<1> DEFINE d == Peer(e)
           p == P[e]
           r == P[d]
           v == W[e]
           u == W[d]
<1>1. /\ SideOK(p) /\ SideOK(r) /\ RecvOK(p) /\ v \in Chunk /\ u \in Chunk
      /\ ~live => v = <<>> /\ u = <<>>
      /\ Way(p, r, v, live) /\ Way(r, p, u, live)
      /\ W = [W EXCEPT ![e] = v, ![d] = u]
  BY TwoEnds
<1>2. SideOK(q)
  BY DEF Grows
<1>3. RecvOK(q)
  BY <1>1 DEF RecvOK, Reads
<1> HIDE DEF p, r, v, u
<1>4. Way(q, r, v, live)
  BY <1>1, WayGrows DEF p
<1>5. Way(r, q, u, live)
  BY <1>1, WayKept DEF p
<1> QED BY <1>1, <1>2, <1>3, <1>4, <1>5, OneEnd DEF r

-----------------------------------------------------------------------------
(* The steps. *)

(* Two new protocol objects and empty wires.                                  *)
LEMMA InitOK == Init => Inv
<1> SUFFICES ASSUME Init PROVE Inv
  OBVIOUS
<1> DEFINE p == NewProto
<1>1. <<>> \in Chunk /\ <<>> \in Seq(Chunk) /\ <<>> \in Seq(Msg) /\ Len(<<>>) = 0
  BY EmptySeq DEF Chunk
<1>2. FlattenSeq(<<>>) = <<>>
  <2>1. <<>> \in Seq(Byte)
    BY EmptySeq
  <2> QED BY <2>1, FlattenFew
<1>3. NoBlock \in Box /\ NoBlock.data = <<>>
  BY <1>1 DEF NoBlock, Box
<1>4. p \in Proto
  BY <1>1, <1>3 DEF NewProto, Proto
<1>5. /\ p.out = <<>> /\ ~p.writing /\ ~p.closing /\ ~p.closed /\ p.head = <<>>
      /\ p.block = NoBlock /\ p.sent = <<>> /\ p.got = <<>>
  BY DEF NewProto
<1>6. proto = [e \in Ends |-> p] /\ wire = [e \in Ends |-> <<>>] /\ up = TRUE
  BY DEF Init
<1> HIDE DEF p
<1>7. SideOK(p)
  BY <1>1, <1>2, <1>4, <1>5, SizeAssumption DEF SideOK
<1>8. RecvOK(p)
  BY <1>1, <1>5 DEF RecvOK
<1>9. Way(p, p, <<>>, up)
  <2>1. <<>> \o <<>> = <<>>
    BY <1>1, ConcatEmptySeq
  <2>2. Queued(p) = <<>>
    BY <1>5 DEF Queued
  <2>3. Unsent(p) = <<>>
    BY <1>2, <2>2 DEF Unsent
  <2>4. Held(p) = <<>>
    BY <1>3, <1>5, <2>1 DEF Held
  <2>5. Flow(p, p, <<>>, <<>>, <<>>)
    BY <2>1, <2>3, <2>4, FramesNone, Zenon DEF Flow
  <2> QED BY <1>1, <1>5, <2>1, <2>5 DEF Way
<1>10. \A e \in Ends : EndOK(proto, wire, up, e)
  BY <1>6, <1>7, <1>8, <1>9, PeerOK DEF EndOK
<1> QED BY <1>1, <1>4, <1>6, <1>10 DEF Inv, StreamOK

(* A post.                                                                    *)
LEMMA PostOK ==
    ASSUME Inv, NEW e \in Ends, NEW len \in Lens, Post(e, len)
    PROVE  Inv'
<1> DEFINE m == Message(proto[e], "post", len)
           q == write_msg(proto[e], m)
<1>1. ~proto[e].closing /\ proto' = [proto EXCEPT ![e] = q] /\ wire' = wire /\ up' = up
  BY DEF Post, Become
<1>2. SideOK(proto[e]) /\ StreamOK(proto, wire, up)
  BY TwoEnds DEF Inv
<1>3. m \in Msg
  BY <1>2, MessageOK DEF Kind
<1> HIDE DEF m
<1>4. Grows(proto[e], q) /\ Reads(proto[e], q) /\ q.got = proto[e].got
  BY <1>1, <1>2, <1>3, WriteMsgGrows
<1> HIDE DEF q
<1>5. StreamOK([proto EXCEPT ![e] = q], wire, up)
  BY <1>1, <1>2, <1>4, OwnStep
<1> QED BY <1>1, <1>5 DEF Inv

(* A ping.                                                                    *)
LEMMA PingOK ==
    ASSUME Inv, NEW e \in Ends, Ping(e)
    PROVE  Inv'
<1> DEFINE m == Message(proto[e], "ping", CtlLen)
           q == write_msg(proto[e], m)
<1>1. ~proto[e].closing /\ proto' = [proto EXCEPT ![e] = q] /\ wire' = wire /\ up' = up
  BY DEF Ping, Become
<1>2. SideOK(proto[e]) /\ StreamOK(proto, wire, up)
  BY TwoEnds DEF Inv
<1>3. m \in Msg
  BY <1>2, MessageOK DEF Kind
<1> HIDE DEF m
<1>4. Grows(proto[e], q) /\ Reads(proto[e], q) /\ q.got = proto[e].got
  BY <1>1, <1>2, <1>3, WriteMsgGrows
<1> HIDE DEF q
<1>5. StreamOK([proto EXCEPT ![e] = q], wire, up)
  BY <1>1, <1>2, <1>4, OwnStep
<1> QED BY <1>1, <1>5 DEF Inv

\* the step that Close and ReadError have in common
Closes(e) == /\ ~proto[e].closing
             /\ Become(e, close(proto[e], TRUE))
             /\ UNCHANGED <<wire, up>>

(* An open end closes, with a kickoff.                                        *)
LEMMA ClosesOK ==
    ASSUME Inv, NEW e \in Ends, Closes(e)
    PROVE  Inv'
<1> DEFINE yes == TRUE
           q == close(proto[e], yes)
<1>1. ~proto[e].closing /\ proto' = [proto EXCEPT ![e] = q] /\ wire' = wire /\ up' = up
  BY DEF Closes, Become
<1>2. SideOK(proto[e]) /\ StreamOK(proto, wire, up)
  BY TwoEnds DEF Inv
<1>3. yes \in BOOLEAN
  OBVIOUS
<1> HIDE DEF yes
<1>4. Grows(proto[e], q) /\ Reads(proto[e], q) /\ q.got = proto[e].got
  BY <1>2, <1>3, CloseGrows
<1> HIDE DEF q
<1>5. StreamOK([proto EXCEPT ![e] = q], wire, up)
  BY <1>1, <1>2, <1>4, OwnStep
<1> QED BY <1>1, <1>5 DEF Inv

(* The kernel takes the block being written.                                  *)
LEMMA TransmitOK ==
    ASSUME Inv, NEW e \in Ends, Transmit(e)
    PROVE  Inv'
<1> DEFINE d == Peer(e)
           p == proto[e]
           r == proto[d]
           w == wire[e]
           u == wire[d]
           o == p.out[1]
           q == [p EXCEPT !.handed = TRUE]
           v == IF r.closed THEN <<>> ELSE w \o o
<1>1. /\ up /\ p.writing /\ ~p.handed
      /\ proto' = [proto EXCEPT ![e] = q] /\ wire' = [wire EXCEPT ![e] = v] /\ up' = up
  BY DEF Transmit, Become
<1>2. /\ d \in Ends /\ SideOK(p) /\ SideOK(r) /\ (~p.closing => RecvOK(p))
      /\ w \in Chunk /\ u \in Chunk
      /\ Way(p, r, w, up) /\ Way(r, p, u, up)
  BY TwoEnds DEF Inv
<1>3. wire \in [Ends -> Chunk] /\ StreamOK(proto, wire, up)
  BY DEF Inv, StreamOK
<1>4. wire' = [wire EXCEPT ![e] = v, ![d] = u]
  <2>1. d # e
    BY PeerOK
  <2> HIDE DEF v, d
  <2> QED BY <1>1, <1>2, <1>3, <2>1
<1> HIDE DEF d, p, r, w, u
<1>5. p \in Proto /\ p.out \in Seq(Chunk) /\ p.out # <<>>
  BY <1>1, <1>2 DEF SideOK, Proto
<1>6. o \in Chunk /\ FlattenSeq(p.out) = o \o FlattenSeq(Tail(p.out))
  BY <1>5, FlattenFirst DEF Chunk
<1> HIDE DEF o
<1>7. /\ q \in Proto /\ q.out = p.out /\ q.writing = p.writing /\ q.handed /\ q.closing = p.closing
      /\ q.closed = p.closed /\ q.head = p.head /\ q.block = p.block /\ q.sent = p.sent
      /\ q.got = p.got
  BY <1>5 DEF Proto
<1> HIDE DEF q
<1>8. SideOK(q)
  BY <1>2, <1>7 DEF SideOK
<1>9. Unsent(p) = o \o Unsent(q)
  <2>1. Queued(p) = p.out /\ Queued(q) = Tail(p.out)
    BY <1>1, <1>7 DEF Queued
  <2> QED BY <1>6, <2>1, Zenon DEF Unsent
<1>10. Reads(p, q) /\ (~q.closing => RecvOK(q))
  BY <1>2, <1>7 DEF Reads, RecvOK
<1>11. Way(r, q, u, up)
  <2>1. q.closing \/ (Reads(p, q) /\ ~p.closing)
    BY <1>7, <1>10
  <2> QED BY <1>2, <1>7, <2>1, WayKept
<1>12. Way(q, r, w \o o, up)
  BY <1>2, <1>6, <1>7, <1>8, <1>9, WaySent
<1>13. Way(q, r, v, up) /\ v \in Chunk
  <2>1. CASE r.closed
    <3>1. r.closing /\ v = <<>>
      BY <1>2, <2>1 DEF SideOK
    <3>2. Way(q, r, <<>>, up)
      BY <1>12, <3>1 DEF Way
    <3> QED BY <3>1, <3>2, EmptySeq DEF Chunk
  <2>2. CASE ~r.closed
    <3>1. v = w \o o
      BY <2>2
    <3>2. w \o o \in Chunk
      BY <1>2, <1>6, ConcatProperties DEF Chunk
    <3> QED BY <1>12, <3>1, <3>2
  <2> QED BY <2>1, <2>2
<1> HIDE DEF v
<1>14. StreamOK([proto EXCEPT ![e] = q], wire', up)
  <2>1. /\ u \in Chunk /\ (~up => v = <<>> /\ u = <<>>)
        /\ Way(q, proto[Peer(e)], v, up) /\ Way(proto[Peer(e)], q, u, up)
        /\ wire' = [wire EXCEPT ![e] = v, ![Peer(e)] = u]
    BY <1>1, <1>2, <1>4, <1>11, <1>13 DEF r, d
  <2> QED BY <1>3, <1>8, <1>10, <1>13, <2>1, OneEnd
<1> QED BY <1>1, <1>14 DEF Inv

(* A write is done, or has failed.                                            *)
LEMMA WriteEnds ==
    ASSUME Inv, NEW e \in Ends, WriteDone(e)
    PROVE  Inv'
<1> DEFINE d == Peer(e)
           p == proto[e]
           r == proto[d]
           w == wire[e]
           u == wire[d]
           q == write_done(p)
<1>1. /\ p.writing /\ (p.handed \/ ~up)
      /\ proto' = [proto EXCEPT ![e] = q] /\ wire' = wire /\ up' = up
  BY DEF WriteDone, Become
<1>2. /\ d \in Ends /\ SideOK(p) /\ SideOK(r) /\ (~p.closing => RecvOK(p))
      /\ w \in Chunk /\ u \in Chunk /\ (~up => w = <<>> /\ u = <<>>)
      /\ Way(p, r, w, up) /\ Way(r, p, u, up)
      /\ wire = [wire EXCEPT ![e] = w, ![d] = u]
  BY TwoEnds DEF Inv
<1>3. StreamOK(proto, wire, up)
  BY DEF Inv
<1> HIDE DEF d, p, r, w, u
<1>4. /\ SideOK(q) /\ Reads(p, q) /\ q.got = p.got /\ q.sent = p.sent
      /\ q.closing = p.closing
      /\ p.handed => \E gone \in Chunk : /\ ~p.closing => gone = <<>>
                                         /\ Unsent(q) \o gone = Unsent(p)
  BY <1>1, <1>2, WriteDoneOK
<1> HIDE DEF q
<1>5. ~q.closing => RecvOK(q)
  BY <1>2, <1>4 DEF RecvOK, Reads
<1>6. Way(r, q, u, up)
  <2>1. q.closing \/ (Reads(p, q) /\ ~p.closing)
    BY <1>4
  <2> QED BY <1>2, <1>4, <2>1, WayKept
<1>7. Way(q, r, w, up)
  BY <1>1, <1>2, <1>4, WayDropped
<1>8. StreamOK([proto EXCEPT ![e] = q], wire, up)
  BY <1>2, <1>3, <1>4, <1>5, <1>6, <1>7, OneEnd DEF r, d
<1> QED BY <1>1, <1>8 DEF Inv

(* Bytes are read.                                                            *)
LEMMA ReadsOK ==
    ASSUME Inv, NEW e \in Ends, Read(e)
    PROVE  Inv'
<1> DEFINE d == Peer(e)
           p == proto[e]
           s == proto[d]
           v == wire[e]
           w == wire[d]
<1>1. /\ d \in Ends /\ SideOK(p) /\ SideOK(s) /\ (~p.closing => RecvOK(p))
      /\ v \in Chunk /\ w \in Chunk /\ (~up => v = <<>> /\ w = <<>>)
      /\ Way(p, s, v, up) /\ Way(s, p, w, up)
  BY TwoEnds DEF Inv
<1>2. PICK n \in 1..Min({Room(p), Len(w)}) :
         /\ Become(e, IF read(p, SubSeq(w, 1, n)).bad THEN close(read(p, SubSeq(w, 1, n)).p, TRUE)
                      ELSE read(p, SubSeq(w, 1, n)).p)
         /\ wire' = [wire EXCEPT ![d] = SubSeq(@, n + 1, Len(@))]
  BY DEF Read
<1> DEFINE f == SubSeq(w, 1, n)
           g == SubSeq(w, n + 1, Len(w))
           x == read(p, f)
           yes == TRUE
           c == close(x.p, yes)
           q == IF x.bad THEN c ELSE x.p
<1>3. proto' = [proto EXCEPT ![e] = q] /\ ~p.closing /\ up' = up
  BY <1>2 DEF Become, Read
<1>4. wire' = [wire EXCEPT ![d] = g] /\ yes \in BOOLEAN
  BY <1>2
<1>5. StreamOK(proto, wire, up) /\ wire \in [Ends -> Chunk] /\ up \in BOOLEAN
  BY DEF Inv, StreamOK
<1>6. n \in 1..Len(w) /\ n <= Room(p)
  <2> DEFINE a == Room(p)
             b == Len(w)
  <2>1. a \in Int /\ b \in Nat
    <3>1. Len(p.head) \in Nat /\ Len(p.block.data) \in Nat /\ p.block.need \in Nat
      BY <1>1, LenProperties DEF SideOK, Proto, Box, Chunk
    <3> QED BY <1>1, <3>1, SizeAssumption, LenProperties DEF Room, Chunk
  <2> HIDE DEF a, b
  <2>2. Min({a, b}) <= a /\ Min({a, b}) <= b /\ Min({a, b}) \in Int
    <3>1. \E m \in {a, b} : \A y \in {a, b} : m <= y
      BY <2>1
    <3> QED BY <2>1, <3>1 DEF Min
  <2>3. n \in 1..Min({a, b})
    BY DEF a, b
  <2>4. n \in 1..b /\ n <= a
    BY <2>1, <2>2, <2>3
  <2> QED BY <2>4 DEF a, b
<1>7. wire' = [wire EXCEPT ![e] = v, ![d] = g]
  <2>1. d # e
    BY PeerOK
  <2> HIDE DEF g, d
  <2> QED BY <1>1, <1>4, <1>5, <2>1
<1> HIDE DEF d, p, s, v, w, yes
<1>8. up
  <2>1. w # <<>>
    BY <1>6, EmptySeq
  <2> QED BY <1>1, <2>1
<1>9. g \in Chunk
  <2>1. n \in 0..Len(w)
    BY <1>1, <1>6, LenProperties DEF Chunk
  <2> QED BY <1>1, <2>1, Cut DEF Chunk
<1>10. /\ x \in Reading /\ Grows(p, x.p)
       /\ ~x.bad => /\ ~x.p.closing => RecvOK(x.p)
                    /\ Way(s, x.p, g, up)
       /\ \A y : y.got = x.p.got /\ y.closing => Way(s, y, g, up)
  BY <1>1, <1>3, <1>6, <1>8, WayRead
<1> HIDE DEF x, g
<1>11. SideOK(x.p)
  BY <1>10 DEF Reading
<1>12. Grows(x.p, c) /\ c.got = x.p.got /\ c.closing
  BY <1>4, <1>11, CloseGrows
<1> HIDE DEF c
<1>13. Grows(p, q) /\ (~q.closing => RecvOK(q)) /\ Way(s, q, g, up)
  <2>1. CASE x.bad
    <3>1. Grows(p, c)
      BY <1>1, <1>10, <1>12, GrowsAgain
    <3> QED BY <1>10, <1>12, <2>1, <3>1
  <2>2. CASE ~x.bad
    BY <1>10, <2>2
  <2> QED BY <2>1, <2>2
<1> HIDE DEF q
<1>14. SideOK(q)
  BY <1>13 DEF Grows
<1>15. Way(q, s, v, up)
  BY <1>1, <1>3, <1>13, WayGrows
<1>16. StreamOK([proto EXCEPT ![e] = q], wire', up)
  BY <1>1, <1>5, <1>7, <1>8, <1>9, <1>13, <1>14, <1>15, OneEnd DEF s, d
<1> QED BY <1>3, <1>16 DEF Inv

(* The connection breaks.                                                     *)
LEMMA BreakOK ==
    ASSUME Inv, Break
    PROVE  Inv'
<1> DEFINE none == [e \in Ends |-> <<>>]
<1>1. proto' = proto /\ wire' = none /\ up' = FALSE
  BY DEF Break
<1>2. none \in [Ends -> Chunk]
  BY EmptySeq DEF Chunk
<1>3. ASSUME NEW e \in Ends PROVE EndOK(proto, none, FALSE, e)
  <2>1. EndOK(proto, wire, up, e)
    BY DEF Inv, StreamOK
  <2>2. Way(proto[e], proto[Peer(e)], none[e], FALSE)
    BY <2>1 DEF EndOK, Way
  <2> QED BY <2>1, <2>2 DEF EndOK
<1>4. proto \in [Ends -> Proto]
  BY DEF Inv, StreamOK
<1> HIDE DEF none
<1>5. StreamOK(proto, none, FALSE)
  BY <1>2, <1>3, <1>4 DEF StreamOK
<1> QED BY <1>1, <1>5 DEF Inv

(* Every step keeps the invariant.                                            *)
LEMMA NextOK == Inv /\ [Next]_vars => Inv'
<1> SUFFICES ASSUME Inv, [Next]_vars PROVE Inv'
  OBVIOUS
<1>1. ASSUME NEW e \in Ends, NEW len \in Lens, Post(e, len) PROVE Inv'
  BY <1>1, PostOK
<1>2. ASSUME NEW e \in Ends, Ping(e) PROVE Inv'
  BY <1>2, PingOK
<1>3. ASSUME NEW e \in Ends, Close(e) PROVE Inv'
  BY <1>3, ClosesOK DEF Close, Closes
<1>4. ASSUME NEW e \in Ends, Transmit(e) PROVE Inv'
  BY <1>4, TransmitOK
<1>5. ASSUME NEW e \in Ends, WriteDone(e) PROVE Inv'
  BY <1>5, WriteEnds
<1>6. ASSUME NEW e \in Ends, Read(e) PROVE Inv'
  BY <1>6, ReadsOK
<1>7. ASSUME NEW e \in Ends, ReadError(e) PROVE Inv'
  BY <1>7, ClosesOK DEF ReadError, Closes
<1>8. CASE Break
  BY <1>8, BreakOK
<1>9. CASE UNCHANGED vars
  BY <1>9 DEF vars, Inv
<1> QED BY <1>1, <1>2, <1>3, <1>4, <1>5, <1>6, <1>7, <1>8, <1>9 DEF Next

-----------------------------------------------------------------------------
(* The theorems. *)

(* Inv is an invariant of the specification.                                  *)
THEOREM Invariance == Spec => []Inv
  BY InitOK, NextOK, PTL DEF Spec

(* Type correctness: what the buffers hold stays within their limits, an end   *)
(* that reads has room to read into (the assertion in alloc_recv_buffer), and  *)
(* a write is only ever of something.                                          *)
THEOREM TypeCorrect == Spec => []TypeOK
<1>1. Inv => TypeOK
  <2> SUFFICES ASSUME Inv, NEW e \in Ends
               PROVE  /\ proto[e].writing => proto[e].out # <<>>
                      /\ proto[e].closed => proto[e].closing
                      /\ Len(FlattenSeq(proto[e].out)) <= SendLimit
                      /\ ~proto[e].closing => Room(proto[e]) > 0
    BY DEF Inv, StreamOK, TypeOK
  <2> DEFINE p == proto[e]
  <2>1. SideOK(p) /\ (~p.closing => RecvOK(p))
    BY TwoEnds DEF Inv
  <2> HIDE DEF p
  <2>2. Len(p.head) \in Nat /\ Len(p.block.data) \in Nat /\ p.block.need \in Nat
    BY <2>1, LenProperties DEF SideOK, Proto, Box, Chunk
  <2>3. ~p.closing => Room(p) > 0
    BY <2>1, <2>2, SizeAssumption DEF RecvOK, Room
  <2> QED BY <2>1, <2>3 DEF SideOK, p
<1> QED BY <1>1, Invariance, PTL

(* A block that waits is never without a write in flight whose callback will   *)
(* look at it: try_write is called wherever a block is queued or popped.       *)
THEOREM NeverStranded == Spec => []NothingStranded
<1>1. Inv => NothingStranded
  BY DEF Inv, StreamOK, EndOK, SideOK, NothingStranded
<1> QED BY <1>1, Invariance, PTL

(* Cutting a sequence off.                                                     *)
LEMMA AfterJoin ==
    ASSUME NEW S, NEW a \in Seq(S), NEW b \in Seq(S)
    PROVE  After(a \o b, Len(a)) = b
<1> DEFINE s == a \o b
<1>1. s \in Seq(S) /\ Len(s) = Len(a) + Len(b) /\ Len(a) \in Nat /\ Len(b) \in Nat
  BY ConcatProperties, LenProperties
<1>2. Cuts(S, s, <<>>, a, b)
  <2>1. s \o <<>> = a \o b /\ <<>> \in Seq(S)
    BY <1>1, ConcatEmptySeq, EmptySeq
  <2> HIDE DEF s
  <2>2. Len(a) <= Len(s)
    BY <1>1
  <2> QED BY <1>1, <2>1, <2>2 DEF Cuts
<1> HIDE DEF s
<1>3. After(s, Len(a)) \in Seq(S) /\ After(s, Len(a)) \o <<>> = b
  BY <1>2, TwoCuts
<1>4. After(s, Len(a)) = b
  BY <1>3, ConcatEmptySeq
<1> QED BY <1>4 DEF s

(* While both ends are open the bytes on their way, from the block being       *)
(* received to the last block queued, are the frames of the messages sent and  *)
(* not yet dispatched.                                                         *)
THEOREM BytesStayInOrder == Spec => []BytesInOrder
<1>1. Inv => BytesInOrder
  <2> SUFFICES ASSUME Inv, NEW e \in Ends, up, ~proto[e].closing, ~proto[Peer(e)].closing
               PROVE  LET p == proto[e]
                          r == proto[Peer(e)]
                          queued == IF p.writing /\ p.handed THEN Tail(p.out) ELSE p.out
                          left == SubSeq(p.sent, Len(r.got) + 1, Len(p.sent))
                      IN  r.head \o r.block.data \o wire[e] \o FlattenSeq(queued)
                             = FlattenSeq([i \in 1..Len(left) |-> Bytes(left[i])])
    BY DEF BytesInOrder
  <2> DEFINE p == proto[e]
             r == proto[Peer(e)]
             w == wire[e]
             left == After(p.sent, Len(r.got))
             h == Held(r)
             u == Unsent(p)
  <2>1. SideOK(p) /\ SideOK(r) /\ Way(p, r, w, up)
    BY TwoEnds DEF Inv
  <2> HIDE DEF p, r, w
  <2>2. PICK ms \in Seq(Msg) : p.sent = r.got \o ms /\ Flow(p, r, w, <<>>, ms)
    BY <2>1 DEF Way, p, r
  <2>3. left = ms
    <3> DEFINE a == r.got
    <3>1. a \in Seq(Msg) /\ p.sent = a \o ms
      BY <2>1, <2>2, QueuedOK
    <3> HIDE DEF a
    <3>2. After(a \o ms, Len(a)) = ms
      BY <3>1, AfterJoin
    <3> QED BY <3>1, <3>2, Zenon DEF a
  <2>4. u \in Chunk
    BY <2>1, QueuedOK
  <2> HIDE DEF h, u, left
  <2>5. u \o <<>> = u
    BY <2>4, ConcatEmptySeq DEF Chunk
  <2>6. (h \o w) \o (u \o <<>>) = Wire(left)
    BY <2>2, <2>3, Zenon DEF Flow, h, u
  <2>7. ((r.head \o r.block.data) \o w) \o FlattenSeq(IF p.writing /\ p.handed THEN Tail(p.out) ELSE p.out)
          = Wire(left)
    BY <2>5, <2>6, Zenon DEF Held, Unsent, Queued, h, u
  <2>8. Wire(left) = FlattenSeq([i \in 1..Len(left) |-> Bytes(left[i])])
    BY Zenon DEF Wire, Frames
  <2> QED BY <2>7, <2>8, Zenon DEF p, r, w, left, After
<1> QED BY <1>1, Invariance, PTL
=============================================================================
