----------------------- MODULE AtproxyManagerProofs -----------------------
(***************************************************************************)
(* Proofs about AtproxyManager, for every set of proxies, whatever they    *)
(* announce, and every retry interval.  A node of proxy_set_ remembers the *)
(* time of its check, and that check is in the list unless tick() has set  *)
(* the time to 0 (Kept); tick() keeps this through its loop, where the     *)
(* checks it has popped and not yet looked at count as well.  ListOK       *)
(* bounds how far behind its time a check can be.                          *)
(***************************************************************************)
EXTENDS AtproxyManager, SequenceTheorems, FiniteSetTheorems, TLAPS

Fold == INSTANCE FoldProofs WITH Op <- RunCheck

Node == [listens: Seq(Addrs), available: BOOLEAN, next: Times]
NodeSet == [Proxy -> Node \cup {Nil}]
Entry == [p: Proxy, left: Int]
State == [proxies: NodeSet, checks: Seq(Entry), dialled: SUBSET (Proxy \ {Self})]

Entries(q) == {q[k] : k \in 1..Len(q)}

\* the list after late announcements: the first check has just become due at the
\* latest, and no check is much earlier than one in front of it
ListOK(q, late) ==
    /\ q \in Seq(Entry)
    /\ \A k \in 1..Len(q) : q[k].left <= RetryDelay
    /\ Len(q) > 0 => q[1].left >= -1
    /\ \A j, k \in 1..Len(q) : j <= k => q[k].left >= q[j].left - (RetryDelay + late)

CheckOf(p, nd) == [p |-> p, left |-> nd.next]

\* the check a node remembers is among the checks Q
Kept(p, nd, Q) ==
    nd # Nil /\ nd.listens # <<>> /\ p # Self =>
        /\ nd.next = Epoch \/ CheckOf(p, nd) \in Q
        /\ nd.available /\ p \notin endpoints => CheckOf(p, nd) \in Q

IndInv ==
    /\ announced \in [Proxy -> Infos \cup {Nil}]
    /\ [proxies |-> proxies, checks |-> checks, dialled |-> dialled] \in State
    /\ endpoints \subseteq Proxy \ {Self}
    /\ stopping \in BOOLEAN /\ bus \in BOOLEAN
    /\ updates \in 0..MaxUpdates /\ losses \in 0..MaxLosses
    /\ ListOK(checks, updates)
    /\ \A p \in Proxy : proxies[p] # Nil => updates >= 1
    /\ \A p \in Proxy : Kept(p, proxies[p], Entries(checks))

-----------------------------------------------------------------------------
(* Times and addresses. *)

(* The times the handlers set can be told apart.                              *)
LEMMA TimesSet ==
    /\ RetryDelay \in Nat /\ RetryDelay >= 1 /\ Epoch \in Int /\ Epoch < -1
    /\ RetryDelay \in Times /\ 1 \in Times /\ 0 \in Times /\ -1 \in Times /\ Epoch \in Times
    /\ \A t \in Times : t \in Int /\ t >= Epoch
  BY ConstantsAssumption, LagAssumption DEF RetryDelay, Times, Epoch

(* The rotations of the addresses of a proxy are rotations.                   *)
LEMMA Rotations ==
    ASSUME NEW l \in Seq(Addrs), l # <<>>
    PROVE  /\ NextAddress(FirstUsable(l)) \in Seq(Addrs)
           /\ NextAddress(FirstUsable(l)) # <<>>
<1>1. Len(l) \in Nat /\ Len(l) >= 1
  BY EmptySeq
<1>2. FirstUsable(l) \in Seq(Addrs) /\ FirstUsable(l) # <<>>
  <2>1. CASE \E k \in 1..Len(l) : l[k] \in Usable
    <3> DEFINE U == {k \in 1..Len(l) : l[k] \in Usable}
               Is(j) == l[j] \in Usable /\ \A i \in 1..(j - 1) : l[i] \notin Usable
               k == CHOOSE j \in 1..Len(l) : Is(j)
    <3>1. U \in SUBSET Nat /\ U # {}
      BY <2>1
    <3>2. PICK m \in U : \A y \in U : m <= y
      <4> HIDE DEF U
      <4> QED BY <3>1, Fold!NatMin
    <3>3. m \in 1..Len(l) /\ Is(m)
      BY <3>2
    <3>4. k \in 1..Len(l)
      <4> HIDE DEF Is
      <4> QED BY <3>3
    <3>5. FirstUsable(l) = SubSeq(l, k, Len(l)) \o SubSeq(l, 1, k - 1)
      BY <2>1 DEF FirstUsable
    <3> HIDE DEF k
    <3>6. /\ SubSeq(l, k, Len(l)) \in Seq(Addrs) /\ SubSeq(l, 1, k - 1) \in Seq(Addrs)
          /\ Len(SubSeq(l, k, Len(l))) = Len(l) - k + 1
      BY <1>1, <3>4, SubSeqProperties
    <3>7. Len(SubSeq(l, k, Len(l)) \o SubSeq(l, 1, k - 1)) >= 1
      BY <1>1, <3>4, <3>6, ConcatProperties
    <3> DEFINE c == SubSeq(l, k, Len(l)) \o SubSeq(l, 1, k - 1)
    <3>8. c \in Seq(Addrs)
      BY <3>6, ConcatProperties
    <3>9. Len(c) >= 1
      BY <3>7
    <3> HIDE DEF c
    <3>10. c # <<>>
      BY <3>9
    <3> QED BY <3>5, <3>8, <3>10 DEF c
  <2>2. CASE ~ \E k \in 1..Len(l) : l[k] \in Usable
    BY <2>2 DEF FirstUsable
  <2> QED BY <2>1, <2>2
<1> DEFINE u == FirstUsable(l)
<1> HIDE DEF u
<1>3. u \in Seq(Addrs) /\ u # <<>>
  BY <1>2 DEF u
<1>4. Append(Tail(u), Head(u)) \in Seq(Addrs) /\ Append(Tail(u), Head(u)) # <<>>
  <2> DEFINE x == Tail(u)
             y == Head(u)
  <2>1. x \in Seq(Addrs) /\ y \in Addrs
    BY <1>3, HeadTailProperties
  <2> HIDE DEF x, y
  <2>2. Append(x, y) \in Seq(Addrs) /\ Append(x, y) # <<>>
    BY <2>1, AppendProperties
  <2> QED BY <2>2 DEF x, y
<1> QED BY <1>3, <1>4 DEF NextAddress, u

-----------------------------------------------------------------------------
(* The list of checks. *)

(* The list holds checks.                                                     *)
LEMMA ListTyped ==
    ASSUME NEW q \in Seq(Entry)
    PROVE  /\ Len(q) \in Nat
           /\ \A k \in 1..Len(q) : q[k] \in Entry /\ q[k].left \in Int
<1>1. ASSUME NEW k \in 1..Len(q) PROVE q[k] \in Entry /\ q[k].left \in Int
  <2>1. q[k] \in Entry
    BY ElementOfSeq
  <2> QED BY <2>1 DEF Entry
<1> QED BY <1>1

(* No check is so late that its time is not told apart.                       *)
LEMMA ListBounded ==
    ASSUME NEW late \in 0..MaxUpdates, NEW q, ListOK(q, late), NEW k \in 1..Len(q)
    PROVE  /\ q[k] \in Entry /\ q[k].left \in Times /\ q[k].left > Epoch
           /\ q[k].left >= -1 - RetryDelay - late
<1>1. Len(q) \in Nat /\ q[k] \in Entry /\ q[1] \in Entry /\ Len(q) > 0
  BY ElementOfSeq DEF ListOK
<1>2. q[1].left >= -1 /\ q[k].left >= q[1].left - (RetryDelay + late) /\ q[k].left <= RetryDelay
  BY <1>1 DEF ListOK
<1>3. q[k].left \in Int /\ q[1].left \in Int
  BY <1>1 DEF Entry
<1>4. late \in Nat /\ late <= MaxUpdates /\ MaxUpdates \in Nat
  BY ConstantsAssumption
<1>5. q[k].left >= -1 - RetryDelay - late
  BY <1>2, <1>3, <1>4, TimesSet
<1>6. q[k].left > Epoch
  BY <1>3, <1>4, <1>5, LagAssumption, TimesSet, ConstantsAssumption DEF Epoch
<1>7. q[k].left \in Times
  BY <1>2, <1>3, <1>6, TimesSet, ConstantsAssumption DEF Times, RetryDelay
<1> QED BY <1>1, <1>5, <1>6, <1>7

(* A check appended to the list.                                              *)
LEMMA ListAppended ==
    ASSUME NEW late \in Nat, NEW q, ListOK(q, late), NEW e \in Entry,
           e.left >= -1, e.left <= RetryDelay, e.left >= 0 \/ late >= 1
    PROVE  ListOK(Append(q, e), late) /\ Entries(Append(q, e)) = Entries(q) \cup {e}
<1> DEFINE a == Append(q, e)
<1>1. q \in Seq(Entry) /\ Len(q) \in Nat
  BY DEF ListOK
<1>2. /\ a \in Seq(Entry) /\ Len(a) = Len(q) + 1
      /\ a[Len(q) + 1] = e /\ \A k \in 1..Len(q) : a[k] = q[k]
  BY <1>1, AppendProperties
<1> HIDE DEF a
<1>3. \A k \in 1..Len(q) : q[k].left \in Int /\ q[k].left <= RetryDelay
  BY <1>1, ListTyped DEF ListOK
<1>4. e.left \in Int
  BY DEF Entry
<1>5. \A k \in 1..Len(a) : k \in 1..Len(q) \/ k = Len(q) + 1
  BY <1>1, <1>2
<1>6. \A k \in 1..Len(a) : a[k].left <= RetryDelay
  BY <1>2, <1>3, <1>5
<1>7. a[1].left >= -1
  <2>1. CASE Len(q) = 0
    BY <1>2, <2>1
  <2>2. CASE Len(q) > 0
    <3>1. a[1] = q[1]
      BY <1>1, <1>2, <2>2
    <3> QED BY <2>2, <3>1 DEF ListOK
  <2> QED BY <1>1, <2>1, <2>2
<1>8. ASSUME NEW j \in 1..Len(a), NEW k \in 1..Len(a), j <= k
      PROVE  a[k].left >= a[j].left - (RetryDelay + late)
  <2>1. CASE k \in 1..Len(q)
    <3>1. j \in 1..Len(q)
      BY <1>1, <1>2, <1>8, <2>1
    <3> QED BY <1>2, <1>8, <2>1, <3>1 DEF ListOK
  <2>2. CASE k = Len(q) + 1
    <3>1. a[j].left \in Int /\ a[j].left <= RetryDelay
      BY <1>2, <1>3, <1>4, <1>5
    <3>2. a[k] = e
      BY <1>2, <2>2
    <3> QED BY <1>4, <3>1, <3>2, TimesSet
  <2> QED BY <1>5, <2>1, <2>2
<1>9. ListOK(a, late)
  BY <1>2, <1>6, <1>7, <1>8 DEF ListOK
<1>10. Entries(a) = Entries(q) \cup {e}
  <2>1. ASSUME NEW x \in Entries(a) PROVE x \in Entries(q) \cup {e}
    BY <1>2, <1>5 DEF Entries
  <2>2. ASSUME NEW x \in Entries(q) PROVE x \in Entries(a)
    <3>1. PICK k \in 1..Len(q) : x = q[k]
      BY DEF Entries
    <3>2. k \in 1..Len(a) /\ a[k] = x
      BY <1>1, <1>2, <3>1
    <3> QED BY <3>2 DEF Entries
  <2>3. e \in Entries(a)
    <3>1. Len(q) + 1 \in 1..Len(a)
      BY <1>1, <1>2
    <3> QED BY <1>2, <3>1 DEF Entries
  <2> QED BY <2>1, <2>2, <2>3
<1> QED BY <1>9, <1>10 DEF a

(* A check of this moment put in front, by the next announcement.              *)
LEMMA ListPrepended ==
    ASSUME NEW late \in 0..MaxUpdates, NEW q, ListOK(q, late), NEW e \in Entry, e.left = 0
    PROVE  /\ ListOK(<<e>> \o q, late + 1)
           /\ Entries(<<e>> \o q) = {e} \cup Entries(q)
           /\ <<e>> \o q \in Seq(Entry)
<1> DEFINE a == <<e>> \o q
<1>1. q \in Seq(Entry) /\ Len(q) \in Nat /\ <<e>> \in Seq(Entry) /\ Len(<<e>>) = 1
  BY DEF ListOK
<1>2. /\ a \in Seq(Entry) /\ Len(a) = Len(q) + 1
      /\ a[1] = e /\ \A k \in 2..(Len(q) + 1) : a[k] = q[k - 1]
  BY <1>1, ConcatProperties
<1> HIDE DEF a
<1>3. \A k \in 1..Len(q) : /\ q[k].left \in Int /\ q[k].left <= RetryDelay
                           /\ q[k].left >= -1 - RetryDelay - late
  BY ListBounded DEF ListOK, Entry
<1>4. \A k \in 1..Len(a) : k = 1 \/ (k \in 2..(Len(q) + 1) /\ k - 1 \in 1..Len(q))
  BY <1>1, <1>2
<1>5. \A k \in 1..Len(a) : a[k].left <= RetryDelay
  BY <1>2, <1>3, <1>4, TimesSet, SMTT(30)
<1>6. ASSUME NEW j \in 1..Len(a), NEW k \in 1..Len(a), j <= k
      PROVE  a[k].left >= a[j].left - (RetryDelay + (late + 1))
  <2>0. late \in Nat
    BY ConstantsAssumption
  <2>1. CASE k = 1
    <3>1. j = 1
      BY <1>6, <2>1
    <3> QED BY <1>2, <2>0, <2>1, <3>1, TimesSet
  <2>2. CASE k # 1 /\ j = 1
    <3>1. a[k] = q[k - 1] /\ q[k - 1].left \in Int /\ q[k - 1].left >= -1 - RetryDelay - late
      BY <1>2, <1>3, <1>4, <2>2
    <3> QED BY <1>2, <2>0, <2>2, <3>1, TimesSet
  <2>3. CASE k # 1 /\ j # 1
    <3>1. /\ a[k] = q[k - 1] /\ k - 1 \in 1..Len(q)
          /\ a[j] = q[j - 1] /\ j - 1 \in 1..Len(q) /\ j - 1 <= k - 1
      BY <1>2, <1>4, <1>6, <2>3
    <3>2. q[k - 1].left >= q[j - 1].left - (RetryDelay + late)
      BY <3>1 DEF ListOK
    <3>3. q[k - 1].left \in Int /\ q[j - 1].left \in Int
      BY <1>3, <3>1
    <3> QED BY <2>0, <3>1, <3>2, <3>3, TimesSet, SMTT(30)
  <2> QED BY <2>1, <2>2, <2>3
<1>7. ListOK(a, late + 1)
  BY <1>2, <1>5, <1>6 DEF ListOK
<1>8. Entries(a) = {e} \cup Entries(q)
  <2>1. ASSUME NEW x \in Entries(a) PROVE x \in {e} \cup Entries(q)
    BY <1>2, <1>4 DEF Entries
  <2>2. ASSUME NEW x \in Entries(q) PROVE x \in Entries(a)
    <3>1. PICK k \in 1..Len(q) : x = q[k]
      BY DEF Entries
    <3>2. k + 1 \in 1..Len(a) /\ k + 1 \in 2..(Len(q) + 1) /\ (k + 1) - 1 = k
      BY <1>1, <1>2, <3>1
    <3> QED BY <1>2, <3>1, <3>2 DEF Entries
  <2>3. e \in Entries(a)
    <3>1. 1 \in 1..Len(a)
      BY <1>1, <1>2
    <3> QED BY <1>2, <3>1 DEF Entries
  <2> QED BY <2>1, <2>2, <2>3
<1> QED BY <1>2, <1>7, <1>8 DEF a

(* What an announcement allows more than before.                               *)
LEMMA ListLater ==
    ASSUME NEW late \in Nat, NEW q, ListOK(q, late) PROVE ListOK(q, late + 1)
<1>1. \A k \in 1..Len(q) : q[k].left \in Int
  BY ListTyped DEF ListOK
<1> QED BY <1>1, TimesSet, SMTT(30) DEF ListOK

(* The checks that are left of the list when the first n are popped.            *)
LEMMA ListPopped ==
    ASSUME NEW late \in Nat, NEW q, ListOK(q, late), NEW n \in 0..Len(q),
           n < Len(q) => q[n + 1].left >= -1
    PROVE  LET rest == SubSeq(q, n + 1, Len(q))
               popped == SubSeq(q, 1, n)
           IN  /\ ListOK(rest, late)
               /\ popped \in Seq(Entry) /\ Len(popped) = n
               /\ \A k \in 1..n : popped[k] = q[k]
               /\ Entries(q) \subseteq Entries(rest) \cup {q[k] : k \in 1..n}
<1> DEFINE rest == SubSeq(q, n + 1, Len(q))
           popped == SubSeq(q, 1, n)
<1>1. q \in Seq(Entry) /\ Len(q) \in Nat /\ n \in Nat /\ n <= Len(q)
  BY ListTyped DEF ListOK
<1>2. /\ rest \in Seq(Entry) /\ Len(rest) = Len(q) - n
      /\ \A k \in 1..(Len(q) - n) : rest[k] = q[n + k]
  <2> DEFINE m == n + 1
  <2>1. /\ m \in Int /\ Len(q) \in Int /\ Len(q) - m + 1 = Len(q) - n
        /\ (IF m <= Len(q) THEN Len(q) - m + 1 ELSE 0) = Len(q) - n
        /\ \A k \in 1..(Len(q) - n) : m + k - 1 = n + k
    BY <1>1
  <2>2. \A i \in m..Len(q) : q[i] \in Entry
    BY <1>1, ElementOfSeq
  <2> HIDE DEF m
  <2>3. /\ SubSeq(q, m, Len(q)) \in Seq(Entry)
        /\ Len(SubSeq(q, m, Len(q))) = IF m <= Len(q) THEN Len(q) - m + 1 ELSE 0
        /\ \A k \in 1..(Len(q) - m + 1) : SubSeq(q, m, Len(q))[k] = q[m + k - 1]
    BY <2>1, <2>2, SubSeqProperties
  <2>4. ASSUME NEW k \in 1..(Len(q) - n) PROVE SubSeq(q, m, Len(q))[k] = q[n + k]
    BY <2>1, <2>3
  <2> QED BY <2>1, <2>3, <2>4 DEF m
<1>3. /\ popped \in Seq(Entry) /\ Len(popped) = n
      /\ \A k \in 1..n : popped[k] = q[k]
  <2>1. 1 \in 1..(Len(q) + 1) /\ n \in 0..Len(q)
    BY <1>1
  <2>2. \A k \in 1..n : 1 + k - 1 = k
    BY <1>1
  <2> QED BY <1>1, <2>1, <2>2, SubSeqProperties
<1> HIDE DEF rest, popped
<1>4. \A k \in 1..Len(rest) : n + k \in 1..Len(q) /\ rest[k] = q[n + k]
  BY <1>1, <1>2
<1>5. \A k \in 1..Len(rest) : rest[k].left <= RetryDelay
  BY <1>4 DEF ListOK
<1>6. Len(rest) > 0 => rest[1].left >= -1
  BY <1>1, <1>2, <1>4
<1>7. ASSUME NEW j \in 1..Len(rest), NEW k \in 1..Len(rest), j <= k
      PROVE  rest[k].left >= rest[j].left - (RetryDelay + late)
  <2>1. n + j <= n + k
    BY <1>1, <1>7
  <2> QED BY <1>4, <2>1 DEF ListOK
<1>8. ListOK(rest, late)
  BY <1>2, <1>5, <1>6, <1>7 DEF ListOK
<1>9. ASSUME NEW x \in Entries(q) PROVE x \in Entries(rest) \cup {q[k] : k \in 1..n}
  <2>1. PICK k \in 1..Len(q) : x = q[k]
    BY DEF Entries
  <2>2. CASE k > n
    <3>1. k - n \in 1..Len(rest) /\ n + (k - n) = k
      BY <1>1, <1>2, <2>1, <2>2
    <3>2. rest[k - n] = x
      BY <1>4, <2>1, <3>1
    <3> QED BY <3>1, <3>2 DEF Entries
  <2>3. CASE k <= n
    <3>1. k \in 1..n
      BY <1>1, <2>1, <2>3
    <3> QED BY <2>1, <3>1
  <2> QED BY <1>1, <2>1, <2>2, <2>3
<1> QED BY <1>3, <1>8, <1>9 DEF rest, popped

(* tick() pops the checks up to the first that is not due.                      *)
LEMMA DuePrefix ==
    ASSUME checks \in Seq(Entry)
    PROVE  LET n == Cardinality(Due) IN
           /\ n \in 0..Len(checks)
           /\ n < Len(checks) => checks[n + 1].left >= 0
<1>1. Len(checks) \in Nat /\ \A k \in 1..Len(checks) : checks[k].left \in Int
  BY ListTyped
<1> DEFINE L == {k \in 1..Len(checks) : checks[k].left >= 0}
<1>2. CASE L = {}
  <2>1. \A k \in 1..Len(checks) : checks[k].left < 0
    BY <1>1, <1>2
  <2>2. Due = 1..Len(checks)
    <3>1. ASSUME NEW k \in 1..Len(checks) PROVE \A j \in 1..k : checks[j].left < 0
      BY <1>1, <2>1
    <3> QED BY <3>1 DEF Due
  <2>3. Cardinality(1..Len(checks)) = IF 1 > Len(checks) THEN 0 ELSE Len(checks) - 1 + 1
    BY <1>1, FS_Interval
  <2>4. Cardinality(Due) = Len(checks)
    BY <1>1, <2>2, <2>3
  <2> QED BY <1>1, <2>4
<1>3. CASE L # {}
  <2>1. L \in SUBSET Nat
    OBVIOUS
  <2>2. PICK m \in L : \A y \in L : m <= y
    <3> HIDE DEF L
    <3> QED BY <1>3, <2>1, Fold!NatMin
  <2>3. m \in 1..Len(checks) /\ checks[m].left >= 0
    BY <2>2
  <2>4. \A j \in 1..(m - 1) : checks[j].left < 0
    <3> SUFFICES ASSUME NEW j \in 1..(m - 1) PROVE checks[j].left < 0
      OBVIOUS
    <3>1. j \in 1..Len(checks) /\ ~(m <= j)
      BY <1>1, <2>3
    <3>2. j \notin L
      BY <2>2, <3>1
    <3> QED BY <1>1, <3>1, <3>2
  <2>5. Due = 1..(m - 1)
    <3>1. ASSUME NEW k \in Due PROVE k \in 1..(m - 1)
      <4>1. k \in 1..Len(checks) /\ \A j \in 1..k : checks[j].left < 0
        BY DEF Due
      <4>2. ~(m <= k)
        BY <1>1, <2>3, <4>1
      <4> QED BY <1>1, <2>3, <4>1, <4>2
    <3>2. ASSUME NEW k \in 1..(m - 1) PROVE k \in Due
      <4>1. k \in 1..Len(checks) /\ \A j \in 1..k : j \in 1..(m - 1)
        BY <1>1, <2>3
      <4> QED BY <2>4, <4>1 DEF Due
    <3> QED BY <3>1, <3>2
  <2>6. Cardinality(Due) = m - 1
    <3>1. m - 1 \in Int /\ m >= 1 /\ m \in Int
      BY <2>3
    <3> QED BY <2>5, <3>1, FS_Interval
  <2>7. (m - 1) + 1 = m
    BY <2>3
  <2> QED BY <1>1, <2>3, <2>6, <2>7
<1> QED BY <1>2, <1>3

-----------------------------------------------------------------------------
(* One round of tick(). *)

\* the state of the loop, with the checks R still to be looked at
Looping(st, R) ==
    /\ st \in State
    /\ ListOK(st.checks, updates)
    /\ \A p \in Proxy : st.proxies[p] # Nil => proxies[p] # Nil
    /\ \A p \in Proxy : Kept(p, st.proxies[p], Entries(st.checks) \cup R)

Timed(px, p, t) == [px EXCEPT ![p].next = t]

(* What a handler leaves when it gives a node its next time and perhaps other    *)
(* addresses.                                                                  *)
LEMMA NodeSetTo ==
    ASSUME NEW px \in NodeSet, NEW p \in Proxy, px[p] \in Node, NEW t \in Times
    PROVE  LET q == Timed(px, p, t) IN
           /\ q \in NodeSet /\ q[p] \in Node
           /\ q[p].next = t /\ q[p].listens = px[p].listens
           /\ q[p].available = px[p].available
           /\ \A o \in Proxy \ {p} : q[o] = px[o]
<1> DEFINE q == Timed(px, p, t)
           r == [px[p] EXCEPT !.next = t]
<1>1. px[p] \in Node
  OBVIOUS
<1>2. /\ r \in Node /\ r.next = t /\ r.listens = px[p].listens
      /\ r.available = px[p].available
  BY <1>1 DEF Node
<1>3. q = [px EXCEPT ![p] = r]
  BY DEF Timed
<1> HIDE DEF r
<1>4. q[p] = r /\ q \in NodeSet /\ \A o \in Proxy \ {p} : q[o] = px[o]
  BY <1>2, <1>3 DEF NodeSet
<1> QED BY <1>2, <1>4

(* A check is put off.                                                         *)
LEMMA ScheduleLooping ==
    ASSUME updates \in 0..MaxUpdates,
           \A o \in Proxy : proxies[o] # Nil => updates >= 1,
           NEW st, NEW R, NEW p \in Proxy, p # Self,
           st \in State, ListOK(st.checks, updates),
           \A o \in Proxy \ {p} : st.proxies[o] # Nil => proxies[o] # Nil,
           \A o \in Proxy \ {p} : Kept(o, st.proxies[o], Entries(st.checks) \cup R),
           st.proxies[p] \in Node, proxies[p] # Nil,
           NEW t \in {-1, 1, RetryDelay}
    PROVE  Looping(Schedule(st, p, t), R)
<1> DEFINE e == [p |-> p, left |-> t]
           px == Timed(st.proxies, p, t)
           q == Append(st.checks, e)
           s == [proxies |-> px, checks |-> q, dialled |-> st.dialled]
<1>1. /\ st.proxies \in NodeSet /\ st.checks \in Seq(Entry)
      /\ st.dialled \in SUBSET (Proxy \ {Self})
  BY DEF State
<1>2. t \in Times /\ t \in Int /\ t >= -1 /\ t <= RetryDelay
  BY TimesSet
<1>3. e \in Entry /\ e.left = t
  BY <1>2 DEF Entry
<1>4. updates \in Nat /\ updates >= 1
  BY ConstantsAssumption
<1>5. /\ px \in NodeSet /\ px[p] \in Node
      /\ px[p].next = t /\ px[p].listens = st.proxies[p].listens
      /\ px[p].available = st.proxies[p].available
      /\ \A o \in Proxy \ {p} : px[o] = st.proxies[o]
  BY <1>1, <1>2, NodeSetTo
<1> HIDE DEF e
<1>6. ListOK(q, updates) /\ Entries(q) = Entries(st.checks) \cup {e}
  BY <1>2, <1>3, <1>4, ListAppended
<1>7. Schedule(st, p, t) = s
  <2>1. PICK A \in NodeSet, B \in Seq(Entry), C \in SUBSET (Proxy \ {Self}) :
           st = [proxies |-> A, checks |-> B, dialled |-> C]
    BY DEF State
  <2>2. st.proxies = A /\ st.checks = B /\ st.dialled = C
    BY <2>1
  <2> DEFINE T == Timed(A, p, t)
  <2>3. Schedule(st, p, t) = [st EXCEPT !.proxies = T, !.checks = Append(B, e)]
    BY <2>1 DEF Schedule, Timed, e
  <2> HIDE DEF T
  <2>4. Schedule(st, p, t) = [proxies |-> T, checks |-> Append(B, e), dialled |-> C]
    BY <2>1, <2>3
  <2> QED BY <2>2, <2>4 DEF T
<1>8. q \in Seq(Entry)
  BY <1>6 DEF ListOK
<1> HIDE DEF px, q
<1>9. s \in State /\ s.proxies = px /\ s.checks = q
  BY <1>1, <1>5, <1>8 DEF State
<1>10. ASSUME NEW o \in Proxy PROVE Kept(o, px[o], Entries(q) \cup R)
  <2>1. CASE o = p
    <3>1. CheckOf(p, px[p]) = e
      BY <1>5 DEF CheckOf, e
    <3> QED BY <1>6, <2>1, <3>1 DEF Kept
  <2>2. CASE o # p
    <3>1. Kept(o, px[o], Entries(st.checks) \cup R)
      BY <1>5, <2>2
    <3> QED BY <1>6, <3>1 DEF Kept
  <2> QED BY <2>1, <2>2
<1>11. ASSUME NEW o \in Proxy, px[o] # Nil PROVE proxies[o] # Nil
  BY <1>5, <1>11
<1> HIDE DEF s
<1>12. Looping(s, R)
  BY <1>6, <1>9, <1>10, <1>11 DEF Looping
<1> QED BY <1>7, <1>12

(* A round keeps the state of the loop: the check it looks at is dropped only if  *)
(* its node remembers another, is connected or cannot be.                         *)
LEMMA RunCheckLooping ==
    ASSUME updates \in 0..MaxUpdates,
           \A o \in Proxy : proxies[o] # Nil => updates >= 1,
           NEW st, NEW R, NEW c \in Entry, Looping(st, R \cup {c})
    PROVE  Looping(RunCheck(st, c), R)
<1> DEFINE p == c.p
<1>1. p \in Proxy /\ c = [p |-> p, left |-> c.left] /\ c.left \in Int
  BY DEF Entry
<1>2. /\ st \in State /\ st.proxies \in NodeSet /\ st.checks \in Seq(Entry)
      /\ st.dialled \in SUBSET (Proxy \ {Self})
      /\ ListOK(st.checks, updates)
      /\ \A o \in Proxy : st.proxies[o] # Nil => proxies[o] # Nil
  BY DEF Looping, State
<1>3. \A o \in Proxy : Kept(o, st.proxies[o], Entries(st.checks) \cup (R \cup {c}))
  BY DEF Looping
<1>4. ASSUME NEW o \in Proxy, o # p PROVE Kept(o, st.proxies[o], Entries(st.checks) \cup R)
  <2>1. CheckOf(o, st.proxies[o]) # c
    <3>1. CheckOf(o, st.proxies[o]).p = o
      BY DEF CheckOf
    <3> QED BY <1>4, <3>1
  <2> QED BY <1>3, <2>1 DEF Kept
<1>5. CASE Skipped(st, c)
  <2>1. Kept(p, st.proxies[p], Entries(st.checks) \cup R)
    <3>1. CASE p = Self \/ st.proxies[p] = Nil \/ st.proxies[p].listens = <<>>
      BY <3>1 DEF Kept
    <3>2. CASE st.proxies[p].next > c.left /\ st.proxies[p] # Nil
      <4>1. st.proxies[p].next # c.left
        <5>1. st.proxies[p].next \in Int
          BY <1>1, <1>2, <3>2, TimesSet DEF NodeSet, Node
        <5> QED BY <1>1, <3>2, <5>1
      <4>2. CheckOf(p, st.proxies[p]) # c
        <5>1. CheckOf(p, st.proxies[p]).left = st.proxies[p].next
          BY DEF CheckOf
        <5> QED BY <4>1, <5>1
      <4> QED BY <1>1, <1>3, <4>2 DEF Kept
    <3> QED BY <1>5, <3>1, <3>2 DEF Skipped
  <2>2. RunCheck(st, c) = st
    BY <1>5 DEF RunCheck
  <2> QED BY <1>2, <1>4, <2>1, <2>2 DEF Looping
<1>6. CASE ~Skipped(st, c)
  <2>1. p # Self /\ st.proxies[p] # Nil /\ st.proxies[p].listens # <<>>
    BY <1>6 DEF Skipped
  <2>2. st.proxies[p] \in Node
    BY <1>1, <1>2, <2>1 DEF NodeSet
  <2> HIDE DEF p
  <2>3. CASE ~bus
    <3>1. RunCheck(st, c) = Schedule(st, p, 1)
      BY <1>6, <2>3 DEF RunCheck, p
    <3> QED BY <1>1, <1>2, <1>4, <2>1, <2>2, <3>1, TimesSet, ScheduleLooping
  <2>4. CASE bus /\ (p \in endpoints \/ ~st.proxies[p].available)
    <3> DEFINE px == Timed(st.proxies, p, Epoch)
               s == [proxies |-> px, checks |-> st.checks, dialled |-> st.dialled]
    <3>1. RunCheck(st, c) = [st EXCEPT !.proxies[p].next = Epoch]
      BY <1>6, <2>4 DEF RunCheck, p
    <3>2. RunCheck(st, c) = s
      <4>1. st = [proxies |-> st.proxies, checks |-> st.checks, dialled |-> st.dialled]
        BY <1>2 DEF State
      <4> QED BY <3>1, <4>1 DEF Timed
    <3>3. /\ px \in NodeSet /\ px[p] \in Node
          /\ px[p].next = Epoch /\ px[p].listens = st.proxies[p].listens
          /\ px[p].available = st.proxies[p].available
          /\ \A o \in Proxy \ {p} : px[o] = st.proxies[o]
      BY <1>1, <1>2, <2>2, TimesSet, NodeSetTo
    <3> HIDE DEF px
    <3>4. s \in State /\ s.proxies = px /\ s.checks = st.checks
      BY <1>2, <3>3 DEF State
    <3>5. ASSUME NEW o \in Proxy PROVE Kept(o, px[o], Entries(st.checks) \cup R)
      <4>1. CASE o = p
        BY <2>4, <3>3, <4>1 DEF Kept
      <4>2. CASE o # p
        BY <1>4, <3>3, <4>2
      <4> QED BY <4>1, <4>2
    <3>6. ASSUME NEW o \in Proxy, px[o] # Nil PROVE proxies[o] # Nil
      BY <1>2, <2>1, <3>3, <3>6
    <3> HIDE DEF s
    <3>7. Looping(s, R)
      BY <1>2, <3>4, <3>5, <3>6 DEF Looping
    <3> QED BY <3>2, <3>7
  <2>5. CASE bus /\ ~(p \in endpoints \/ ~st.proxies[p].available)
    <3> DEFINE l == FirstUsable(st.proxies[p].listens)
               a == NextAddress(l)
               px == [st.proxies EXCEPT ![p].listens = a]
               D == IF Head(l) \in Live THEN st.dialled \cup {p} ELSE st.dialled
               d == [proxies |-> px, checks |-> st.checks, dialled |-> D]
               r == [st.proxies[p] EXCEPT !.listens = a]
    <3>1. RunCheck(st, c) = Schedule([st EXCEPT !.proxies[p].listens = a, !.dialled = D], p,
                                     RetryDelay)
      BY <1>6, <2>5 DEF RunCheck, Dial, p
    <3>2. [st EXCEPT !.proxies[p].listens = a, !.dialled = D] = d
      <4>1. PICK A \in NodeSet, B \in Seq(Entry), C \in SUBSET (Proxy \ {Self}) :
               st = [proxies |-> A, checks |-> B, dialled |-> C]
        BY <1>2 DEF State
      <4> HIDE DEF a, D, l
      <4>2. st.proxies = A /\ st.checks = B
        BY <4>1
      <4> DEFINE T == [A EXCEPT ![p].listens = a]
      <4>3. [st EXCEPT !.proxies[p].listens = a, !.dialled = D]
              = [st EXCEPT !.proxies = T, !.dialled = D]
        BY <4>1
      <4> HIDE DEF T
      <4>4. [st EXCEPT !.proxies = T, !.dialled = D]
              = [proxies |-> T, checks |-> B, dialled |-> D]
        <5>1. [st EXCEPT !.proxies = T] = [proxies |-> T, checks |-> B, dialled |-> C]
          BY <4>1
        <5>2. [st EXCEPT !.proxies = T, !.dialled = D] = [[st EXCEPT !.proxies = T] EXCEPT !.dialled = D]
          BY <4>1
        <5>3. [[proxies |-> T, checks |-> B, dialled |-> C] EXCEPT !.dialled = D]
                = [proxies |-> T, checks |-> B, dialled |-> D]
          OBVIOUS
        <5> QED BY <5>1, <5>2, <5>3
      <4> QED BY <4>2, <4>3, <4>4 DEF T
    <3>3. a \in Seq(Addrs)
      <4>1. st.proxies[p].listens \in Seq(Addrs)
        BY <2>2 DEF Node
      <4> QED BY <2>1, <4>1, Rotations
    <3>4. D \in SUBSET (Proxy \ {Self})
      BY <1>1, <1>2, <2>1
    <3> HIDE DEF a, D, l
    <3>5. r \in Node
      BY <2>2, <3>3 DEF Node
    <3>6. px = [st.proxies EXCEPT ![p] = r]
      OBVIOUS
    <3> HIDE DEF r
    <3>7. px \in NodeSet /\ \A o \in Proxy \ {p} : px[o] = st.proxies[o]
      BY <1>1, <1>2, <3>5, <3>6 DEF NodeSet
    <3> HIDE DEF px
    <3>8. d \in State /\ d.proxies = px /\ d.checks = st.checks
      BY <1>2, <3>4, <3>7 DEF State
    <3> HIDE DEF d
    <3>9. px[p] \in Node
      BY <1>1, <1>2, <3>5, <3>6 DEF NodeSet
    <3>10. Looping(Schedule(d, p, RetryDelay), R)
      BY <1>1, <1>2, <1>4, <2>1, <3>7, <3>8, <3>9, ScheduleLooping
    <3> QED BY <3>1, <3>2, <3>10
  <2> QED BY <2>3, <2>4, <2>5
<1> QED BY <1>5, <1>6


-----------------------------------------------------------------------------
(* tick() and its loop. *)

(* At any point of the loop a node's check is a check.                         *)
LEMMA AnyCheck ==
    ASSUME NEW px \in NodeSet, NEW p \in Proxy, NEW Q, Entry \subseteq Q
    PROVE  Kept(p, px[p], Q)
<1> SUFFICES ASSUME px[p] # Nil PROVE CheckOf(p, px[p]) \in Q
  BY DEF Kept
<1>1. px[p] \in Node
  BY DEF NodeSet
<1>2. px[p].next \in Int
  BY <1>1, TimesSet DEF Node
<1>3. CheckOf(p, px[p]) \in Entry
  BY <1>2 DEF CheckOf, Entry
<1> QED BY <1>3

(* The loop over the first checks of the list keeps every node's check.         *)
LEMMA LoopKeeps ==
    ASSUME updates \in 0..MaxUpdates,
           \A o \in Proxy : proxies[o] # Nil => updates >= 1,
           NEW st, NEW todo \in Seq(Entry), Looping(st, Entries(todo))
    PROVE  Looping(FoldLeft(RunCheck, st, todo), {})
<1> DEFINE S == {x \in State : Looping(x, Entry)}
           n == Len(todo)
           Rest(k) == {todo[j] : j \in (k + 1)..n}
<1>1. st \in S
  <2>1. st \in State /\ st.proxies \in NodeSet
    BY DEF Looping, State
  <2>2. \A p \in Proxy : Kept(p, st.proxies[p], Entries(st.checks) \cup Entry)
    BY <2>1, AnyCheck
  <2> QED BY <2>1, <2>2 DEF Looping
<1>2. ASSUME NEW x \in S, NEW c \in Entry PROVE RunCheck(x, c) \in S
  <2>1. Entry = Entry \cup {c}
    OBVIOUS
  <2>2. Looping(x, Entry \cup {c})
    BY <2>1
  <2>3. Looping(RunCheck(x, c), Entry)
    BY <2>2, RunCheckLooping
  <2> QED BY <2>3 DEF Looping
<1> HIDE DEF S
<1>3. PICK f : Fold!Trace(f, S, st, todo) /\ Fold!Folded(st, todo) = f[n]
  BY <1>1, <1>2, Fold!FoldOp
<1>4. Fold!Folded(st, todo) = FoldLeft(RunCheck, st, todo)
  BY Zenon DEF Fold!Folded, Fold!FoldLeft, FoldLeft, Fold!MapThenFoldSet, MapThenFoldSet,
               Fold!Max, Max
<1>5. f[0] = st /\ \A k \in 1..n : f[k] = RunCheck(f[k - 1], todo[k])
  BY <1>3 DEF Fold!Trace
<1>6. n \in Nat /\ \A k \in 1..n : todo[k] \in Entry
  BY ListTyped
<1> DEFINE T == {k \in 0..n : Looping(f[k], Rest(k))}
<1>7. 0 \in T
  <2>1. Rest(0) = Entries(todo)
    BY DEF Entries
  <2>2. Looping(f[0], Rest(0))
    BY <1>5, <2>1
  <2> HIDE DEF Rest
  <2> QED BY <1>6, <2>2
<1>8. ASSUME NEW k \in 0..(n - 1), k \in T PROVE k + 1 \in T
  <2>1. k + 1 \in 1..n /\ k + 1 \in 0..n /\ (k + 1) - 1 = k
    BY <1>6
  <2>2. Rest(k) = Rest(k + 1) \cup {todo[k + 1]}
    <3>1. (k + 1)..n = ((k + 1) + 1)..n \cup {k + 1}
      BY <1>6, <2>1
    <3> QED BY <3>1
  <2>3. f[k + 1] = RunCheck(f[k], todo[k + 1])
    BY <1>5, <2>1
  <2>4. Looping(f[k], Rest(k + 1) \cup {todo[k + 1]})
    BY <1>8, <2>2
  <2> HIDE DEF Rest
  <2>5. Looping(RunCheck(f[k], todo[k + 1]), Rest(k + 1))
    BY <1>6, <2>1, <2>4, RunCheckLooping
  <2> QED BY <2>1, <2>3, <2>5
<1>9. n \in T
  <2>1. \A k \in 0..n : k \in T
    <3> HIDE DEF T
    <3> QED BY <1>6, <1>7, <1>8, Fold!Induct
  <2> HIDE DEF T
  <2> QED BY <1>6, <2>1
<1>10. Rest(n) = {}
  BY <1>6
<1> QED BY <1>3, <1>4, <1>9, <1>10

(* tick() forgets no check.                                                    *)
LEMMA TickKeeps == ASSUME IndInv, Tick PROVE IndInv'
<1> DEFINE n == Cardinality(Due)
           rest == SubSeq(checks, n + 1, Len(checks))
           todo == SubSeq(checks, 1, n)
           start == [proxies |-> proxies, checks |-> rest, dialled |-> dialled]
           end == FoldLeft(RunCheck, start, todo)
<1>1. /\ checks \in Seq(Entry) /\ proxies \in NodeSet
      /\ dialled \in SUBSET (Proxy \ {Self})
      /\ updates \in 0..MaxUpdates /\ updates \in Nat
      /\ ListOK(checks, updates)
      /\ \A p \in Proxy : proxies[p] # Nil => updates >= 1
      /\ \A p \in Proxy : Kept(p, proxies[p], Entries(checks))
  BY ConstantsAssumption DEF IndInv, State
<1>2. n \in 0..Len(checks) /\ (n < Len(checks) => checks[n + 1].left >= 0)
  BY <1>1, DuePrefix
<1>3. n < Len(checks) => checks[n + 1].left >= -1
  <2> SUFFICES ASSUME n < Len(checks) PROVE checks[n + 1].left >= -1
    OBVIOUS
  <2>1. Len(checks) \in Nat /\ n + 1 \in 1..Len(checks)
    BY <1>1, <1>2, ListTyped
  <2>2. checks[n + 1].left \in Int
    BY <1>1, <2>1, ListTyped
  <2> QED BY <1>2, <2>2
<1>4. /\ proxies' = end.proxies /\ checks' = end.checks /\ dialled' = end.dialled
      /\ UNCHANGED <<announced, updates, stopping, bus, endpoints, losses>>
  BY DEF Tick, etcd, life
<1> HIDE DEF n
<1>5. /\ ListOK(rest, updates)
      /\ todo \in Seq(Entry) /\ Len(todo) = n
      /\ \A k \in 1..n : todo[k] = checks[k]
      /\ Entries(checks) \subseteq Entries(rest) \cup {checks[k] : k \in 1..n}
  BY <1>1, <1>2, <1>3, ListPopped
<1> HIDE DEF rest, todo
<1>6. Looping(start, Entries(todo))
  <2>1. rest \in Seq(Entry)
    BY <1>5 DEF ListOK
  <2>2. start \in State /\ start.checks = rest /\ start.proxies = proxies
    BY <1>1, <2>1 DEF State
  <2>3. {checks[k] : k \in 1..n} \subseteq Entries(todo)
    BY <1>5 DEF Entries
  <2>4. ASSUME NEW p \in Proxy PROVE Kept(p, proxies[p], Entries(rest) \cup Entries(todo))
    <3>1. Entries(checks) \subseteq Entries(rest) \cup Entries(todo)
      BY <1>5, <2>3
    <3>2. Kept(p, proxies[p], Entries(checks))
      BY <1>1
    <3> QED BY <3>1, <3>2 DEF Kept
  <2> HIDE DEF start
  <2> QED BY <1>5, <2>2, <2>4 DEF Looping
<1> HIDE DEF start
<1>7. Looping(end, {})
  BY <1>1, <1>5, <1>6, LoopKeeps
<1> HIDE DEF end
<1>8. /\ end \in State
      /\ ListOK(end.checks, updates)
      /\ \A p \in Proxy : end.proxies[p] # Nil => proxies[p] # Nil
      /\ \A p \in Proxy : Kept(p, end.proxies[p], Entries(end.checks))
  BY <1>7 DEF Looping
<1>9. [proxies |-> end.proxies, checks |-> end.checks, dialled |-> end.dialled] \in State
  BY <1>8 DEF State
<1>10. \A p \in Proxy : proxies'[p] # Nil => updates' >= 1
  BY <1>1, <1>4, <1>8
<1>11. ListOK(checks, updates)'
  BY <1>4, <1>8
<1>12. \A p \in Proxy : Kept(p, proxies[p], Entries(checks))'
  BY <1>4, <1>8 DEF Kept
<1> QED BY <1>1, <1>4, <1>9, <1>10, <1>11, <1>12 DEF IndInv


-----------------------------------------------------------------------------
(* The other actions. *)

(* What the state is made of.                                                  *)
LEMMA Parts ==
    ASSUME IndInv
    PROVE  /\ checks \in Seq(Entry) /\ proxies \in NodeSet
           /\ dialled \in SUBSET (Proxy \ {Self})
           /\ updates \in Nat /\ losses \in Nat
           /\ \A p \in Proxy : proxies[p] # Nil => proxies[p] \in Node
  BY ConstantsAssumption DEF IndInv, State, NodeSet

(* An announcement that sets a node and puts a check of this moment in front.   *)
LEMMA NodeAnnounced ==
    ASSUME IndInv, NEW p \in Proxy, NEW r \in Node, r.next = 0,
           updates < MaxUpdates, updates' = updates + 1,
           announced' \in [Proxy -> Infos \cup {Nil}],
           proxies' = [proxies EXCEPT ![p] = r],
           checks' = <<[p |-> p, left |-> 0]>> \o checks,
           UNCHANGED <<dialled, endpoints, stopping, bus, losses>>
    PROVE  IndInv'
<1> DEFINE e == [p |-> p, left |-> 0]
<1>1. /\ checks \in Seq(Entry) /\ proxies \in NodeSet
      /\ dialled \in SUBSET (Proxy \ {Self}) /\ updates \in Nat
  BY Parts
<1>2. updates \in 0..MaxUpdates /\ ListOK(checks, updates)
  BY DEF IndInv
<1>3. e \in Entry /\ e.left = 0
  BY DEF Entry
<1>4. CheckOf(p, r) = e
  BY DEF CheckOf
<1> HIDE DEF e
<1>5. /\ ListOK(checks', updates + 1) /\ Entries(checks') = {e} \cup Entries(checks)
      /\ checks' \in Seq(Entry)
  BY <1>2, <1>3, ListPrepended DEF e
<1>6. /\ proxies' \in NodeSet /\ proxies'[p] = r
      /\ \A o \in Proxy \ {p} : proxies'[o] = proxies[o]
  BY <1>1 DEF NodeSet
<1>7. updates' \in 0..MaxUpdates /\ updates' >= 1
  BY <1>1, ConstantsAssumption
<1>8. [proxies |-> proxies', checks |-> checks', dialled |-> dialled'] \in State
  BY <1>1, <1>5, <1>6 DEF State
<1>9. ASSUME NEW o \in Proxy PROVE Kept(o, proxies[o], Entries(checks))'
  <2>1. CASE o = p
    BY <1>4, <1>5, <1>6, <2>1 DEF Kept
  <2>2. CASE o # p
    <3>1. Kept(o, proxies[o], Entries(checks)) /\ proxies'[o] = proxies[o]
      BY <1>6, <2>2 DEF IndInv
    <3> QED BY <1>5, <3>1 DEF Kept
  <2> QED BY <2>1, <2>2
<1>10. ListOK(checks, updates)'
  BY <1>5
<1> QED BY <1>7, <1>8, <1>9, <1>10 DEF IndInv

(* An announcement.                                                            *)
LEMMA AnnounceKeeps ==
    ASSUME IndInv, NEW p \in Proxy, NEW i \in Infos, Announce(p, i) PROVE IndInv'
<1>1. /\ checks \in Seq(Entry) /\ proxies \in NodeSet /\ updates \in Nat
      /\ proxies[p] # Nil => proxies[p] \in Node
  BY Parts
<1>2. /\ updates < MaxUpdates /\ updates' = updates + 1
      /\ announced' = [announced EXCEPT ![p] = i]
      /\ UNCHANGED <<dialled, endpoints, stopping, bus, losses>>
  BY DEF Announce, life
<1>3. announced' \in [Proxy -> Infos \cup {Nil}]
  BY <1>2 DEF IndInv
<1>4. i.listens \in Seq(Addrs)
  BY InfosAssumption
<1>5. CASE proxies[p] # Nil /\ UNCHANGED <<proxies, checks>>
  <2>1. ListOK(checks, updates + 1)
    BY <1>1, ListLater DEF IndInv
  <2>2. ListOK(checks, updates)'
    BY <1>2, <1>5, <2>1
  <2>3. \A o \in Proxy : Kept(o, proxies[o], Entries(checks))'
    BY <1>2, <1>5 DEF IndInv, Kept, Entries
  <2>4. updates' \in 0..MaxUpdates /\ updates' >= 1
    BY <1>1, <1>2, ConstantsAssumption
  <2>5. [proxies |-> proxies', checks |-> checks', dialled |-> dialled'] \in State
    BY <1>2, <1>5 DEF IndInv
  <2> QED BY <1>2, <1>3, <2>2, <2>3, <2>4, <2>5 DEF IndInv
<1>6. CASE /\ proxies[p] # Nil
           /\ proxies' = [proxies EXCEPT ![p] = [@ EXCEPT !.next = 0, !.listens = i.listens]]
           /\ checks' = <<[p |-> p, left |-> 0]>> \o checks
  <2> DEFINE r == [proxies[p] EXCEPT !.next = 0, !.listens = i.listens]
  <2>1. r \in Node /\ r.next = 0
    BY <1>1, <1>4, <1>6, TimesSet DEF Node
  <2>2. proxies' = [proxies EXCEPT ![p] = r]
    BY <1>1, <1>6 DEF NodeSet
  <2> HIDE DEF r
  <2> QED BY <1>2, <1>3, <1>6, <2>1, <2>2, NodeAnnounced
<1>7. CASE New(p, i)
  <2> DEFINE r == [listens |-> i.listens, next |-> 0, available |-> CheckAvailable(i)]
  <2>1. CheckAvailable(i) \in BOOLEAN
    BY DEF CheckAvailable
  <2>2. r \in Node /\ r.next = 0
    BY <1>4, <2>1, TimesSet DEF Node
  <2>3. proxies' = [proxies EXCEPT ![p] = r] /\ checks' = <<[p |-> p, left |-> 0]>> \o checks
    BY <1>7 DEF New
  <2> HIDE DEF r
  <2> QED BY <1>2, <1>3, <2>2, <2>3, NodeAnnounced
<1> QED BY <1>5, <1>6, <1>7 DEF Announce, Known

(* A withdrawal: the check of the proxy stays in the list and finds no node.      *)
LEMMA WithdrawKeeps ==
    ASSUME IndInv, NEW p \in Proxy, Withdraw(p) PROVE IndInv'
<1>1. /\ checks \in Seq(Entry) /\ proxies \in NodeSet /\ updates \in Nat
      /\ dialled \in SUBSET (Proxy \ {Self})
  BY Parts
<1>2. /\ updates < MaxUpdates /\ updates' = updates + 1
      /\ announced' = [announced EXCEPT ![p] = Nil]
      /\ proxies' = [proxies EXCEPT ![p] = Nil]
      /\ UNCHANGED <<checks, dialled, endpoints, stopping, bus, losses>>
  BY DEF Withdraw, life
<1>3. announced' \in [Proxy -> Infos \cup {Nil}]
  BY <1>2 DEF IndInv
<1>4. /\ proxies' \in NodeSet /\ proxies'[p] = Nil
      /\ \A o \in Proxy \ {p} : proxies'[o] = proxies[o]
  BY <1>1, <1>2 DEF NodeSet
<1>5. [proxies |-> proxies', checks |-> checks', dialled |-> dialled'] \in State
  BY <1>1, <1>2, <1>4 DEF State
<1>6. ASSUME NEW o \in Proxy PROVE Kept(o, proxies[o], Entries(checks))'
  <2>1. CASE o = p
    BY <1>4, <2>1 DEF Kept
  <2>2. CASE o # p
    <3>1. Kept(o, proxies[o], Entries(checks)) /\ proxies'[o] = proxies[o]
      BY <1>4, <2>2 DEF IndInv
    <3> QED BY <1>2, <3>1 DEF Kept, Entries
  <2> QED BY <2>1, <2>2
<1>7. ListOK(checks, updates + 1)
  BY <1>1, ListLater DEF IndInv
<1>8. ListOK(checks, updates)'
  BY <1>2, <1>7
<1>9. updates' \in 0..MaxUpdates /\ updates' >= 1
  BY <1>1, <1>2, ConstantsAssumption
<1> QED BY <1>2, <1>3, <1>5, <1>6, <1>8, <1>9 DEF IndInv

(* Steps that touch neither the list nor the nodes, and take no endpoint away.   *)
LEMMA QuietKeeps ==
    ASSUME IndInv, UNCHANGED <<announced, proxies, checks, updates, losses>>,
           dialled' \subseteq dialled, endpoints \subseteq endpoints',
           endpoints' \subseteq Proxy \ {Self},
           stopping' \in BOOLEAN, bus' \in BOOLEAN
    PROVE  IndInv'
<1>1. /\ checks \in Seq(Entry) /\ proxies \in NodeSet
      /\ dialled \in SUBSET (Proxy \ {Self})
  BY Parts
<1>2. [proxies |-> proxies', checks |-> checks', dialled |-> dialled'] \in State
  BY <1>1 DEF State
<1>3. ASSUME NEW o \in Proxy PROVE Kept(o, proxies[o], Entries(checks))'
  <2>1. Kept(o, proxies[o], Entries(checks))
    BY DEF IndInv
  <2> QED BY <2>1 DEF Kept, Entries
<1>4. ListOK(checks, updates)'
  BY DEF IndInv
<1> QED BY <1>2, <1>3, <1>4 DEF IndInv

(* A lost connection: the check that is added, or one that is due later, stands  *)
(* for the endpoint that is gone.                                              *)
LEMMA DisconnectedKeeps ==
    ASSUME IndInv, NEW p \in Proxy, Disconnected(p) PROVE IndInv'
<1> DEFINE st == [proxies |-> proxies, checks |-> checks]
           t == LossDelay
           px == Timed(proxies, p, t)
           e == [p |-> p, left |-> t]
           add == proxies[p] # Nil /\ proxies[p].next < t
<1>1. /\ checks \in Seq(Entry) /\ proxies \in NodeSet /\ updates \in Nat /\ losses \in Nat
      /\ dialled \in SUBSET (Proxy \ {Self})
      /\ proxies[p] # Nil => proxies[p] \in Node
      /\ endpoints \subseteq Proxy \ {Self}
      /\ updates \in 0..MaxUpdates /\ ListOK(checks, updates)
      /\ \A o \in Proxy : proxies[o] # Nil => updates >= 1
  BY Parts DEF IndInv
<1>2. /\ p \in endpoints /\ losses < MaxLosses /\ losses' = losses + 1
      /\ endpoints' = endpoints \ {p}
      /\ UNCHANGED <<announced, updates, dialled, stopping, bus>>
  BY DEF Disconnected, etcd, life
<1>3. t \in {-1, 1, RetryDelay}
  BY DEF LossDelay
<1>4. t \in Times /\ t \in Int /\ t >= -1 /\ t <= RetryDelay
  BY <1>3, TimesSet
<1>5. losses' \in 0..MaxLosses /\ endpoints' \subseteq Proxy \ {Self}
  BY <1>1, <1>2, ConstantsAssumption
<1> HIDE DEF t
<1>6. CASE add
  <2>1. /\ px \in NodeSet /\ px[p] \in Node
        /\ px[p].next = t
        /\ \A o \in Proxy \ {p} : px[o] = proxies[o]
    BY <1>1, <1>4, <1>6, NodeSetTo
  <2>2. e \in Entry /\ e.left = t
    BY <1>4 DEF Entry
  <2>3. CheckOf(p, px[p]) = e
    BY <2>1 DEF CheckOf
  <2>4. Schedule(st, p, t) = [proxies |-> px, checks |-> Append(checks, e)]
    <3>1. Schedule(st, p, t) = [st EXCEPT !.proxies = px, !.checks = Append(checks, e)]
      BY DEF Schedule, Timed
    <3> HIDE DEF px, e
    <3> QED BY <3>1
  <2> HIDE DEF px, e
  <2>5. proxies' = px /\ checks' = Append(checks, e)
    <3>1. proxies' = Schedule(st, p, t).proxies /\ checks' = Schedule(st, p, t).checks
      BY <1>6 DEF Disconnected, OnDisconnected, t
    <3> QED BY <2>4, <3>1
  <2>6. ListOK(checks', updates) /\ Entries(checks') = Entries(checks) \cup {e}
    <3>1. updates >= 1
      BY <1>1, <1>6
    <3>2. /\ ListOK(Append(checks, e), updates)
          /\ Entries(Append(checks, e)) = Entries(checks) \cup {e}
      BY <1>1, <1>4, <2>2, <3>1, ListAppended
    <3> QED BY <2>5, <3>2
  <2>7. checks' \in Seq(Entry) /\ ListOK(checks, updates)'
    BY <1>2, <2>6 DEF ListOK
  <2>8. [proxies |-> proxies', checks |-> checks', dialled |-> dialled'] \in State
    BY <1>1, <1>2, <2>1, <2>5, <2>7 DEF State
  <2>9. ASSUME NEW o \in Proxy PROVE Kept(o, proxies[o], Entries(checks))'
    <3>1. CASE o = p
      BY <2>3, <2>5, <2>6, <3>1 DEF Kept
    <3>2. CASE o # p
      <4>1. /\ Kept(o, proxies[o], Entries(checks)) /\ proxies'[o] = proxies[o]
            /\ o \in endpoints' <=> o \in endpoints
        BY <1>2, <2>1, <2>5, <3>2 DEF IndInv
      <4> QED BY <2>6, <4>1 DEF Kept
    <3> QED BY <3>1, <3>2
  <2>10. \A o \in Proxy : proxies'[o] # Nil => updates' >= 1
    BY <1>1, <1>2, <1>6
  <2> QED BY <1>2, <1>5, <2>7, <2>8, <2>9, <2>10 DEF IndInv
<1>7. CASE ~add
  <2>1. UNCHANGED <<proxies, checks>>
    BY <1>7 DEF Disconnected, OnDisconnected, t
  <2>2. ASSUME NEW o \in Proxy PROVE Kept(o, proxies[o], Entries(checks))'
    <3>1. Kept(o, proxies[o], Entries(checks))
      BY DEF IndInv
    <3>2. CASE o = p
      <4> SUFFICES ASSUME proxies[p] # Nil, proxies[p].listens # <<>>, p # Self
                   PROVE  CheckOf(p, proxies[p]) \in Entries(checks)
        BY <2>1, <3>2 DEF Kept, Entries
      <4>1. proxies[p].next \in Int
        BY <1>1, TimesSet DEF Node
      <4>2. proxies[p].next >= -1
        BY <1>4, <1>7, <4>1
      <4>3. proxies[p].next # Epoch
        BY <4>1, <4>2, TimesSet
      <4> QED BY <3>1, <3>2, <4>3 DEF Kept
    <3>3. CASE o # p
      <4>1. o \in endpoints' <=> o \in endpoints
        BY <1>2, <3>3
      <4> QED BY <2>1, <3>1, <4>1 DEF Kept, Entries
    <3> QED BY <3>2, <3>3
  <2>3. [proxies |-> proxies', checks |-> checks', dialled |-> dialled'] \in State
    BY <1>2, <2>1 DEF IndInv
  <2>4. ListOK(checks, updates)'
    BY <1>1, <1>2, <2>1
  <2> QED BY <1>2, <1>5, <2>1, <2>2, <2>3, <2>4 DEF IndInv
<1> QED BY <1>6, <1>7


(* A second passes: nothing is due, so every time in the list is told apart and   *)
(* stays that of its node.                                                     *)
LEMMA SecondKeeps == ASSUME IndInv, Second PROVE IndInv'
<1>1. /\ checks \in Seq(Entry) /\ proxies \in NodeSet /\ updates \in Nat
      /\ dialled \in SUBSET (Proxy \ {Self})
      /\ \A p \in Proxy : proxies[p] # Nil => proxies[p] \in Node
      /\ updates \in 0..MaxUpdates /\ ListOK(checks, updates)
      /\ \A o \in Proxy : proxies[o] # Nil => updates >= 1
  BY Parts DEF IndInv
<1>2. /\ Due = {}
      /\ checks' = [k \in 1..Len(checks) |-> [checks[k] EXCEPT !.left = Elapsed(@)]]
      /\ proxies' = [p \in Proxy |-> IF proxies[p] = Nil THEN Nil
                                     ELSE [proxies[p] EXCEPT !.next = Elapsed(@)]]
      /\ UNCHANGED <<announced, updates, dialled, endpoints, stopping, bus, losses>>
  BY DEF Second, etcd, life
<1>3. Len(checks) \in Nat
  BY <1>1, ListTyped
<1>4. ASSUME NEW k \in 1..Len(checks)
      PROVE  /\ checks[k].left \in Int /\ checks[k].left > Epoch
             /\ checks'[k] \in Entry /\ checks'[k].left = checks[k].left - 1
             /\ checks'[k].p = checks[k].p
             /\ checks'[k] = [checks[k] EXCEPT !.left = checks[k].left - 1]
  <2>1. checks[k] \in Entry /\ checks[k].left > Epoch
    BY <1>1, ListBounded
  <2>2. checks[k].left \in Int /\ Elapsed(checks[k].left) = checks[k].left - 1
    BY <2>1, TimesSet DEF Entry, Elapsed
  <2>3. checks'[k] = [checks[k] EXCEPT !.left = checks[k].left - 1]
    BY <1>2, <2>2
  <2> QED BY <2>1, <2>2, <2>3 DEF Entry
<1>5. checks' \in Seq(Entry) /\ Len(checks') = Len(checks)
  <2> DEFINE F(k) == [checks[k] EXCEPT !.left = Elapsed(@)]
  <2>1. \A k \in 1..Len(checks) : F(k) \in Entry
    BY <1>2, <1>4
  <2> HIDE DEF F
  <2>2. [k \in 1..Len(checks) |-> F(k)] \in Seq(Entry)
    BY <1>3, <2>1
  <2>3. checks' = [k \in 1..Len(checks) |-> F(k)]
    BY <1>2 DEF F
  <2>4. checks' \in Seq(Entry) /\ DOMAIN checks' = 1..Len(checks)
    BY <2>2, <2>3
  <2> QED BY <1>3, <2>4, LenProperties
<1>6. Len(checks) > 0 => checks[1].left >= 0
  <2> SUFFICES ASSUME Len(checks) > 0, ~(checks[1].left >= 0) PROVE FALSE
    OBVIOUS
  <2>0. checks[1].left < 0
    <3>1. 1 \in 1..Len(checks)
      BY <1>3
    <3>2. checks[1].left \in Int
      BY <1>4, <3>1
    <3> QED BY <3>2
  <2>1. 1 \in 1..Len(checks) /\ \A j \in 1..1 : checks[j].left < 0
    BY <1>3, <2>0
  <2> QED BY <1>2, <2>1 DEF Due
<1>7. ListOK(checks', updates)
  <2>1. \A k \in 1..Len(checks') : checks'[k].left <= RetryDelay
    <3> SUFFICES ASSUME NEW k \in 1..Len(checks) PROVE checks'[k].left <= RetryDelay
      BY <1>5
    <3>1. checks[k].left <= RetryDelay
      BY <1>1 DEF ListOK
    <3>2. checks[k].left \in Int /\ checks'[k].left = checks[k].left - 1
      BY <1>4
    <3> QED BY <3>1, <3>2, TimesSet
  <2>2. Len(checks') > 0 => checks'[1].left >= -1
    <3> SUFFICES ASSUME Len(checks) > 0 PROVE checks'[1].left >= -1
      BY <1>5
    <3>1. 1 \in 1..Len(checks)
      BY <1>3
    <3>2. checks[1].left \in Int /\ checks'[1].left = checks[1].left - 1
      BY <1>4, <3>1
    <3> QED BY <1>6, <3>2
  <2>3. ASSUME NEW j \in 1..Len(checks), NEW k \in 1..Len(checks), j <= k
        PROVE  checks'[k].left >= checks'[j].left - (RetryDelay + updates)
    <3>1. checks[k].left >= checks[j].left - (RetryDelay + updates)
      BY <1>1, <2>3 DEF ListOK
    <3>2. checks'[k].left = checks[k].left - 1 /\ checks'[j].left = checks[j].left - 1
      BY <1>4
    <3>3. checks[k].left \in Int /\ checks[j].left \in Int
      BY <1>4
    <3> QED BY <1>1, <3>1, <3>2, <3>3, TimesSet
  <2> QED BY <1>5, <2>1, <2>2, <2>3 DEF ListOK
<1>8. ASSUME NEW p \in Proxy
      PROVE  /\ proxies[p] = Nil => proxies'[p] = Nil
             /\ proxies[p] # Nil => /\ proxies'[p] \in Node
                                    /\ proxies'[p].next = Elapsed(proxies[p].next)
                                    /\ proxies'[p].listens = proxies[p].listens
                                    /\ proxies'[p].available = proxies[p].available
                                    /\ proxies[p].next \in Int /\ proxies[p].next >= Epoch
  <2>1. CASE proxies[p] = Nil
    BY <1>2, <2>1
  <2>2. CASE proxies[p] # Nil
    <3>1. proxies[p] \in Node /\ proxies[p].next \in Times
      BY <1>1, <2>2 DEF Node
    <3>2. Elapsed(proxies[p].next) \in Times
      BY <3>1, TimesSet, ConstantsAssumption DEF Elapsed, Times
    <3>3. proxies'[p] = [proxies[p] EXCEPT !.next = Elapsed(proxies[p].next)]
      BY <1>2, <2>2
    <3>4. proxies[p].next \in Int /\ proxies[p].next >= Epoch
      BY <3>1, TimesSet
    <3> QED BY <2>2, <3>1, <3>2, <3>3, <3>4 DEF Node
  <2> QED BY <2>1, <2>2
<1>9. proxies' \in NodeSet
  <2> DEFINE G(p) == IF proxies[p] = Nil THEN Nil
                     ELSE [proxies[p] EXCEPT !.next = Elapsed(@)]
  <2>1. proxies' = [p \in Proxy |-> G(p)]
    BY <1>2
  <2>2. \A p \in Proxy : G(p) \in Node \cup {Nil}
    <3> SUFFICES ASSUME NEW p \in Proxy PROVE G(p) \in Node \cup {Nil}
      OBVIOUS
    <3>1. G(p) = proxies'[p]
      BY <2>1
    <3> HIDE DEF G
    <3> QED BY <1>8, <3>1
  <2> HIDE DEF G
  <2> QED BY <2>1, <2>2 DEF NodeSet
<1>10. ASSUME NEW p \in Proxy, proxies[p] # Nil, CheckOf(p, proxies[p]) \in Entries(checks)
       PROVE  CheckOf(p, proxies'[p]) \in Entries(checks')
  <2>1. PICK k \in 1..Len(checks) : checks[k] = CheckOf(p, proxies[p])
    BY <1>10 DEF Entries
  <2>2. checks[k] = [p |-> p, left |-> proxies[p].next]
    BY <2>1 DEF CheckOf
  <2>3. checks[k].left = proxies[p].next /\ proxies'[p].next = checks[k].left - 1
    <3>1. checks[k].left = proxies[p].next
      BY <2>2
    <3> QED BY <1>4, <1>8, <1>10, <3>1 DEF Elapsed
  <2>4. checks'[k] = [p |-> p, left |-> proxies'[p].next]
    BY <1>4, <2>2, <2>3
  <2> QED BY <1>5, <2>4 DEF CheckOf, Entries
<1>11. ASSUME NEW p \in Proxy PROVE Kept(p, proxies[p], Entries(checks))'
  <2>1. Kept(p, proxies[p], Entries(checks))
    BY DEF IndInv
  <2>2. CASE proxies[p] = Nil
    BY <1>8, <2>2 DEF Kept
  <2>3. CASE proxies[p] # Nil
    <3>1. proxies[p].next = Epoch => proxies'[p].next = Epoch
      BY <1>8, <2>3, TimesSet DEF Elapsed
    <3> QED BY <1>2, <1>8, <1>10, <2>1, <2>3, <3>1 DEF Kept
  <2> QED BY <2>2, <2>3
<1>12. [proxies |-> proxies', checks |-> checks', dialled |-> dialled'] \in State
  BY <1>1, <1>2, <1>5, <1>9 DEF State
<1>13. ListOK(checks, updates)'
  BY <1>2, <1>7
<1>14. \A p \in Proxy : proxies'[p] # Nil => updates' >= 1
  BY <1>1, <1>2, <1>8
<1> QED BY <1>2, <1>11, <1>12, <1>13, <1>14 DEF IndInv

-----------------------------------------------------------------------------
(* The theorems. *)

(* Nothing is announced and no check is waiting.                               *)
LEMMA InitKeeps == ASSUME Init PROVE IndInv
<1>1. checks = <<>> /\ checks \in Seq(Entry) /\ Len(checks) = 0
  BY DEF Init
<1>2. proxies \in NodeSet /\ \A p \in Proxy : proxies[p] = Nil
  BY DEF Init, NodeSet
<1>3. ListOK(checks, updates)
  BY <1>1 DEF ListOK
<1>4. [proxies |-> proxies, checks |-> checks, dialled |-> dialled] \in State
  BY <1>1, <1>2 DEF State, Init
<1>5. \A p \in Proxy : Kept(p, proxies[p], Entries(checks))
  BY <1>2 DEF Kept
<1>6. updates \in 0..MaxUpdates /\ losses \in 0..MaxLosses
  BY ConstantsAssumption DEF Init
<1>7. /\ announced \in [Proxy -> Infos \cup {Nil}] /\ endpoints \subseteq Proxy \ {Self}
      /\ stopping \in BOOLEAN /\ bus \in BOOLEAN
  BY DEF Init
<1> QED BY <1>2, <1>3, <1>4, <1>5, <1>6, <1>7 DEF IndInv

(* Every step of the module keeps the invariant.                               *)
LEMMA StepKeeps == ASSUME IndInv, [Next]_vars PROVE IndInv'
<1>1. ASSUME NEW p \in Proxy, NEW i \in Infos, Announce(p, i) PROVE IndInv'
  BY <1>1, AnnounceKeeps
<1>2. ASSUME NEW p \in Proxy, Withdraw(p) PROVE IndInv'
  BY <1>2, WithdrawKeeps
<1>3. ASSUME NEW p \in Proxy, Connected(p) PROVE IndInv'
  <2>1. /\ dialled' \subseteq dialled /\ endpoints \subseteq endpoints' 
        /\ UNCHANGED <<announced, proxies, checks, updates, losses, stopping, bus>>
        /\ endpoints' = endpoints \cup {p} /\ p \in dialled
    BY <1>3 DEF Connected, etcd, life
  <2>2. endpoints' \subseteq Proxy \ {Self} /\ stopping' \in BOOLEAN /\ bus' \in BOOLEAN
    BY <2>1, Parts DEF IndInv
  <2> QED BY <2>1, <2>2, QuietKeeps
<1>4. ASSUME NEW p \in Proxy, PeerConnects(p) PROVE IndInv'
  <2>1. /\ dialled' \subseteq dialled /\ endpoints \subseteq endpoints'
        /\ UNCHANGED <<announced, proxies, checks, updates, losses, stopping, bus>>
        /\ endpoints' = endpoints \cup {p} /\ p # Self
    BY <1>4 DEF PeerConnects, etcd, life
  <2>2. endpoints' \subseteq Proxy \ {Self} /\ stopping' \in BOOLEAN /\ bus' \in BOOLEAN
    BY <2>1 DEF IndInv
  <2> QED BY <2>1, <2>2, QuietKeeps
<1>5. ASSUME NEW p \in Proxy, Disconnected(p) PROVE IndInv'
  BY <1>5, DisconnectedKeeps
<1>6. CASE Tick
  BY <1>6, TickKeeps
<1>7. CASE Second
  BY <1>7, SecondKeeps
<1>8. CASE Stop
  <2>1. /\ UNCHANGED <<announced, proxies, checks, updates, losses, dialled, endpoints>>
        /\ stopping' = TRUE /\ bus' = bus
    BY <1>8 DEF Stop, etcd
  <2>2. endpoints' \subseteq Proxy \ {Self} /\ stopping' \in BOOLEAN /\ bus' \in BOOLEAN
    BY <2>1 DEF IndInv
  <2> QED BY <2>1, <2>2, QuietKeeps
<1>9. CASE BusGone
  <2>1. /\ UNCHANGED <<announced, proxies, checks, updates, losses, dialled, endpoints>>
        /\ stopping' = stopping /\ bus' = FALSE
    BY <1>9 DEF BusGone, etcd
  <2>2. endpoints' \subseteq Proxy \ {Self} /\ stopping' \in BOOLEAN /\ bus' \in BOOLEAN
    BY <2>1 DEF IndInv
  <2> QED BY <2>1, <2>2, QuietKeeps
<1>10. CASE UNCHANGED vars
  <2>1. UNCHANGED <<announced, proxies, checks, updates, losses, dialled, endpoints, stopping, bus>>
    BY <1>10 DEF vars
  <2>2. endpoints' \subseteq Proxy \ {Self} /\ stopping' \in BOOLEAN /\ bus' \in BOOLEAN
    BY <2>1 DEF IndInv
  <2> QED BY <2>1, <2>2, QuietKeeps
<1> QED BY <1>1, <1>2, <1>3, <1>4, <1>5, <1>6, <1>7, <1>8, <1>9, <1>10 DEF Next

(* Every reachable state has its type, a list that is never far behind, and for  *)
(* each node that may need it the check the node remembers.                      *)
THEOREM Invariance == Spec => []IndInv
<1>1. Init => IndInv
  BY InitKeeps
<1>2. IndInv /\ [Next]_vars => IndInv'
  BY StepKeeps
<1> QED BY <1>1, <1>2, PTL DEF Spec

(* tick() keeps up: whatever is announced and lost, the checks of check_list_ have *)
(* times that are told apart, and the nodes have their types.                     *)
THEOREM TypeCorrect == Spec => []TypeOK
<1>1. IndInv => TypeOK
  <2> SUFFICES ASSUME IndInv PROVE TypeOK
    OBVIOUS
  <2>1. /\ checks \in Seq(Entry) /\ dialled \in SUBSET (Proxy \ {Self})
        /\ \A p \in Proxy : proxies[p] # Nil => proxies[p] \in Node
    BY Parts
  <2>2. ASSUME NEW p \in Proxy, proxies[p] # Nil
        PROVE  /\ proxies[p].next \in Times /\ proxies[p].available \in BOOLEAN
               /\ \A k \in 1..Len(proxies[p].listens) : proxies[p].listens[k] \in Addrs
    <3>1. /\ proxies[p].next \in Times /\ proxies[p].available \in BOOLEAN
          /\ proxies[p].listens \in Seq(Addrs)
      BY <2>1, <2>2 DEF Node
    <3> QED BY <3>1, ElementOfSeq
  <2>3. ASSUME NEW k \in 1..Len(checks) PROVE checks[k] \in Check /\ checks[k].left > Epoch
    <3>1. /\ checks[k] \in Entry /\ checks[k].left \in Times /\ checks[k].left > Epoch
      BY ListBounded DEF IndInv
    <3> QED BY <3>1 DEF Check, Entry
  <2> QED BY <2>1, <2>2, <2>3 DEF TypeOK, IndInv
<1> QED BY <1>1, Invariance, PTL

(* No announced, compatible proxy without a connection is ever left without a    *)
(* check: tick() will dial it.                                                 *)
THEOREM NothingForgotten == Spec => []NeverForgotten
<1>1. IndInv => NeverForgotten
  <2> SUFFICES ASSUME IndInv, NEW p \in Proxy \ {Self}, proxies[p] # Nil,
                      proxies[p].listens # <<>>, proxies[p].available, p \notin endpoints
               PROVE  \E k \in 1..Len(checks) :
                          checks[k] = [p |-> p, left |-> proxies[p].next]
    BY DEF NeverForgotten
  <2>1. CheckOf(p, proxies[p]) \in Entries(checks)
    BY DEF IndInv, Kept
  <2> QED BY <2>1 DEF CheckOf, Entries
<1> QED BY <1>1, Invariance, PTL


=============================================================================
