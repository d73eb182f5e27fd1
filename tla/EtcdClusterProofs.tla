------------------------- MODULE EtcdClusterProofs -------------------------
(***************************************************************************)
(* Proofs about EtcdCluster, for any keepalives, paths, members and values  *)
(* and any number of faults: the type invariant, and SettledIsRegistered    *)
(* for instances that are Careful.                                          *)
(*                                                                         *)
(* The functions of the client are operators on its state c, so the         *)
(* inductive invariant OK is one on c and the state e of the server.  Each  *)
(* function is shown to keep OK; an action composes them.                   *)
(***************************************************************************)
EXTENDS EtcdCluster, TLAPS

GetRpc == [op : {"get"}, tok : Nat]
PutRpc == [op : {"put"}, tok : Nat, value : Value, lease : Nat,
           reply : {"none", "ok", "bad", "denied"}]
KaRpc == {NoRpc} \cup GetRpc \cup PutRpc

Ka == [in : BOOLEAN, value : Value, changed : BOOLEAN, data : BOOLEAN, fn : BOOLEAN,
       run : BOOLEAN, passed : BOOLEAN, rpc : KaRpc]

Del == {NoDel} \cup [st : {"pending"}, tries : Nat]
         \cup [st : {"sent"}, tries : Nat, tok : Nat, host : Host,
               reply : {"none", "ok", "denied"}]

Rpcs == [lease : {NoRpc} \cup [op : {"grant", "keepalive"}, host : Host],
         members : {NoRpc} \cup [op : {"members"}, host : Host],
         auth : {NoRpc} \cup [op : {"authenticate", "user_get"}, host : Host, tok : Nat]]

Client == [node : Host \cup {Nil}, hosts : SUBSET Host, token : Nat, lease : Nat,
           closing : BOOLEAN, refused : BOOLEAN, running : BOOLEAN, enabled : BOOLEAN, rpc : Rpcs,
           ka : [Keepalive -> Ka], retry : SUBSET Keepalive, del : [Keepalive -> Del]]

Item == [value : Value \cup {Nil, Foreign}, lease : Nat]

Late == [op : {"put"}, path : Path, tok : Nat, value : Value, lease : Nat]
          \cup [op : {"delete"}, path : Path, tok : Nat]

Server == [store : [Path -> Item], leases : SUBSET Nat, last : Nat, token : Nat,
           late : SUBSET Late]

\* no path of the process begins with another one of it, none is used again while its
\* delete runs, every request starts, and the server executes no request late
Careful ==
    /\ ~AddWhileDeleting /\ ~MayRefuse /\ ~MayLinger
    /\ \A j, k \in Keepalive : PathOf[j] \in Under[PathOf[k]] => PathOf[j] = PathOf[k]

\* a keepalive r of path p, under the client's lease l: its check comes before its
\* put, a put that is not out of date has the current value and lease, and what was
\* answered is in the store until the lease is gone
KeepOK(r, p, l, e) ==
    /\ r.in => r.fn
    /\ ~r.in => r.rpc = NoRpc
    /\ r.passed => r.run
    /\ r.rpc.op = "get" => ~r.run
    /\ r.rpc.op = "put" => r.passed /\ r.rpc.lease \in 1..e.last
    /\ r.in /\ ~r.passed => r.changed
    /\ r.rpc.op = "put" /\ ~r.changed /\ l # 0 =>
          r.rpc.value = r.value /\ r.rpc.lease = l
    /\ Careful =>
          /\ r.rpc.op = "put" /\ r.rpc.reply = "ok" /\ r.rpc.lease \in e.leases =>
                e.store[p] = [value |-> r.rpc.value, lease |-> r.rpc.lease]
          /\ r.in /\ r.passed /\ ~r.changed /\ r.rpc = NoRpc /\ l \in e.leases =>
                e.store[p] = [value |-> r.value, lease |-> l]

ServerOK(e) ==
    /\ e \in Server
    /\ e.leases \subseteq 1..e.last
    /\ \A p \in Path : e.store[p].lease <= e.last
    /\ \A q \in e.late : q.op = "put" => q.lease <= e.last
    /\ ~MayLinger => e.late = {}

OK(c, e) ==
    /\ c \in Client /\ ServerOK(e)
    /\ c.lease <= e.last /\ c.token <= e.token
    /\ ~MayRefuse => ~c.refused
    /\ \A k \in Keepalive : KeepOK(c.ka[k], PathOf[k], c.lease, e)
    /\ \A k \in c.retry : c.ka[k].in
    /\ \A j, k \in Keepalive :
          c.ka[j].in /\ c.ka[k].in /\ PathOf[j] = PathOf[k] => j = k
    /\ ~AddWhileDeleting =>
          \A j, k \in Keepalive :
             c.ka[k].in /\ PathOf[j] = PathOf[k] => c.del[j] = NoDel

IndInv ==
    /\ OK(cl, etcd)
    /\ phase \in {"init", "running", "stopping", "stopped"}
    /\ revoke \in {Nil} \cup 1..etcd.last
    /\ phase = "stopping" => revoke \in 1..etcd.last

-----------------------------------------------------------------------------
(* The functions of the client. *)

(* A step of the client that leaves the server alone keeps the invariant if it  *)
(* keeps what is said of each keepalive, and adds neither actors nor deletors.  *)
LEMMA ClientStep ==
    ASSUME NEW c, NEW e, OK(c, e), NEW d \in Client,
           d.lease <= e.last, d.token <= e.token, d.refused = c.refused,
           \A k \in Keepalive : KeepOK(d.ka[k], PathOf[k], d.lease, e),
           \A k \in d.retry : d.ka[k].in,
           \A k \in Keepalive : d.ka[k].in => c.ka[k].in,
           \A k \in Keepalive : d.del[k] # NoDel => c.del[k] # NoDel
    PROVE  OK(d, e)
  BY DEF OK

(* Requests, members, the token and the flags do not matter. *)
LEMMA CalmStep ==
    ASSUME NEW c, NEW e, OK(c, e), NEW d \in Client, d.token <= e.token,
           d.lease = c.lease, d.ka = c.ka, d.retry = c.retry, d.del = c.del,
           d.refused = c.refused
    PROVE  OK(d, e)
  BY DEF OK

Same(c, d) == /\ d.lease = c.lease /\ d.token = c.token /\ d.del = c.del
              /\ d.node = c.node /\ d.closing = c.closing /\ d.refused = c.refused

(* Putting u in the place of the keepalive k. *)
LEMMA Replace ==
    ASSUME NEW c \in Client, NEW k \in Keepalive, NEW u \in Ka
    PROVE  LET d == [c EXCEPT !.ka[k] = u] IN
           /\ d \in Client /\ Same(c, d) /\ d.retry = c.retry
           /\ d.ka[k] = u /\ \A j \in Keepalive \ {k} : d.ka[j] = c.ka[j]
  BY DEF Client, Same

(* add_retry_keepalive *)
LEMMA AddRetryFrame ==
    ASSUME NEW c \in Client, NEW k \in Keepalive
    PROVE  LET d == AddRetry(c, k) IN
           /\ d \in Client /\ Same(c, d) /\ d.ka = c.ka
           /\ d.retry \subseteq c.retry \cup {k}
  BY DEF AddRetry, Client, Same

(* etcd_keepalive::process: what is said of the keepalive stays true, and nothing *)
(* but it and the retry list changes.                                            *)
LEMMA ProcessKeeps ==
    ASSUME NEW c \in Client, NEW e, NEW k \in Keepalive, c.ka[k].in,
           c.lease <= e.last, e.last \in Nat, ~MayRefuse => ~c.refused,
           KeepOK(c.ka[k], PathOf[k], c.lease, e)
    PROVE  LET d == Process(c, k) IN
           /\ d \in Client /\ Same(c, d)
           /\ d.ka[k].in /\ KeepOK(d.ka[k], PathOf[k], c.lease, e)
           /\ \A j \in Keepalive \ {k} : d.ka[j] = c.ka[j]
           /\ d.retry \subseteq c.retry \cup {k}
<1> DEFINE r == c.ka[k]
           get == ~r.run
           put == r.run /\ r.passed /\ r.changed
           g == [op |-> "get", tok |-> c.token]
           q == [op |-> "put", tok |-> c.token, value |-> r.value, lease |-> c.lease,
                 reply |-> "none"]
           got == [r EXCEPT !.rpc = g]
           sent == [r EXCEPT !.changed = FALSE, !.rpc = q]
           lost == [r EXCEPT !.changed = FALSE]
<1>1. r \in Ka /\ c.token \in Nat /\ c.lease \in Nat
  BY DEF Client
<1>2. r.fn
  BY DEF KeepOK
<1>3. Process(c, k) =
        CASE r.rpc # NoRpc -> c
          [] r.rpc = NoRpc /\ get /\ Starts(c) -> [c EXCEPT !.ka[k].rpc = g]
          [] r.rpc = NoRpc /\ put /\ Can(c) /\ c.lease # 0 /\ c.refused ->
                AddRetry([c EXCEPT !.ka[k].changed = FALSE], k)
          [] r.rpc = NoRpc /\ put /\ Starts(c) /\ c.lease # 0 ->
                [c EXCEPT !.ka[k].changed = FALSE, !.ka[k].rpc = q]
          [] r.rpc = NoRpc /\ ~get /\ ~put -> c
          [] OTHER -> AddRetry(c, k)
  <2>1. [c EXCEPT !.ka[k] = r] = c
    BY DEF Client
  <2> QED BY <1>2, <2>1 DEF Process
<1>4. /\ [c EXCEPT !.ka[k].rpc = g] = [c EXCEPT !.ka[k] = got]
      /\ [c EXCEPT !.ka[k].changed = FALSE, !.ka[k].rpc = q] = [c EXCEPT !.ka[k] = sent]
      /\ [c EXCEPT !.ka[k].changed = FALSE] = [c EXCEPT !.ka[k] = lost]
  BY DEF Client
<1>5. g \in KaRpc /\ q \in KaRpc
  BY <1>1 DEF KaRpc, GetRpc, PutRpc, Ka
<1>6. got \in Ka /\ sent \in Ka /\ lost \in Ka
  BY <1>1, <1>5 DEF Ka
<1>7. CASE r.rpc = NoRpc /\ get /\ Starts(c)
  <2>1. Process(c, k) = [c EXCEPT !.ka[k] = got]
    BY <1>3, <1>4, <1>7
  <2>2. KeepOK(got, PathOf[k], c.lease, e) /\ got.in
    BY <1>1, <1>7 DEF KeepOK, Ka, NoRpc
  <2> HIDE DEF got
  <2> QED BY <1>6, <2>1, <2>2, Replace
<1>8. CASE r.rpc = NoRpc /\ put /\ Starts(c) /\ c.lease # 0
  <2>1. Process(c, k) = [c EXCEPT !.ka[k] = sent]
    BY <1>3, <1>4, <1>8 DEF Starts
  <2>2. KeepOK(sent, PathOf[k], c.lease, e) /\ sent.in
    BY <1>1, <1>8 DEF KeepOK, Ka, NoRpc
  <2> HIDE DEF sent
  <2> QED BY <1>6, <2>1, <2>2, Replace
<1>9. CASE Process(c, k) = c
  BY <1>9 DEF Same
<1>10. CASE Process(c, k) = AddRetry(c, k)
  BY <1>10, AddRetryFrame
<1>11. CASE r.rpc = NoRpc /\ put /\ Can(c) /\ c.lease # 0 /\ c.refused
  <2> DEFINE b == [c EXCEPT !.ka[k] = lost]
  <2>1. b = [c EXCEPT !.ka[k].changed = FALSE]
    BY <1>4
  <2>2. Process(c, k) = AddRetry([c EXCEPT !.ka[k].changed = FALSE], k)
    BY <1>3, <1>11 DEF Starts
  <2>3. Process(c, k) = AddRetry(b, k)
    BY <2>1, <2>2
  <2>4. KeepOK(lost, PathOf[k], c.lease, e) /\ lost.in
    BY <1>1, <1>11 DEF KeepOK, Ka, NoRpc, Careful
  <2> HIDE DEF lost
  <2>5. /\ b \in Client /\ Same(c, b) /\ b.retry = c.retry
        /\ b.ka[k] = lost /\ \A j \in Keepalive \ {k} : b.ka[j] = c.ka[j]
    BY <1>6, Replace
  <2> HIDE DEF b
  <2>6. /\ AddRetry(b, k) \in Client /\ Same(b, AddRetry(b, k)) /\ AddRetry(b, k).ka = b.ka
        /\ AddRetry(b, k).retry \subseteq b.retry \cup {k}
    BY <2>5, AddRetryFrame
  <2> QED BY <2>3, <2>4, <2>5, <2>6 DEF Same
<1> QED BY <1>3, <1>7, <1>8, <1>9, <1>10, <1>11

\* the state in which the keepalives of S are marked
Marked(c, S) ==
    [c EXCEPT !.ka = [k \in Keepalive |-> IF k \in S THEN [@[k] EXCEPT !.changed = TRUE]
                                          ELSE @[k]]]

(* Marking keepalives as changed keeps the invariant. *)
LEMMA MarkedKeeps ==
    ASSUME NEW c, NEW e, OK(c, e), NEW S
    PROVE  OK(Marked(c, S), e)
<1> DEFINE d == Marked(c, S)
<1>1. c \in Client /\ c.ka \in [Keepalive -> Ka]
  BY DEF OK, Client
<1>2. ASSUME NEW k \in Keepalive
      PROVE  [c.ka[k] EXCEPT !.changed = TRUE] \in Ka
  BY <1>1 DEF Ka
<1>3. /\ d \in Client /\ Same(c, d) /\ d.retry = c.retry
      /\ \A k \in Keepalive :
            d.ka[k] = IF k \in S THEN [c.ka[k] EXCEPT !.changed = TRUE] ELSE c.ka[k]
  BY <1>1, <1>2 DEF Marked, Client, Same
<1>4. ASSUME NEW k \in Keepalive
      PROVE  d.ka[k].in = c.ka[k].in /\ KeepOK(d.ka[k], PathOf[k], d.lease, e)
  <2>1. KeepOK(c.ka[k], PathOf[k], c.lease, e) /\ c.ka[k] \in Ka
    BY <1>1 DEF OK
  <2> QED BY <1>3, <2>1 DEF KeepOK, Ka, Same
<1> HIDE DEF d
<1>5. /\ d.lease <= e.last /\ d.token <= e.token /\ d.del = c.del /\ d.refused = c.refused
      /\ \A k \in d.retry : d.ka[k].in
  BY <1>1, <1>3, <1>4 DEF OK, Same, Client
<1>6. OK(d, e)
  BY <1>3, <1>4, <1>5, ClientStep
<1> QED BY <1>6 DEF d

(* reset_value_changed() and active() of actors, if the invariant holds once they *)
(* are marked.                                                                   *)
LEMMA ActiveAllKeeps ==
    ASSUME NEW c \in Client, NEW e, NEW S, S \subseteq Actors(c), OK(Marked(c, S), e)
    PROVE  OK(ActiveAll(c, S), e) /\ Same(c, ActiveAll(c, S))
<1> DEFINE m == Marked(c, S)
           start(k) == [c EXCEPT !.ka[k].changed = TRUE]
           After(k) == Process(start(k), k)
           d == ActiveAll(c, S)
<1>1. S \subseteq Keepalive /\ c.ka \in [Keepalive -> Ka]
  BY DEF Actors, Client
<1>2. /\ m.retry = c.retry /\ Same(c, m)
      /\ \A k \in Keepalive :
            m.ka[k] = IF k \in S THEN [c.ka[k] EXCEPT !.changed = TRUE] ELSE c.ka[k]
  BY <1>1 DEF Marked, Client, Same
<1>3. ASSUME NEW k \in S
      PROVE  /\ After(k).ka[k] \in Ka /\ After(k).ka[k].in
             /\ KeepOK(After(k).ka[k], PathOf[k], c.lease, e)
  <2>1. k \in Keepalive /\ c.ka[k].in /\ c.ka[k] \in Ka
    BY <1>1 DEF Actors
  <2> DEFINE u == [c.ka[k] EXCEPT !.changed = TRUE]
  <2>2. u \in Ka /\ u.in
    BY <2>1 DEF Ka
  <2>3. start(k) = [c EXCEPT !.ka[k] = u]
    BY DEF Client
  <2>4. m.ka[k] = u
    BY <1>2, <2>1
  <2> HIDE DEF u, start
  <2>5. /\ start(k) \in Client /\ start(k).lease = c.lease /\ start(k).refused = c.refused
        /\ start(k).ka[k].in /\ start(k).ka[k] = m.ka[k]
    BY <2>1, <2>2, <2>3, <2>4, Replace DEF Same
  <2>6. KeepOK(m.ka[k], PathOf[k], c.lease, e) /\ c.lease <= e.last /\ e.last \in Nat
        /\ (~MayRefuse => ~c.refused)
    BY <1>2, <2>1 DEF OK, ServerOK, Server, Same
  <2> HIDE DEF m
  <2>7. /\ After(k) \in Client /\ After(k).ka[k].in
        /\ KeepOK(After(k).ka[k], PathOf[k], c.lease, e)
    BY <2>1, <2>5, <2>6, ProcessKeeps
  <2> QED BY <2>1, <2>7 DEF Client
<1>4. d = [c EXCEPT !.ka = [k \in Keepalive |-> IF k \in S THEN After(k).ka[k] ELSE c.ka[k]],
                    !.retry = c.retry \cup {k \in S : k \in After(k).retry}]
  BY DEF ActiveAll, Client
<1> HIDE DEF After, d
<1>5. /\ d \in Client /\ Same(c, d)
      /\ d.retry \subseteq c.retry \cup S
      /\ \A k \in Keepalive : d.ka[k] = IF k \in S THEN After(k).ka[k] ELSE c.ka[k]
  BY <1>1, <1>3, <1>4 DEF Client, Same
<1>6. OK(m, e)
  OBVIOUS
<1> HIDE DEF m
<1>7. ASSUME NEW k \in Keepalive
      PROVE  /\ KeepOK(d.ka[k], PathOf[k], d.lease, e)
             /\ d.ka[k].in => m.ka[k].in
             /\ k \in d.retry => d.ka[k].in
  <2>1. CASE k \in S
    <3>1. m.ka[k].in
      BY <1>1, <1>2, <2>1 DEF Actors, Ka
    <3> QED BY <1>3, <1>5, <2>1, <3>1 DEF Same
  <2>2. CASE k \notin S
    <3>1. d.ka[k] = m.ka[k] /\ (k \in d.retry => k \in m.retry)
      BY <1>2, <1>5, <2>2
    <3> QED BY <1>2, <1>5, <1>6, <3>1 DEF OK, Same
  <2> QED BY <2>1, <2>2
<1>8. d.lease <= e.last /\ d.token <= e.token /\ d.del = m.del /\ d.refused = m.refused
  BY <1>2, <1>5, <1>6 DEF OK, Same
<1>9. \A k \in d.retry : d.ka[k].in
  BY <1>5, <1>7 DEF Client
<1>10. OK(d, e)
  BY <1>5, <1>7, <1>6, <1>8, <1>9, ClientStep
<1> QED BY <1>5, <1>10 DEF d

(* The deletors that wait are sent or given up. *)
LEMMA RetryDeletorsKeeps ==
    ASSUME NEW c, NEW e, OK(c, e)
    PROVE  OK(RetryDeletors(c), e) /\ RetryDeletors(c).lease = c.lease
<1> DEFINE d == RetryDeletors(c)
<1>1. c \in Client /\ c.del \in [Keepalive -> Del] /\ c.token \in Nat
      /\ c.node \in Host \cup {Nil}
  BY DEF OK, Client
<1>2. ASSUME NEW k \in Keepalive, c.del[k].st = "pending"
      PROVE  Sent(c, c.del[k].tries) \in Del
  <2>1. c.del[k] \in [st : {"pending"}, tries : Nat]
    BY <1>1, <1>2 DEF Del, NoDel
  <2>2. c.del[k].tries + 1 \in Nat
    BY <2>1
  <2> QED BY <1>1, <2>2, ConstantsAssumption DEF Sent, Del, Can, Starts
<1>3. ASSUME NEW k \in Keepalive, c.del[k].st = "pending"
      PROVE  c.del[k] # NoDel
  BY <1>3 DEF NoDel
<1>4. /\ d \in Client /\ d.lease = c.lease /\ d.token = c.token
      /\ d.ka = c.ka /\ d.retry = c.retry /\ d.refused = c.refused
      /\ \A k \in Keepalive : d.del[k] = IF c.del[k].st = "pending"
                                         THEN Sent(c, c.del[k].tries) ELSE c.del[k]
  BY <1>1, <1>2 DEF RetryDeletors, Client
<1> HIDE DEF d
<1>5. OK(d, e)
  BY <1>3, <1>4, ClientStep DEF OK
<1> QED BY <1>4, <1>5 DEF d

(* retry_pending_actions *)
LEMMA RetryPendingKeeps ==
    ASSUME NEW c, NEW e, OK(c, e)
    PROVE  OK(RetryPending(c), e)
<1>1. c \in Client /\ c.retry \subseteq Actors(c)
  BY DEF OK, Client, Actors
<1> DEFINE a == ActiveAll(c, c.retry)
           d == [a EXCEPT !.retry = {}]
<1>2. OK(a, e)
  BY <1>1, MarkedKeeps, ActiveAllKeeps
<1> HIDE DEF a
<1>3. a \in Client
  BY <1>2 DEF OK
<1>4. /\ d \in Client /\ d.lease = a.lease /\ d.token = a.token
      /\ d.ka = a.ka /\ d.retry = {} /\ d.del = a.del /\ d.refused = a.refused
  BY <1>3 DEF Client
<1> HIDE DEF d
<1>5. OK(d, e)
  BY <1>2, <1>4, ClientStep DEF OK
<1>6. RetryPending(c) = RetryDeletors(IF c.lease = 0 THEN c ELSE d)
  BY DEF RetryPending, d, a
<1> QED BY <1>5, <1>6, RetryDeletorsKeeps

(* set_lease with 0, or with the lease it has. *)
LEMMA SetLeaseKeeps ==
    ASSUME NEW c, NEW e, OK(c, e)
    PROVE  OK(SetLease(c, 0, FALSE), e) /\ OK(SetLease(c, c.lease, FALSE), e)
<1> DEFINE d == [c EXCEPT !.lease = 0]
<1>1. c \in Client
  BY DEF OK
<1>2. /\ d \in Client /\ d.lease = 0 /\ d.token = c.token
      /\ d.ka = c.ka /\ d.retry = c.retry /\ d.del = c.del /\ d.refused = c.refused
  BY <1>1 DEF Client
<1> HIDE DEF d
<1>3. ASSUME NEW k \in Keepalive
      PROVE  KeepOK(d.ka[k], PathOf[k], d.lease, e)
  <2>1. KeepOK(c.ka[k], PathOf[k], c.lease, e) /\ 0 \notin e.leases
    BY DEF OK, ServerOK
  <2> QED BY <1>2, <2>1 DEF KeepOK
<1>4. OK(d, e)
  <2>1. 0 <= e.last /\ d.token <= e.token
    BY <1>2 DEF OK, ServerOK, Server
  <2> QED BY <1>2, <1>3, <2>1, ClientStep DEF OK
<1>5. SetLease(c, 0, FALSE) = d
  BY DEF SetLease, d
<1>6. CASE c.lease = 0
  BY <1>4, <1>5, <1>6
<1>7. CASE c.lease # 0
  BY <1>4, <1>5, <1>7, RetryPendingKeeps DEF SetLease
<1> QED BY <1>6, <1>7

WithLease(e, l) == [e EXCEPT !.last = l, !.leases = @ \cup {l}]

(* set_lease with a lease that was just granted: no keepalive stays settled. *)
LEMMA NewLeaseKeeps ==
    ASSUME NEW c, NEW e, OK(c, e)
    PROVE  LET l == e.last + 1 IN OK(SetLease(c, l, TRUE), WithLease(e, l))
<1> DEFINE l == e.last + 1
           f == WithLease(e, l)
           b == [c EXCEPT !.lease = l, !.retry = {}]
           m == Marked(b, Actors(c))
<1>1. c \in Client /\ e \in Server /\ e.last \in Nat /\ l \in Nat /\ c.ka \in [Keepalive -> Ka]
  BY DEF OK, ServerOK, Server, Client
<1>2. f \in Server /\ f.last = l /\ f.leases = e.leases \cup {l} /\ f.store = e.store
      /\ f.token = e.token /\ f.late = e.late
  BY <1>1 DEF WithLease, Server
<1>3. ServerOK(f)
  <2>1. e.leases \subseteq 1..e.last
    BY DEF OK, ServerOK
  <2>2. f.leases \subseteq 1..f.last
    BY <1>1, <1>2, <2>1
  <2>3. ASSUME NEW p \in Path
        PROVE  f.store[p].lease <= f.last
    <3>1. e.store[p].lease \in Nat
      BY <1>1 DEF Server, Item
    <3>2. e.store[p].lease <= e.last
      BY DEF OK, ServerOK
    <3> QED BY <1>1, <1>2, <3>1, <3>2
  <2>4. ASSUME NEW q \in f.late, q.op = "put"
        PROVE  q.lease <= f.last
    <3>1. q \in Late /\ q.lease <= e.last
      BY <1>1, <1>2, <2>4 DEF OK, ServerOK, Server
    <3>2. q.lease \in Nat
      BY <2>4, <3>1 DEF Late
    <3> QED BY <1>1, <1>2, <3>1, <3>2
  <2>5. ~MayLinger => f.late = {}
    BY <1>2 DEF OK, ServerOK
  <2> QED BY <1>2, <2>2, <2>3, <2>4, <2>5 DEF ServerOK
<1>4. /\ b \in Client /\ b.lease = l /\ b.ka = c.ka /\ b.retry = {} /\ b.del = c.del
      /\ b.token = c.token /\ b.refused = c.refused
  BY <1>1 DEF Client
<1>5. Actors(b) = Actors(c)
  BY <1>4 DEF Actors
<1> HIDE DEF b, l, f
<1>6. ASSUME NEW k \in Keepalive
      PROVE  [c.ka[k] EXCEPT !.changed = TRUE] \in Ka
  BY <1>1 DEF Ka
<1>7. /\ m \in Client /\ Same(b, m) /\ m.retry = {}
      /\ \A k \in Keepalive :
            m.ka[k] = IF k \in Actors(c) THEN [c.ka[k] EXCEPT !.changed = TRUE] ELSE c.ka[k]
  BY <1>1, <1>4, <1>6 DEF Marked, Client, Same
<1> HIDE DEF m
<1>8. ASSUME NEW k \in Keepalive
      PROVE  m.ka[k].in = c.ka[k].in /\ KeepOK(m.ka[k], PathOf[k], l, f)
  <2>1. KeepOK(c.ka[k], PathOf[k], c.lease, e) /\ c.ka[k] \in Ka
    BY <1>1 DEF OK
  <2>2. c.ka[k].rpc.op = "put" => c.ka[k].rpc.lease \in 1..l /\ c.ka[k].rpc.lease # l
    BY <1>1, <2>1 DEF KeepOK, l
  <2>3. CASE k \in Actors(c)
    BY <1>2, <1>7, <2>1, <2>2, <2>3, ZenonT(30) DEF KeepOK, Ka
  <2>4. CASE k \notin Actors(c)
    <3>1. ~c.ka[k].in /\ c.ka[k].rpc = NoRpc
      BY <2>1, <2>4 DEF Actors, KeepOK
    <3>2. m.ka[k] = c.ka[k]
      BY <1>7, <2>4
    <3>3. c.ka[k].rpc.op \notin {"get", "put"}
      BY <3>1 DEF NoRpc
    <3> QED BY <1>2, <2>1, <3>1, <3>2, <3>3 DEF KeepOK
  <2> QED BY <2>3, <2>4
<1>9. OK(m, f)
  <2>1. m.lease = l /\ m.token = c.token /\ m.del = c.del /\ m.refused = c.refused
    BY <1>4, <1>7 DEF Same
  <2>2. m.lease <= f.last /\ m.token <= f.token
    BY <1>1, <1>2, <2>1 DEF OK
  <2> QED BY <1>2, <1>3, <1>7, <1>8, <2>1, <2>2 DEF OK
<1>10. OK(ActiveAll(b, Actors(c)), f)
  BY <1>4, <1>5, <1>9, ActiveAllKeeps DEF m
<1>11. SetLease(c, l, TRUE) = RetryPending(ActiveAll(b, Actors(c)))
  <2>1. l # 0
    BY <1>1 DEF l
  <2> QED BY <2>1 DEF SetLease, b
<1>12. OK(SetLease(c, l, TRUE), f)
  BY <1>10, <1>11, RetryPendingKeeps
<1> QED BY <1>12 DEF l, f

(* The requests of the cluster. *)
LEMMA CreateKeeps ==
    ASSUME NEW c, NEW e, OK(c, e)
    PROVE  /\ OK(CreateGrant(c), e) /\ OK(CreateKeepalive(c), e)
           /\ \A h \in Host : OK(CreateMembers(c, h), e)
           /\ OK(CreateAuth(c, "user_get"), e) /\ OK(CreateAuth(c, "authenticate"), e)
<1>1. c \in Client /\ c.node \in Host \cup {Nil} /\ c.token \in Nat /\ c.rpc \in Rpcs
  BY DEF OK, Client
<1>2. ASSUME NEW r \in Rpcs
      PROVE  OK([c EXCEPT !.rpc = r], e)
  <2> DEFINE d == [c EXCEPT !.rpc = r]
  <2>1. /\ d \in Client /\ d.token = c.token /\ d.lease = c.lease
        /\ d.ka = c.ka /\ d.retry = c.retry /\ d.del = c.del /\ d.refused = c.refused
    BY <1>1 DEF Client
  <2>2. d.token <= e.token
    BY <2>1 DEF OK
  <2> HIDE DEF d
  <2>3. OK(d, e)
    BY <2>1, <2>2, CalmStep
  <2> QED BY <2>3 DEF d
<1>3. ASSUME NEW op \in {"grant", "keepalive"}, Can(c)
      PROVE  OK([c EXCEPT !.rpc.lease = [op |-> op, host |-> c.node]], e)
  <2>1. [c.rpc EXCEPT !.lease = [op |-> op, host |-> c.node]] \in Rpcs
    BY <1>1, <1>3 DEF Rpcs, Can
  <2> QED BY <1>2, <2>1
<1>4. ASSUME NEW h \in Host
      PROVE  OK([c EXCEPT !.rpc.members = [op |-> "members", host |-> h]], e)
  <2>1. [c.rpc EXCEPT !.members = [op |-> "members", host |-> h]] \in Rpcs
    BY <1>1 DEF Rpcs
  <2> QED BY <1>2, <2>1
<1>5. ASSUME NEW op \in {"authenticate", "user_get"}, Can(c)
      PROVE  OK([c EXCEPT !.rpc.auth = [op |-> op, host |-> c.node, tok |-> c.token]], e)
  <2>1. [c.rpc EXCEPT !.auth = [op |-> op, host |-> c.node, tok |-> c.token]] \in Rpcs
    BY <1>1, <1>5 DEF Rpcs, Can
  <2> QED BY <1>2, <2>1
<1> QED BY <1>3, <1>4, <1>5 DEF CreateGrant, CreateKeepalive, CreateMembers, CreateAuth, Starts

(* Members, token, flags, and a request that is over. *)
LEMMA FieldsKeep ==
    ASSUME NEW c, NEW e, OK(c, e), NEW H \in SUBSET Host, NEW n \in Host \cup {Nil}
    PROVE  /\ OK([c EXCEPT !.hosts = H, !.node = n], e)
           /\ OK([c EXCEPT !.token = 0], e) /\ OK([c EXCEPT !.token = e.token], e)
           /\ OK([c EXCEPT !.running = TRUE], e) /\ OK([c EXCEPT !.enabled = TRUE], e)
           /\ OK([c EXCEPT !.rpc.lease = NoRpc], e)
           /\ OK([c EXCEPT !.rpc.members = NoRpc], e)
           /\ OK([c EXCEPT !.rpc.auth = NoRpc], e)
<1>1. c \in Client /\ e.token \in Nat /\ c.token <= e.token
  BY DEF OK, ServerOK, Server
<1>2. ASSUME NEW d \in Client, d.token <= e.token,
             d.lease = c.lease, d.ka = c.ka, d.retry = c.retry, d.del = c.del,
             d.refused = c.refused
      PROVE  OK(d, e)
  BY <1>2, CalmStep
<1>3. /\ [c.rpc EXCEPT !.lease = NoRpc] \in Rpcs
      /\ [c.rpc EXCEPT !.members = NoRpc] \in Rpcs
      /\ [c.rpc EXCEPT !.auth = NoRpc] \in Rpcs
  BY <1>1 DEF Client, Rpcs
<1>4. OK([c EXCEPT !.hosts = H, !.node = n], e)
  <2> DEFINE d == [c EXCEPT !.hosts = H, !.node = n]
  <2>1. /\ d \in Client /\ d.token = c.token
        /\ d.lease = c.lease /\ d.ka = c.ka /\ d.retry = c.retry /\ d.del = c.del /\ d.refused = c.refused
    BY <1>1 DEF Client
  <2> HIDE DEF d
  <2>2. OK(d, e)
    BY <1>1, <1>2, <2>1
  <2> QED BY <2>2 DEF d
<1>5. ASSUME NEW t \in {0, e.token}
      PROVE  OK([c EXCEPT !.token = t], e)
  <2> DEFINE d == [c EXCEPT !.token = t]
  <2>1. /\ d \in Client /\ d.token = t /\ t <= e.token
        /\ d.lease = c.lease /\ d.ka = c.ka /\ d.retry = c.retry /\ d.del = c.del /\ d.refused = c.refused
    BY <1>1 DEF Client
  <2> HIDE DEF d
  <2>2. OK(d, e)
    BY <1>2, <2>1
  <2> QED BY <2>2 DEF d
<1>6. OK([c EXCEPT !.running = TRUE], e) /\ OK([c EXCEPT !.enabled = TRUE], e)
  <2> DEFINE d == [c EXCEPT !.running = TRUE]
             f == [c EXCEPT !.enabled = TRUE]
  <2>1. /\ d \in Client /\ d.token = c.token
        /\ d.lease = c.lease /\ d.ka = c.ka /\ d.retry = c.retry /\ d.del = c.del /\ d.refused = c.refused
    BY <1>1 DEF Client
  <2>2. /\ f \in Client /\ f.token = c.token
        /\ f.lease = c.lease /\ f.ka = c.ka /\ f.retry = c.retry /\ f.del = c.del
        /\ f.refused = c.refused
    BY <1>1 DEF Client
  <2> HIDE DEF d, f
  <2>3. OK(d, e) /\ OK(f, e)
    BY <1>1, <1>2, <2>1, <2>2
  <2> QED BY <2>3 DEF d, f
<1>7. ASSUME NEW r \in Rpcs
      PROVE  OK([c EXCEPT !.rpc = r], e)
  <2> DEFINE d == [c EXCEPT !.rpc = r]
  <2>1. /\ d \in Client /\ d.token = c.token
        /\ d.lease = c.lease /\ d.ka = c.ka /\ d.retry = c.retry /\ d.del = c.del /\ d.refused = c.refused
    BY <1>1 DEF Client
  <2> HIDE DEF d
  <2>2. OK(d, e)
    BY <1>1, <1>2, <2>1
  <2> QED BY <2>2 DEF d
<1> QED BY <1>3, <1>4, <1>5, <1>6, <1>7

(* check_authorization_expired *)
LEMMA DeniedKeeps ==
    ASSUME NEW c, NEW e, OK(c, e)
    PROVE  OK(Denied(c), e)
  BY FieldsKeep DEF Denied

(* etcd_cluster::tick *)
LEMMA TickKeeps ==
    ASSUME NEW c, NEW e, OK(c, e), NEW D, NEW h \in Host
    PROVE  OK(DoTick(c, D, h), e)
<1>1. ASSUME NEW b, OK(b, e)
      PROVE  OK(TickRest(b, D), e)
  <2> DEFINE u == IF Auth /\ "auth" \in D THEN CreateAuth(b, "user_get") ELSE b
             v == IF "lease" \in D THEN CreateKeepalive(u) ELSE u
             w == IF "auth" \in D THEN CreateAuth(b, "authenticate") ELSE b
             x == [u EXCEPT !.running = TRUE]
  <2>1. OK(u, e)
    BY <1>1, CreateKeeps
  <2>2. OK(w, e)
    BY <1>1, CreateKeeps
  <2>3. TickRest(b, D) =
          CASE b.node = Nil -> b
            [] b.node # Nil /\ ~CheckAuthorization(b) -> w
            [] b.node # Nil /\ CheckAuthorization(b) /\ b.enabled /\ b.lease = 0 ->
                  CreateGrant(u)
            [] b.node # Nil /\ CheckAuthorization(b) /\ b.enabled /\ b.lease # 0 ->
                  RetryPending(v)
            [] OTHER -> RetryPending(x)
    BY DEF TickRest
  <2> HIDE DEF u, w
  <2>4. OK(v, e) /\ OK(x, e)
    BY <2>1, CreateKeeps, FieldsKeep, ConstantsAssumption
  <2> HIDE DEF v, x
  <2>5. OK(CreateGrant(u), e) /\ OK(RetryPending(v), e) /\ OK(RetryPending(x), e)
    BY <2>1, <2>4, CreateKeeps, RetryPendingKeeps
  <2> QED BY <1>1, <2>2, <2>3, <2>5
<1> DEFINE b == IF "members" \in D THEN CreateMembers(c, h) ELSE c
<1>2. OK(b, e)
  BY CreateKeeps
<1>3. DoTick(c, D, h) = IF c.closing THEN c ELSE TickRest(b, D)
  BY DEF DoTick
<1> HIDE DEF b
<1> QED BY <1>1, <1>2, <1>3

(* retry_request_member_update *)
LEMMA NetErrorKeeps ==
    ASSUME NEW c, NEW e, OK(c, e), NEW host, NetError(c, host)
    PROVE  OK(cl', e)
<1>1. c \in Client /\ c.hosts \subseteq Host
  BY DEF OK, Client
<1>2. PICK n \in NodeToUse(c.hosts \ {host}), due \in BOOLEAN :
        LET f == Failover(c, host, n)
        IN  \E h \in MembersToAsk(f) : cl' = IF due THEN CreateMembers(f, h) ELSE f
  BY DEF NetError
<1> DEFINE f == Failover(c, host, n)
<1>3. PICK h \in MembersToAsk(f) : cl' = IF due THEN CreateMembers(f, h) ELSE f
  BY <1>2
<1>4. n \in Host \cup {Nil}
  BY <1>1 DEF NodeToUse
<1>5. OK(f, e)
  <2>1. c.hosts \ {host} \in SUBSET Host
    BY <1>1
  <2>2. OK([c EXCEPT !.hosts = c.hosts \ {host}, !.node = n], e)
    BY <1>4, <2>1, FieldsKeep
  <2> QED BY <1>1, <2>2 DEF Failover
<1> HIDE DEF f
<1>6. f.hosts \subseteq Host
  BY <1>5 DEF OK, Client
<1>7. h \in Host
  BY <1>6 DEF MembersToAsk
<1> QED BY <1>3, <1>5, <1>7, CreateKeeps


(* A keepalive that stays an actor is replaced by u. *)
LEMMA OneKeeps ==
    ASSUME NEW c, NEW e, OK(c, e), NEW k \in Keepalive, c.ka[k].in, NEW u \in Ka,
           u.in, KeepOK(u, PathOf[k], c.lease, e), NEW d, d = [c EXCEPT !.ka[k] = u]
    PROVE  OK(d, e) /\ d.ka[k].in
<1>1. c \in Client
  BY DEF OK
<1>2. /\ d \in Client /\ Same(c, d) /\ d.retry = c.retry
      /\ d.ka[k] = u /\ \A j \in Keepalive \ {k} : d.ka[j] = c.ka[j]
  BY <1>1, Replace
<1>3. ASSUME NEW j \in Keepalive
      PROVE  /\ d.ka[j].in => c.ka[j].in
             /\ c.ka[j].in => d.ka[j].in
             /\ KeepOK(d.ka[j], PathOf[j], d.lease, e)
             /\ d.del[j] # NoDel => c.del[j] # NoDel
  BY <1>2 DEF OK, Same
<1>4. /\ d.lease <= e.last /\ d.token <= e.token /\ d.refused = c.refused
      /\ \A j \in d.retry : d.ka[j].in
  BY <1>1, <1>2, <1>3 DEF OK, Same, Client
<1>5. OK(d, e)
  BY ONLY OK(c, e), <1>2, <1>3, <1>4, ClientStep
<1> QED BY <1>2, <1>5

(* add_retry_keepalive of an actor *)
LEMMA AddRetryKeeps ==
    ASSUME NEW c, NEW e, OK(c, e), NEW k \in Keepalive, c.ka[k].in
    PROVE  OK(AddRetry(c, k), e)
<1> DEFINE d == AddRetry(c, k)
<1>1. c \in Client
  BY DEF OK
<1>2. /\ d \in Client /\ Same(c, d) /\ d.ka = c.ka
      /\ d.retry \subseteq c.retry \cup {k}
  BY <1>1, AddRetryFrame
<1> HIDE DEF d
<1>3. OK(d, e)
  <2>1. /\ d.lease <= e.last /\ d.token <= e.token /\ d.del = c.del
        /\ d.refused = c.refused
    BY <1>2 DEF OK, Same
  <2>2. \A j \in d.retry : d.ka[j].in
    BY <1>2 DEF OK
  <2>3. \A j \in Keepalive : KeepOK(d.ka[j], PathOf[j], d.lease, e)
    BY <1>2 DEF OK, Same
  <2> QED BY <1>2, <2>1, <2>2, <2>3, ClientStep
<1> QED BY <1>3 DEF d

(* etcd_keepalive::process of an actor *)
LEMMA ProcessActor ==
    ASSUME NEW c, NEW e, OK(c, e), NEW k \in Keepalive, c.ka[k].in
    PROVE  OK(Process(c, k), e)
<1> DEFINE d == Process(c, k)
<1>1. c \in Client /\ c.lease <= e.last /\ e.last \in Nat
      /\ KeepOK(c.ka[k], PathOf[k], c.lease, e) /\ (~MayRefuse => ~c.refused)
  BY DEF OK, ServerOK, Server
<1>2. /\ d \in Client /\ Same(c, d)
      /\ d.ka[k].in /\ KeepOK(d.ka[k], PathOf[k], c.lease, e)
      /\ \A j \in Keepalive \ {k} : d.ka[j] = c.ka[j]
      /\ d.retry \subseteq c.retry \cup {k}
  BY <1>1, ProcessKeeps
<1> HIDE DEF d
<1>3. ASSUME NEW j \in Keepalive
      PROVE  /\ d.ka[j].in => c.ka[j].in
             /\ KeepOK(d.ka[j], PathOf[j], d.lease, e)
             /\ j \in d.retry => d.ka[j].in
  BY <1>2 DEF OK, Same
<1>4. d.lease <= e.last /\ d.token <= e.token /\ d.del = c.del /\ d.refused = c.refused
  BY <1>2 DEF OK, Same
<1>5. \A j \in d.retry : d.ka[j].in
  BY <1>2, <1>3 DEF Client
<1>6. OK(d, e)
  BY <1>2, <1>3, <1>4, <1>5, ClientStep
<1> QED BY <1>6 DEF d

-----------------------------------------------------------------------------
(* The actions. *)

(* Most steps change only the client. *)
LEMMA ClientOnly ==
    ASSUME IndInv, OK(cl', etcd), UNCHANGED <<etcd, phase, revoke>>
    PROVE  IndInv'
  BY DEF IndInv, OK

(* Requests that the client gives up: the server may remember them. *)
LEMMA AbandonKeeps ==
    ASSUME NEW c, NEW e, OK(c, e), NEW L \in SUBSET Late,
           \A q \in L : q.op = "put" => q.lease <= e.last
    PROVE  OK(c, Abandon(e, L)) /\ Abandon(e, L).last = e.last
<1> DEFINE f == [e EXCEPT !.late = e.late \cup L]
<1>1. e \in Server
  BY DEF OK, ServerOK
<1>2. CASE MayLinger
  <2>1. /\ f \in Server /\ f.store = e.store /\ f.leases = e.leases /\ f.last = e.last
        /\ f.token = e.token /\ f.late = e.late \cup L
    BY <1>1 DEF Server
  <2> HIDE DEF f
  <2>2. ServerOK(f)
    BY <1>2, <2>1 DEF OK, ServerOK
  <2>3. \A k \in Keepalive : KeepOK(c.ka[k], PathOf[k], c.lease, f)
    BY <2>1 DEF OK, KeepOK
  <2>4. OK(c, f)
    BY <2>1, <2>2, <2>3 DEF OK
  <2>5. Abandon(e, L) = f
    BY <1>2 DEF Abandon, f
  <2> QED BY <2>1, <2>4, <2>5
<1>3. CASE ~MayLinger
  BY <1>3 DEF Abandon
<1> QED BY <1>2, <1>3

(* A delete has its type, *)
LEMMA DeleteType ==
    ASSUME OK(cl, etcd), NEW k \in Keepalive
    PROVE  DeleteOf(k) \in SUBSET Late /\ \A q \in DeleteOf(k) : q.op = "delete"
<1>1. PathOf[k] \in Path /\ cl.del[k] \in Del
  BY ConstantsAssumption DEF OK, Client
<1>2. CASE cl.del[k].st = "sent"
  <2>1. cl.del[k].tok \in Nat
    BY <1>1, <1>2 DEF Del, NoDel
  <2> QED BY <1>1, <2>1 DEF DeleteOf, Late
<1>3. CASE cl.del[k].st # "sent"
  BY <1>3 DEF DeleteOf
<1> QED BY <1>2, <1>3

(* and so has a put. *)
LEMMA AbandonedTypes ==
    ASSUME OK(cl, etcd), NEW k \in Keepalive
    PROVE  /\ PutOf(k) \in SUBSET Late /\ DeleteOf(k) \in SUBSET Late
           /\ \A q \in PutOf(k) \cup DeleteOf(k) : q.op = "put" => q.lease <= etcd.last
<1>1. PathOf[k] \in Path /\ cl \in Client /\ etcd.last \in Nat
  BY ConstantsAssumption DEF OK, ServerOK, Server
<1>2. CASE cl.ka[k].rpc.op = "put"
  <2>1. cl.ka[k].rpc \in PutRpc
    BY <1>1, <1>2 DEF Client, Ka, KaRpc, GetRpc, NoRpc
  <2>2. cl.ka[k].rpc.lease \in 1..etcd.last
    BY <1>2 DEF OK, KeepOK
  <2> QED BY <1>1, <2>1, <2>2, DeleteType DEF PutOf, Late, PutRpc
<1>3. CASE cl.ka[k].rpc.op # "put"
  BY <1>1, <1>3, DeleteType DEF PutOf
<1> QED BY <1>2, <1>3

(* A step of the client that gives up the requests in L. *)
LEMMA ClientGivesUp ==
    ASSUME IndInv, OK(cl', etcd), NEW L \in SUBSET Late,
           \A q \in L : q.op = "put" => q.lease <= etcd.last,
           etcd' = Abandon(etcd, L), UNCHANGED <<phase, revoke>>
    PROVE  IndInv'
<1>1. OK(cl', etcd') /\ etcd'.last = etcd.last
  BY AbandonKeeps
<1> QED BY <1>1 DEF IndInv

(* A request of a keepalive is one of an actor. *)
LEMMA RpcOfActor ==
    ASSUME NEW c, NEW e, OK(c, e), NEW k \in Keepalive, c.ka[k].rpc.op \in {"get", "put"}
    PROVE  /\ c.ka[k] \in Ka /\ c.ka[k].in /\ KeepOK(c.ka[k], PathOf[k], c.lease, e)
           /\ c.ka[k].rpc # NoRpc /\ c.ka[k].fn
           /\ c.ka[k].rpc.op = "put" => c.ka[k].rpc \in PutRpc
<1>1. c.ka[k] \in Ka /\ KeepOK(c.ka[k], PathOf[k], c.lease, e)
  BY DEF OK, Client
<1>2. c.ka[k].rpc # NoRpc
  BY DEF NoRpc
<1>3. c.ka[k].rpc \in KaRpc
  BY <1>1 DEF Ka
<1> QED BY <1>1, <1>2, <1>3 DEF KeepOK, KaRpc, GetRpc

(* libcurl_callback_on_get_data *)
LEMMA GetDoneStep ==
    ASSUME IndInv, NEW k \in Keepalive, GetDone(k)
    PROVE  IndInv'
<1> DEFINE r == cl.ka[k]
           v == etcd.store[PathOf[k]].value
           u == [r EXCEPT !.rpc = NoRpc]
           w == [r EXCEPT !.rpc = NoRpc, !.run = TRUE, !.passed = CheckPassed(r, v)]
           idle == [cl EXCEPT !.ka[k].rpc = NoRpc]
           checked == [idle EXCEPT !.ka[k].run = TRUE, !.ka[k].passed = CheckPassed(r, v)]
<1>1. OK(cl, etcd) /\ cl \in Client /\ r.rpc.op = "get"
  BY DEF IndInv, OK, GetDone
<1>2. r \in Ka /\ r.in /\ r.fn /\ KeepOK(r, PathOf[k], cl.lease, etcd)
  BY <1>1, RpcOfActor
<1>3. u \in Ka /\ u.in /\ KeepOK(u, PathOf[k], cl.lease, etcd)
  <2>1. u \in Ka
    BY <1>2 DEF Ka, KaRpc
  <2> QED BY <1>1, <1>2, <2>1 DEF KeepOK, Ka, NoRpc
<1>4. w \in Ka /\ w.in /\ KeepOK(w, PathOf[k], cl.lease, etcd)
  <2>1. CheckPassed(r, v) \in BOOLEAN
    BY DEF CheckPassed
  <2>3. r.changed
    BY <1>1, <1>2 DEF KeepOK, Ka
  <2> HIDE DEF v
  <2>4. w \in Ka
    BY <1>2, <2>1 DEF Ka, KaRpc
  <2> QED BY <1>1, <1>2, <2>1, <2>3, <2>4 DEF KeepOK, Ka, NoRpc, v
<1>5. idle = [cl EXCEPT !.ka[k] = u] /\ checked = [cl EXCEPT !.ka[k] = w]
  BY <1>1 DEF Client
<1>6. \/ cl' = Process(checked, k)
      \/ cl' = Denied(AddRetry(idle, k))
  BY DEF GetDone
<1>7. UNCHANGED <<etcd, phase, revoke>>
  BY DEF GetDone
<1> HIDE DEF u, w, idle, checked
<1>8. OK(idle, etcd) /\ idle.ka[k].in
  BY <1>1, <1>2, <1>3, <1>5, OneKeeps
<1>9. OK(checked, etcd) /\ checked.ka[k].in
  BY <1>1, <1>2, <1>4, <1>5, OneKeeps
<1>10. OK(cl', etcd)
  BY <1>6, <1>8, <1>9, ProcessActor, AddRetryKeeps, DeniedKeeps
<1> QED BY <1>7, <1>10, ClientOnly

(* A keepalive whose put failed marks its value as changed. *)
LEMMA PutFailedKeeps ==
    ASSUME OK(cl, etcd), NEW k \in Keepalive, cl.ka[k].rpc.op = "put"
    PROVE  OK(PutFailed(cl, k), etcd)
<1> DEFINE r == cl.ka[k]
           u == [r EXCEPT !.rpc = NoRpc, !.changed = TRUE]
           d == [cl EXCEPT !.ka[k] = u]
<1>1. r \in Ka /\ r.in /\ KeepOK(r, PathOf[k], cl.lease, etcd)
  BY RpcOfActor
<1>2. u \in Ka /\ u.in /\ KeepOK(u, PathOf[k], cl.lease, etcd)
  BY <1>1 DEF KeepOK, Ka, NoRpc, KaRpc
<1>3. PutFailed(cl, k) = AddRetry(d, k)
  <2>1. cl \in Client
    BY DEF OK
  <2>2. [cl EXCEPT !.ka[k].rpc = NoRpc, !.ka[k].changed = TRUE] = d
    BY <1>1, <2>1 DEF Client, Ka
  <2> HIDE DEF d
  <2> QED BY <2>2 DEF PutFailed
<1>4. OK(d, etcd) /\ d.ka[k].in
  BY <1>1, <1>2, OneKeeps
<1> HIDE DEF d
<1> QED BY <1>3, <1>4, AddRetryKeeps

(* libcurl_callback_on_set_data *)
LEMMA PutDoneStep ==
    ASSUME IndInv, NEW k \in Keepalive, PutDone(k)
    PROVE  IndInv'
<1> DEFINE r == cl.ka[k]
           u == [r EXCEPT !.rpc = NoRpc, !.data = TRUE]
           d == [cl EXCEPT !.ka[k] = u]
<1>1. OK(cl, etcd) /\ cl \in Client /\ r.rpc.op = "put"
  BY DEF IndInv, OK, PutDone
<1>2. r \in Ka /\ r.in /\ r.rpc \in PutRpc /\ KeepOK(r, PathOf[k], cl.lease, etcd)
  BY <1>1, RpcOfActor
<1>3. CASE r.rpc.reply = "ok" /\ cl' = Process(d, k)
  <2>1. u \in Ka /\ u.in
    BY <1>2 DEF Ka, KaRpc
  <2>2. 0 \notin etcd.leases
    BY <1>1 DEF OK, ServerOK
  <2>3. KeepOK(u, PathOf[k], cl.lease, etcd)
    BY <1>1, <1>2, <1>3, <2>1, <2>2 DEF KeepOK, Ka, NoRpc
  <2> HIDE DEF u
  <2>4. OK(d, etcd) /\ d.ka[k].in
    BY <1>1, <1>2, <2>1, <2>3, OneKeeps
  <2> HIDE DEF d
  <2> QED BY <1>3, <2>4, ProcessActor, ClientOnly DEF PutDone
<1>4. CASE cl' \in {PutFailed(cl, k), Denied(PutFailed(cl, k))}
  BY <1>1, <1>4, PutFailedKeeps, DeniedKeeps, ClientOnly DEF PutDone
<1>5. [cl EXCEPT !.ka[k].rpc = NoRpc, !.ka[k].data = TRUE] = d
  BY <1>1 DEF Client
<1> QED BY <1>3, <1>4, <1>5 DEF PutDone

(* libcurl_callback_on_get_data and libcurl_callback_on_set_data with an error *)
LEMMA KeepaliveFailsStep ==
    ASSUME IndInv, NEW k \in Keepalive, KeepaliveFails(k)
    PROVE  IndInv'
<1>1. OK(cl, etcd) /\ UNCHANGED <<phase, revoke>> /\ etcd' = Abandon(etcd, PutOf(k))
      /\ PutOf(k) \in SUBSET Late /\ \A q \in PutOf(k) : q.op = "put" => q.lease <= etcd.last
  BY AbandonedTypes DEF IndInv, KeepaliveFails
<1>2. CASE cl.ka[k].rpc.op = "put" /\ cl' = PutFailed(cl, k)
  BY <1>1, <1>2, PutFailedKeeps, ClientGivesUp
<1>3. CASE cl.ka[k].rpc.op = "get" /\ cl' = AddRetry([cl EXCEPT !.ka[k].rpc = NoRpc], k)
  <2> DEFINE r == cl.ka[k]
             u == [r EXCEPT !.rpc = NoRpc]
             d == [cl EXCEPT !.ka[k] = u]
  <2>1. r \in Ka /\ r.in /\ KeepOK(r, PathOf[k], cl.lease, etcd)
    BY <1>1, <1>3, RpcOfActor
  <2>2. u \in Ka /\ u.in /\ KeepOK(u, PathOf[k], cl.lease, etcd)
    <3>1. u \in Ka
      BY <2>1 DEF Ka, KaRpc
    <3> QED BY <1>3, <2>1, <3>1 DEF KeepOK, Ka, NoRpc
  <2>3. OK(d, etcd) /\ d.ka[k].in
    BY <1>1, <2>1, <2>2, OneKeeps
  <2>4. cl' = AddRetry(d, k)
    BY <1>1, <1>3 DEF OK, Client
  <2> HIDE DEF d
  <2> QED BY <1>1, <2>3, <2>4, AddRetryKeeps, ClientGivesUp
<1> QED BY <1>2, <1>3 DEF KeepaliveFails

(* The server changes the store to S and has served some late requests, for a      *)
(* client that stays OK.                                                           *)
LEMMA StoreStep ==
    ASSUME NEW c, NEW e, OK(c, e), NEW S \in [Path -> Item], NEW L \in SUBSET e.late,
           \A p \in Path : S[p].lease <= e.last,
           NEW d \in Client, Same(c, d), d.retry = c.retry,
           NEW f, f = [e EXCEPT !.store = S, !.late = L],
           \A k \in Keepalive : c.ka[k].in => d.ka[k].in,
           \A k \in Keepalive : d.ka[k].in => c.ka[k].in,
           \A k \in Keepalive : KeepOK(d.ka[k], PathOf[k], d.lease, f)
    PROVE  OK(d, f)
<1>1. e \in Server /\ c \in Client
  BY DEF OK, ServerOK
<1>2. /\ f \in Server /\ f.leases = e.leases /\ f.last = e.last /\ f.token = e.token
      /\ f.store = S /\ f.late = L
  BY <1>1 DEF Server
<1>3. ServerOK(f)
  BY ONLY OK(c, e), <1>2, \A p \in Path : S[p].lease <= e.last, L \in SUBSET e.late
     DEF OK, ServerOK
<1>6. d.lease <= f.last /\ d.token <= f.token /\ d.refused = c.refused
  BY <1>2 DEF OK, Same
<1>7. \A k \in d.retry : d.ka[k].in
  BY <1>1 DEF OK, Client
<1>8. d.del = c.del
  BY DEF Same
<1> QED BY ONLY OK(c, e), d \in Client, <1>3, <1>6, <1>7, <1>8,
           \A k \in Keepalive : d.ka[k].in => c.ka[k].in,
           \A k \in Keepalive : KeepOK(d.ka[k], PathOf[k], d.lease, f)
        DEF OK

(* The server executes a put: of the actor of its path, under the lease of the     *)
(* request, which may not be the client's any more.                               *)
LEMMA ServePutStep ==
    ASSUME IndInv, NEW k \in Keepalive, ServePut(k)
    PROVE  IndInv'
<1> DEFINE r == cl.ka[k]
           q == r.rpc
           ok == Authorized(q.tok) /\ q.lease \in etcd.leases
           a == IF ok THEN "ok" ELSE IF Authorized(q.tok) THEN "bad" ELSE "denied"
           u == [r EXCEPT !.rpc.reply = a]
           p == PathOf[k]
<1>1. OK(cl, etcd) /\ cl \in Client /\ q.op = "put" /\ etcd \in Server
  BY DEF IndInv, OK, ServerOK, ServePut
<1>2. r \in Ka /\ r.in /\ q \in PutRpc /\ KeepOK(r, p, cl.lease, etcd) /\ p \in Path
  BY <1>1, RpcOfActor, ConstantsAssumption
<1>3. cl' = [cl EXCEPT !.ka[k] = u]
  BY <1>1 DEF ServePut, Client
<1>4. a \in {"ok", "bad", "denied"}
  OBVIOUS
<1>5. etcd' = IF ok THEN [etcd EXCEPT !.store[p] = Stored(q)] ELSE etcd
  BY DEF ServePut
<1>6. a = "ok" => ok
  OBVIOUS
<1> HIDE DEF a, ok
<1>7. u \in Ka /\ u.in /\ u.rpc = [q EXCEPT !.reply = a]
      /\ u.passed = r.passed /\ u.data = r.data /\ u.changed = r.changed
      /\ u.run = r.run /\ u.value = r.value /\ u.fn = r.fn
  <2>1. [q EXCEPT !.reply = a] \in KaRpc
    BY <1>2, <1>4 DEF PutRpc, KaRpc
  <2> QED BY <1>2, <2>1 DEF Ka
<1>8. /\ u.rpc.op = "put" /\ u.rpc.value = q.value /\ u.rpc.lease = q.lease
      /\ u.rpc.reply = a /\ u.rpc # NoRpc
  <2>1. u.rpc \in PutRpc /\ u.rpc.value = q.value /\ u.rpc.lease = q.lease /\ u.rpc.reply = a
    BY <1>2, <1>4, <1>7 DEF PutRpc
  <2> QED BY <2>1 DEF PutRpc, NoRpc
<1>9. UNCHANGED <<phase, revoke>>
  BY DEF ServePut
<1> HIDE DEF u
<1>10. CASE ok
  <2> DEFINE x == Stored(q)
             S == [etcd.store EXCEPT ![p] = x]
             f == [etcd EXCEPT !.store = S, !.late = etcd.late]
  <2>1. x \in Item /\ x.value = q.value /\ x.lease = q.lease
        /\ x = [value |-> q.value, lease |-> q.lease]
    BY <1>2 DEF Stored, Item, PutRpc
  <2>2. x.lease <= etcd.last /\ q.lease \in 1..etcd.last
    BY <1>1, <1>2, <2>1 DEF PutRpc, KeepOK
  <2>3. /\ f.leases = etcd.leases /\ f.last = etcd.last /\ f.token = etcd.token
        /\ S \in [Path -> Item] /\ \A o \in Path : S[o].lease <= etcd.last
        /\ \A o \in Path : f.store[o] = IF o = p THEN x ELSE etcd.store[o]
    BY <1>1, <1>2, <2>1, <2>2 DEF Server, OK, ServerOK
  <2>4. /\ cl' \in Client /\ Same(cl, cl') /\ cl'.retry = cl.retry
        /\ cl'.ka[k] = u /\ \A j \in Keepalive \ {k} : cl'.ka[j] = cl.ka[j]
    BY <1>1, <1>3, <1>7, Replace
  <2>11. etcd' = f
    BY <1>1, <1>5, <1>10 DEF Server
  <2> HIDE DEF x, S, f
  <2>5. KeepOK(u, p, cl.lease, f)
    BY <1>2, <1>7, <1>8, <2>1, <2>2, <2>3 DEF KeepOK
  <2>6. ASSUME NEW j \in Keepalive \ {k}
        PROVE  KeepOK(cl.ka[j], PathOf[j], cl.lease, f)
    <3>1. KeepOK(cl.ka[j], PathOf[j], cl.lease, etcd) /\ PathOf[j] \in Path
      BY <1>1, ConstantsAssumption DEF OK
    <3>2. CASE PathOf[j] # p
      BY <2>3, <3>1, <3>2 DEF KeepOK
    <3>3. CASE PathOf[j] = p
      <4>1. ~cl.ka[j].in
        BY <1>1, <1>2, <3>3 DEF OK
      <4>2. cl.ka[j].rpc = NoRpc /\ cl.ka[j].rpc.op = "none"
        BY <3>1, <4>1 DEF KeepOK, NoRpc
      <4> QED BY <2>3, <3>1, <3>3, <4>1, <4>2 DEF KeepOK
    <3> QED BY <3>2, <3>3
  <2>7. /\ \A j \in Keepalive : cl.ka[j].in => cl'.ka[j].in
        /\ \A j \in Keepalive : cl'.ka[j].in => cl.ka[j].in
    BY <1>2, <1>7, <2>4
  <2>8. \A j \in Keepalive : KeepOK(cl'.ka[j], PathOf[j], cl'.lease, f)
    BY <2>4, <2>5, <2>6 DEF Same
  <2>10. OK(cl', f)
    BY ONLY <1>1, <2>3, <2>4, <2>7, <2>8, StoreStep DEF f
  <2> QED BY <1>9, <2>3, <2>10, <2>11 DEF IndInv
<1>11. CASE ~ok
  <2>1. KeepOK(u, p, cl.lease, etcd)
    BY <1>2, <1>6, <1>7, <1>8, <1>11 DEF KeepOK
  <2>2. OK(cl', etcd)
    BY ONLY <1>1, <1>2, <1>3, <1>7, <2>1, k \in Keepalive, OneKeeps
  <2>3. etcd' = etcd
    BY <1>5, <1>11
  <2> QED BY <1>9, <2>2, <2>3, ClientOnly
<1> QED BY <1>10, <1>11


(* A new lease: the server's last one, and the client's. *)
LEMMA GrantedStep ==
    ASSUME IndInv, Granted
    PROVE  IndInv'
<1> DEFINE l == etcd.last + 1
           a == [cl EXCEPT !.rpc.lease = NoRpc]
           b == [a EXCEPT !.running = TRUE]
<1>1. OK(cl, etcd) /\ cl \in Client /\ etcd.last \in Nat /\ etcd \in Server
  BY DEF IndInv, OK, ServerOK, Server
<1>2. OK(a, etcd)
  BY <1>1, FieldsKeep, ConstantsAssumption
<1>3. [cl EXCEPT !.rpc.lease = NoRpc, !.running = TRUE] = b
  BY <1>1 DEF Client
<1> HIDE DEF a
<1>4. OK(b, etcd)
  BY <1>2, FieldsKeep, ConstantsAssumption
<1> HIDE DEF b
<1>5. OK(SetLease(b, l, TRUE), WithLease(etcd, l))
  BY <1>4, NewLeaseKeeps
<1>6. cl' = SetLease(b, l, TRUE) /\ etcd' = WithLease(etcd, l) /\ UNCHANGED <<phase, revoke>>
  BY <1>3 DEF Granted, WithLease
<1>7. etcd'.last = l
  BY <1>1, <1>6 DEF WithLease, Server
<1>8. 1..etcd.last \subseteq 1..l
  BY <1>1
<1> QED BY <1>5, <1>6, <1>7, <1>8 DEF IndInv

(* The lease lives, or it is gone. *)
LEMMA LeaseKeptStep ==
    ASSUME IndInv, LeaseKept
    PROVE  IndInv'
<1> DEFINE c == [cl EXCEPT !.rpc.lease = NoRpc]
           d == [c EXCEPT !.running = TRUE]
<1>1. OK(cl, etcd) /\ cl \in Client
  BY DEF IndInv, OK
<1>2. OK(c, etcd)
  BY <1>1, FieldsKeep, ConstantsAssumption
<1>3. c.lease = cl.lease /\ d.lease = cl.lease
  BY <1>1 DEF Client
<1>4. \/ cl' = SetLease(d, cl.lease, FALSE)
      \/ cl' = CreateGrant(SetLease(c, 0, FALSE))
  BY DEF LeaseKept
<1> HIDE DEF c
<1>5. OK(d, etcd)
  BY <1>2, FieldsKeep, ConstantsAssumption
<1> HIDE DEF d
<1>6. OK(SetLease(c, 0, FALSE), etcd) /\ OK(SetLease(d, cl.lease, FALSE), etcd)
  <2>1. OK(SetLease(d, d.lease, FALSE), etcd)
    BY <1>5, SetLeaseKeeps
  <2> QED BY <1>2, <1>3, <2>1, SetLeaseKeeps
<1>7. OK(cl', etcd)
  BY <1>4, <1>6, CreateKeeps
<1> QED BY <1>7, ClientOnly DEF LeaseKept

(* A request of the cluster fails. *)
LEMMA ClusterFailsStep ==
    ASSUME IndInv, LeaseFails \/ MembersFail \/ AuthFails
    PROVE  IndInv'
<1>1. OK(cl, etcd) /\ UNCHANGED <<etcd, phase, revoke>>
  BY DEF IndInv, LeaseFails, MembersFail, AuthFails
<1>2. /\ OK([cl EXCEPT !.rpc.lease = NoRpc], etcd)
      /\ OK([cl EXCEPT !.rpc.members = NoRpc], etcd)
      /\ OK([cl EXCEPT !.rpc.auth = NoRpc], etcd)
  BY <1>1, FieldsKeep, ConstantsAssumption
<1>3. CASE LeaseFails
  <2> DEFINE c == [cl EXCEPT !.rpc.lease = NoRpc]
  <2>1. NetError(c, cl.rpc.lease.host) \/ cl' \in {c, Denied(c)}
    BY <1>3 DEF LeaseFails
  <2>2. OK(c, etcd)
    BY <1>2
  <2> HIDE DEF c
  <2> QED BY <1>1, <2>1, <2>2, NetErrorKeeps, DeniedKeeps, ClientOnly
<1>4. CASE MembersFail
  <2> DEFINE c == [cl EXCEPT !.rpc.members = NoRpc]
  <2>1. NetError(c, cl.rpc.members.host) \/ cl' = c
    BY <1>4 DEF MembersFail
  <2>2. OK(c, etcd)
    BY <1>2
  <2> HIDE DEF c
  <2> QED BY <1>1, <2>1, <2>2, NetErrorKeeps, ClientOnly
<1>5. CASE AuthFails
  <2> DEFINE c == [cl EXCEPT !.rpc.auth = NoRpc]
  <2>1. NetError(c, cl.rpc.auth.host) \/ cl' = Denied(c)
    BY <1>5 DEF AuthFails
  <2>2. OK(c, etcd)
    BY <1>2
  <2> HIDE DEF c
  <2> QED BY <1>1, <2>1, <2>2, NetErrorKeeps, DeniedKeeps, ClientOnly
<1> QED BY <1>3, <1>4, <1>5

(* The members are known, and a tick follows. *)
LEMMA MembersKnownStep ==
    ASSUME IndInv, NEW n \in Host, NEW h \in Host, NEW D, MembersKnown(n, D, h)
    PROVE  IndInv'
<1> DEFINE a == [cl EXCEPT !.rpc.members = NoRpc]
           c == [a EXCEPT !.hosts = Host, !.node = n]
<1>1. OK(cl, etcd) /\ cl \in Client
  BY DEF IndInv, OK
<1>2. OK(a, etcd)
  BY <1>1, FieldsKeep
<1>3. [cl EXCEPT !.rpc.members = NoRpc, !.hosts = Host, !.node = n] = c
  BY <1>1 DEF Client
<1> HIDE DEF a
<1>4. OK(c, etcd)
  BY <1>2, FieldsKeep
<1>5. cl' = DoTick(c, D, h) /\ UNCHANGED <<etcd, phase, revoke>>
  BY <1>3 DEF MembersKnown
<1> HIDE DEF c
<1> QED BY <1>4, <1>5, TickKeeps, ClientOnly

(* A token is got, or is found to be valid or not. *)
LEMMA AuthStep ==
    ASSUME IndInv, Authenticated \/ UserGot
    PROVE  IndInv'
<1> DEFINE c == [cl EXCEPT !.rpc.auth = NoRpc]
           d == [c EXCEPT !.token = etcd.token]
<1>1. OK(cl, etcd) /\ cl \in Client
  BY DEF IndInv, OK
<1>2. OK(c, etcd)
  BY <1>1, FieldsKeep, ConstantsAssumption
<1>3. [cl EXCEPT !.rpc.auth = NoRpc, !.token = etcd.token] = d
  BY <1>1 DEF Client
<1>4. UserGot => cl' \in {c, Denied(c)}
  BY DEF UserGot
<1> HIDE DEF c
<1>5. OK(d, etcd)
  BY <1>2, FieldsKeep, ConstantsAssumption
<1>6. Authenticated => cl' = RetryPending(d)
  BY <1>3 DEF Authenticated
<1> HIDE DEF d
<1>7. OK(cl', etcd)
  BY <1>2, <1>4, <1>5, <1>6, DeniedKeeps, RetryPendingKeeps
<1> QED BY <1>7, ClientOnly DEF Authenticated, UserGot

(* etcd_module::tick *)
LEMMA TickStep ==
    ASSUME IndInv, NEW D, NEW h \in MembersToAsk(cl), Tick(D, h)
    PROVE  IndInv'
<1>1. OK(cl, etcd) /\ cl.hosts \subseteq Host
  BY DEF IndInv, OK, Client
<1>2. h \in Host
  BY <1>1 DEF MembersToAsk
<1> QED BY <1>1, <1>2, TickKeeps, ClientOnly DEF Tick


(* The deletors: none is added. *)
LEMMA DelsKeep ==
    ASSUME NEW c, NEW e, OK(c, e), NEW D \in [Keepalive -> Del],
           \A k \in Keepalive : D[k] # NoDel => c.del[k] # NoDel
    PROVE  OK([c EXCEPT !.del = D], e)
<1> DEFINE d == [c EXCEPT !.del = D]
<1>1. c \in Client
  BY DEF OK
<1>2. /\ d \in Client /\ d.lease = c.lease /\ d.token = c.token /\ d.del = D
      /\ d.ka = c.ka /\ d.retry = c.retry /\ d.refused = c.refused
  BY <1>1 DEF Client
<1> HIDE DEF d
<1>3. OK(d, e)
  BY <1>2, ClientStep DEF OK
<1> QED BY <1>3 DEF d

(* A deletor that was sent. *)
LEMMA SentDel ==
    ASSUME NEW c, NEW e, OK(c, e), NEW k \in Keepalive, c.del[k].st = "sent"
    PROVE  /\ c.del[k] # NoDel
           /\ c.del[k] \in [st : {"sent"}, tries : Nat, tok : Nat, host : Host,
                            reply : {"none", "ok", "denied"}]
           /\ ~AddWhileDeleting =>
                 \A j \in Keepalive : c.ka[j].in => PathOf[j] # PathOf[k]
<1>1. c.del[k] \in Del /\ c.del[k] # NoDel
  BY DEF OK, Client, NoDel
<1>2. c.del[k] \in [st : {"sent"}, tries : Nat, tok : Nat, host : Host,
                    reply : {"none", "ok", "denied"}]
  BY <1>1 DEF Del
<1> QED BY <1>1, <1>2 DEF OK

(* A store without the keys under p. *)
LEMMA ErasedIs ==
    ASSUME NEW e, ServerOK(e), NEW p \in Path
    PROVE  \E S \in [Path -> Item] :
              /\ Erased(e, p) = [e EXCEPT !.store = S, !.late = e.late]
              /\ \A o \in Path : S[o].lease <= e.last
              /\ \A o \in Path \ Under[p] : S[o] = e.store[o]
<1> DEFINE x == [value |-> Nil, lease |-> 0]
           S == [o \in Path |-> IF o \in Under[p] THEN x ELSE e.store[o]]
<1>1. e \in Server /\ e.last \in Nat /\ e.store \in [Path -> Item]
      /\ \A o \in Path : e.store[o].lease <= e.last
  BY DEF ServerOK, Server
<1>2. x \in Item /\ x.lease = 0
  BY DEF Item
<1>3. Erased(e, p) = [e EXCEPT !.store = S, !.late = e.late]
  BY <1>1 DEF Erased, Server
<1> HIDE DEF x
<1>4. S \in [Path -> Item] /\ (\A o \in Path : S[o].lease <= e.last)
      /\ \A o \in Path \ Under[p] : S[o] = e.store[o]
  BY <1>1, <1>2
<1> HIDE DEF S
<1> QED BY <1>3, <1>4

(* The server executes a delete: in a careful instance no actor has one of the    *)
(* keys.                                                                          *)
LEMMA ServeDeleteStep ==
    ASSUME IndInv, NEW k \in Keepalive, ServeDelete(k)
    PROVE  IndInv'
<1> DEFINE p == PathOf[k]
           ok == Authorized(cl.del[k].tok)
           a == IF ok THEN "ok" ELSE "denied"
           D == [cl.del EXCEPT ![k] = [cl.del[k] EXCEPT !.reply = a]]
           f == Erased(etcd, p)
<1>1. OK(cl, etcd) /\ cl \in Client /\ etcd \in Server /\ cl.del[k].st = "sent" /\ p \in Path
      /\ cl.del \in [Keepalive -> Del] /\ ServerOK(etcd)
  BY ConstantsAssumption DEF IndInv, OK, ServerOK, ServeDelete, Client
<1>2. /\ cl.del[k] # NoDel
      /\ cl.del[k] \in [st : {"sent"}, tries : Nat, tok : Nat, host : Host,
                        reply : {"none", "ok", "denied"}]
      /\ ~AddWhileDeleting => \A j \in Keepalive : cl.ka[j].in => PathOf[j] # p
  BY <1>1, SentDel
<1>3. cl' = [cl EXCEPT !.del = D]
  BY <1>1 DEF ServeDelete, Client
<1>4. a \in {"ok", "denied"}
  OBVIOUS
<1>5. etcd' \in {etcd, f} /\ UNCHANGED <<phase, revoke>>
  BY DEF ServeDelete
<1> HIDE DEF a
<1>6. [cl.del[k] EXCEPT !.reply = a] \in Del
  BY <1>2, <1>4 DEF Del
<1>7. D \in [Keepalive -> Del] /\ \A j \in Keepalive : D[j] # NoDel => cl.del[j] # NoDel
  BY <1>1, <1>2, <1>6
<1>8. cl'.ka = cl.ka /\ cl'.lease = cl.lease
  BY <1>1, <1>3 DEF Client
<1> HIDE DEF D
<1>9. OK(cl', etcd) /\ cl' \in Client
  BY <1>1, <1>3, <1>7, DelsKeep DEF OK
<1>10. PICK S \in [Path -> Item] :
         /\ f = [etcd EXCEPT !.store = S, !.late = etcd.late]
         /\ \A o \in Path : S[o].lease <= etcd.last
         /\ \A o \in Path \ Under[p] : S[o] = etcd.store[o]
  BY <1>1, ErasedIs
<1> HIDE DEF f
<1>11. f.leases = etcd.leases /\ f.last = etcd.last /\ f.store = S
  BY <1>1, <1>10 DEF Server
<1>13. ASSUME NEW j \in Keepalive
       PROVE  KeepOK(cl'.ka[j], PathOf[j], cl'.lease, f)
  <2>1. KeepOK(cl.ka[j], PathOf[j], cl.lease, etcd) /\ PathOf[j] \in Path
    BY <1>1, ConstantsAssumption DEF OK
  <2> HIDE DEF p
  <2>2. CASE PathOf[j] \notin Under[p]
    BY <1>8, <1>10, <1>11, <2>1, <2>2 DEF KeepOK
  <2>3. CASE PathOf[j] \in Under[p]
    <3>1. Careful => ~cl.ka[j].in
      BY <1>2, <2>3 DEF Careful, p
    <3>2. Careful => cl.ka[j].rpc = NoRpc /\ cl.ka[j].rpc.op = "none"
      BY <2>1, <3>1 DEF KeepOK, NoRpc
    <3> QED BY <1>8, <1>11, <2>1, <3>1, <3>2 DEF KeepOK
  <2> QED BY <2>2, <2>3
<1>14. Same(cl', cl') /\ cl'.retry = cl'.retry /\ etcd.late \in SUBSET etcd.late
  BY DEF Same
<1>15. OK(cl', f)
  BY ONLY <1>9, <1>10, <1>13, <1>14, StoreStep
<1> QED BY <1>5, <1>9, <1>11, <1>15 DEF IndInv

(* A request that was given up reaches the server: in no careful instance.        *)
LEMMA ServeLateStep ==
    ASSUME IndInv, NEW q \in etcd.late, ServeLate(q)
    PROVE  IndInv'
<1> DEFINE e == [etcd EXCEPT !.late = etcd.late \ {q}]
           x == Stored(q)
<1>1. OK(cl, etcd) /\ ServerOK(etcd) /\ etcd \in Server /\ cl \in Client /\ ~Careful
      /\ q \in Late /\ etcd.store \in [Path -> Item] /\ etcd.last \in Nat
  BY DEF IndInv, OK, ServerOK, Server, Careful
<1>2. q.path \in Path
  BY <1>1 DEF Late
<1>3. /\ e \in Server /\ e.store = etcd.store /\ e.last = etcd.last /\ e.leases = etcd.leases
      /\ e.token = etcd.token /\ e.late = etcd.late \ {q}
  BY <1>1 DEF Server
<1>4. \/ etcd' = e
      \/ etcd' = Erased(e, q.path)
      \/ q.op = "put" /\ etcd' = [e EXCEPT !.store[q.path] = x]
  BY DEF ServeLate
<1>5. e = [etcd EXCEPT !.store = etcd.store, !.late = etcd.late \ {q}]
  BY <1>1 DEF Server
<1>6. UNCHANGED <<cl, phase, revoke>>
  BY DEF ServeLate
<1>7. ServerOK(e)
  <2> HIDE DEF e
  <2> QED BY <1>1, <1>3 DEF ServerOK
<1>8. \E S \in [Path -> Item] : /\ \A o \in Path : S[o].lease <= etcd.last
                                /\ etcd' = [etcd EXCEPT !.store = S, !.late = etcd.late \ {q}]
  <2>1. CASE etcd' = e
    BY <1>1, <1>5, <2>1 DEF ServerOK
  <2>2. CASE etcd' = Erased(e, q.path)
    <3> HIDE DEF e
    <3>1. PICK S \in [Path -> Item] :
            /\ Erased(e, q.path) = [e EXCEPT !.store = S, !.late = e.late]
            /\ \A o \in Path : S[o].lease <= e.last
      BY <1>2, <1>7, ErasedIs
    <3>2. [e EXCEPT !.store = S, !.late = e.late]
            = [etcd EXCEPT !.store = S, !.late = etcd.late \ {q}]
      BY <1>1, <1>3 DEF Server, e
    <3> QED BY <1>3, <2>2, <3>1, <3>2
  <2>3. CASE q.op = "put" /\ etcd' = [e EXCEPT !.store[q.path] = x]
    <3> DEFINE S == [etcd.store EXCEPT ![q.path] = x]
    <3>1. q.value \in Value /\ q.lease \in Nat /\ q.lease <= etcd.last
      BY <1>1, <2>3 DEF Late, ServerOK
    <3>2. x \in Item /\ x.lease <= etcd.last
      BY <3>1 DEF Stored, Item
    <3>3. [e EXCEPT !.store[q.path] = x] = [etcd EXCEPT !.store = S, !.late = etcd.late \ {q}]
      BY <1>1 DEF Server
    <3> HIDE DEF x
    <3>4. S \in [Path -> Item] /\ \A o \in Path : S[o].lease <= etcd.last
      BY <1>1, <1>2, <3>2 DEF ServerOK
    <3> QED BY <2>3, <3>3, <3>4
  <2> QED BY <1>4, <2>1, <2>2, <2>3
<1> HIDE DEF e, x
<1>9. PICK S \in [Path -> Item] : /\ \A o \in Path : S[o].lease <= etcd.last
                                 /\ etcd' = [etcd EXCEPT !.store = S, !.late = etcd.late \ {q}]
  BY <1>8
<1>10. etcd'.leases = etcd.leases /\ etcd'.last = etcd.last
  BY <1>1, <1>9 DEF Server
<1>11. \A k \in Keepalive : KeepOK(cl.ka[k], PathOf[k], cl.lease, etcd')
  BY <1>1, <1>10 DEF OK, KeepOK
<1>12. Same(cl, cl) /\ etcd.late \ {q} \in SUBSET etcd.late
  BY DEF Same
<1>13. OK(cl, etcd')
  BY ONLY <1>1, <1>9, <1>11, <1>12, StoreStep
<1> QED BY <1>6, <1>10, <1>13 DEF IndInv

(* Another process takes a key without a value, or leaves one of its own.         *)
LEMMA OthersStep ==
    ASSUME IndInv, Others
    PROVE  IndInv'
<1>1. OK(cl, etcd) /\ ServerOK(etcd) /\ etcd \in Server /\ cl \in Client
      /\ etcd.store \in [Path -> Item] /\ etcd.last \in Nat
  BY DEF IndInv, OK, ServerOK, Server
<1>2. PICK p \in Path : OtherPuts(p) \/ OtherLeaves(p)
  BY DEF Others
<1>3. PICK v \in {Nil, Foreign} : etcd' = [etcd EXCEPT !.store[p] = [value |-> v, lease |-> 0]]
  BY <1>2 DEF OtherPuts, OtherLeaves
<1> DEFINE x == [value |-> v, lease |-> 0]
           S == [etcd.store EXCEPT ![p] = x]
<1>4. x \in Item /\ x.lease = 0
  BY DEF Item
<1>5. etcd' = [etcd EXCEPT !.store = S, !.late = etcd.late]
  BY <1>1, <1>3 DEF Server
<1>6. etcd'.leases = etcd.leases /\ etcd'.last = etcd.last /\ etcd'.store = S
  BY <1>1, <1>5 DEF Server
<1> HIDE DEF x
<1>7. S \in [Path -> Item] /\ (\A o \in Path : S[o].lease <= etcd.last)
      /\ \A o \in Path : o # p => S[o] = etcd.store[o]
  BY <1>1, <1>4 DEF ServerOK
<1> HIDE DEF S
<1>8. etcd.store[p].value \notin Value
  BY <1>2, ConstantsAssumption DEF OtherPuts, OtherLeaves, Value, First
<1>9. ASSUME NEW k \in Keepalive
      PROVE  KeepOK(cl.ka[k], PathOf[k], cl.lease, etcd')
  <2>1. KeepOK(cl.ka[k], PathOf[k], cl.lease, etcd) /\ PathOf[k] \in Path /\ cl.ka[k] \in Ka
    BY <1>1, ConstantsAssumption DEF OK, Client
  <2>2. CASE PathOf[k] # p
    BY <1>6, <1>7, <2>1, <2>2 DEF KeepOK
  <2>3. CASE PathOf[k] = p
    <3>1. cl.ka[k].value \in Value
      BY <2>1 DEF Ka
    <3>2. cl.ka[k].rpc.op = "put" => cl.ka[k].rpc.value \in Value
      BY <2>1 DEF Ka, KaRpc, GetRpc, PutRpc, NoRpc
    <3> QED BY <1>6, <1>8, <2>1, <2>3, <3>1, <3>2 DEF KeepOK
  <2> QED BY <2>2, <2>3
<1>10. Same(cl, cl) /\ etcd.late \in SUBSET etcd.late
  BY DEF Same
<1>11. OK(cl, etcd')
  BY ONLY <1>1, <1>5, <1>7, <1>9, <1>10, StoreStep
<1>12. UNCHANGED <<cl, phase, revoke>>
  BY <1>2 DEF OtherPuts, OtherLeaves
<1> QED BY <1>6, <1>11, <1>12 DEF IndInv

(* libcurl refuses requests, or takes them again. *)
LEMMA RefuseStep ==
    ASSUME IndInv, Refuse \/ Relent
    PROVE  IndInv'
<1>1. OK(cl, etcd) /\ cl \in Client
  BY DEF IndInv, OK
<1>2. PICK b \in BOOLEAN : cl' = [cl EXCEPT !.refused = b] /\ (b => MayRefuse)
  BY DEF Refuse, Relent
<1>3. /\ cl' \in Client /\ cl'.lease = cl.lease /\ cl'.token = cl.token /\ cl'.ka = cl.ka
      /\ cl'.retry = cl.retry /\ cl'.del = cl.del /\ (~MayRefuse => ~cl'.refused)
  BY <1>1, <1>2 DEF Client
<1>4. OK(cl', etcd)
  BY <1>1, <1>3 DEF OK
<1> QED BY <1>4, ClientOnly DEF Refuse, Relent

(* remove_keepalive_path with delay *)
LEMMA DelayedKeeps ==
    ASSUME NEW c, NEW e, OK(c, e), NEW k \in Keepalive, c.del[k].st = "sent"
    PROVE  OK(Delayed(c, k), e)
<1> DEFINE y == [st |-> "pending", tries |-> c.del[k].tries]
           D == [j \in Keepalive |->
                   IF j = k THEN y
                   ELSE IF PathOf[j] = PathOf[k] /\ c.del[j].st = "pending" THEN NoDel
                   ELSE c.del[j]]
<1>1. c \in Client /\ c.del \in [Keepalive -> Del]
  BY DEF OK, Client
<1>2. c.del[k] # NoDel /\ c.del[k].tries \in Nat
  BY SentDel
<1>3. y \in Del
  BY <1>2 DEF Del
<1>4. D \in [Keepalive -> Del] /\ \A j \in Keepalive : D[j] # NoDel => c.del[j] # NoDel
  <2>1. NoDel \in Del
    BY DEF Del
  <2> HIDE DEF y
  <2> QED BY <1>1, <1>2, <1>3, <2>1
<1>5. Delayed(c, k) = [c EXCEPT !.del = D]
  BY <1>1 DEF Delayed, Dropped, Client
<1> HIDE DEF D
<1> QED BY <1>4, <1>5, DelsKeep

(* libcurl_callback_on_remove_keepalive_path *)
LEMMA DeleteStep ==
    ASSUME IndInv, NEW k \in Keepalive, DeleteDone(k) \/ DeleteFails(k)
    PROVE  IndInv'
<1>1. OK(cl, etcd) /\ cl \in Client /\ cl.del \in [Keepalive -> Del] /\ cl.del[k].st = "sent"
      /\ UNCHANGED <<phase, revoke>> /\ etcd' \in {etcd, Abandon(etcd, DeleteOf(k))}
  BY DEF IndInv, OK, Client, DeleteDone, DeleteFails
<1>2. OK([cl EXCEPT !.del[k] = NoDel], etcd)
  <2> DEFINE D == [cl.del EXCEPT ![k] = NoDel]
  <2>1. D \in [Keepalive -> Del] /\ \A j \in Keepalive : D[j] # NoDel => cl.del[j] # NoDel
    BY <1>1 DEF Del
  <2> QED BY <1>1, <2>1, DelsKeep
<1>3. OK(Delayed(cl, k), etcd)
  BY <1>1, DelayedKeeps
<1>4. OK(Delayed(Denied(cl), k), etcd)
  <2>1. Denied(cl).del = cl.del
    BY <1>1 DEF Denied, Client
  <2> QED BY <1>1, <2>1, DeniedKeeps, DelayedKeeps
<1>5. \/ cl' \in {[cl EXCEPT !.del[k] = NoDel], Delayed(Denied(cl), k), Delayed(cl, k)}
      \/ NetError(Delayed(cl, k), cl.del[k].host)
  BY DEF DeleteDone, DeleteFails
<1>6. OK(cl', etcd)
  BY <1>2, <1>3, <1>4, <1>5, NetErrorKeeps
<1>7. DeleteOf(k) \in SUBSET Late /\ \A q \in DeleteOf(k) : q.op = "put" => q.lease <= etcd.last
  BY <1>1, DeleteType
<1> QED BY <1>1, <1>6, <1>7, ClientOnly, ClientGivesUp


(* add_keepalive: of a new object and a path that no actor has. *)
LEMMA AddStep ==
    ASSUME IndInv, NEW k \in Keepalive, Add(k)
    PROVE  IndInv'
<1> DEFINE p == PathOf[k]
           b == [cl EXCEPT !.enabled = TRUE]
           e == IF cl.enabled THEN cl ELSE CreateGrant(b)
           u == [NewKeepalive EXCEPT !.in = TRUE]
           D == [j \in Keepalive |-> IF PathOf[j] = p /\ e.del[j].st = "pending" THEN NoDel
                                     ELSE e.del[j]]
           c == [e EXCEPT !.ka = [@ EXCEPT ![k] = u], !.del = D]
<1>1. OK(cl, etcd) /\ cl \in Client
  BY DEF IndInv, OK
<1>2. OK(b, etcd)
  BY <1>1, FieldsKeep, ConstantsAssumption
<1>3. b.ka = cl.ka /\ b.del = cl.del
  BY <1>1 DEF Client
<1> HIDE DEF b
<1>4. e.ka = cl.ka /\ e.del = cl.del
  BY <1>1, <1>2, <1>3 DEF CreateGrant, OK, Client
<1>5. OK(e, etcd)
  BY <1>1, <1>2, CreateKeeps
<1>6. e \in Client /\ e.ka \in [Keepalive -> Ka] /\ e.del \in [Keepalive -> Del]
      /\ e.retry \subseteq Keepalive
  BY <1>5 DEF OK, Client
<1>7. /\ cl.ka[k] = NewKeepalive
      /\ \A j \in Keepalive : cl.ka[j].in => PathOf[j] # p
      /\ \A j \in Keepalive : AddWhileDeleting \/ PathOf[j] # p \/ cl.del[j].st # "sent"
  BY DEF Add, Actors
<1>8. [Dropped(e, p) EXCEPT !.ka[k].in = TRUE] = c
  <2>1. [e.ka EXCEPT ![k].in = TRUE] = [e.ka EXCEPT ![k] = u]
    BY <1>4, <1>7
  <2>2. [Dropped(e, p) EXCEPT !.ka[k].in = TRUE]
          = [e EXCEPT !.ka = [@ EXCEPT ![k].in = TRUE], !.del = D]
    BY <1>6 DEF Dropped, Client
  <2> QED BY <1>6, <2>1, <2>2 DEF Client
<1>9. cl' \in {c, Process(c, k)} /\ UNCHANGED <<etcd, phase, revoke>>
  <2> DEFINE g == [Dropped(e, p) EXCEPT !.ka[k].in = TRUE]
  <2>1. cl' = IF g.running /\ g.lease # 0 THEN Process(g, k) ELSE g
    BY DEF Add, b
  <2> QED BY <1>8, <2>1 DEF Add
<1>10. u \in Ka /\ u.in
  <2>1. First \in Value /\ NoRpc \in KaRpc
    BY ConstantsAssumption DEF First, Value, KaRpc
  <2> QED BY <2>1 DEF NewKeepalive, Ka
<1>11. KeepOK(u, p, e.lease, etcd)
  BY DEF KeepOK, NewKeepalive, NoRpc
<1> HIDE DEF e, u
<1>12. D \in [Keepalive -> Del] /\ \A j \in Keepalive : D[j] # NoDel => e.del[j] # NoDel
  BY <1>6 DEF Del
<1>13. ~AddWhileDeleting => \A j \in Keepalive : PathOf[j] = p => D[j] = NoDel
  BY <1>4, <1>6, <1>7 DEF Del
<1>14. /\ c \in Client /\ c.lease = e.lease /\ c.token = e.token /\ c.retry = e.retry
       /\ c.refused = e.refused
       /\ c.del = D /\ c.ka[k] = u /\ \A j \in Keepalive \ {k} : c.ka[j] = e.ka[j]
  <2> HIDE DEF D
  <2> QED BY <1>6, <1>10, <1>12 DEF Client
<1> HIDE DEF c, D
<1>15. OK(c, etcd)
  <2>1. c.lease <= etcd.last /\ c.token <= etcd.token /\ ServerOK(etcd)
        /\ (~MayRefuse => ~c.refused)
    BY <1>5, <1>14 DEF OK
  <2>2. \A j \in Keepalive : KeepOK(c.ka[j], PathOf[j], c.lease, etcd)
    BY <1>5, <1>11, <1>14 DEF OK
  <2>3. \A j \in c.retry : c.ka[j].in
    BY <1>5, <1>6, <1>10, <1>14 DEF OK
  <2>4. \A i, j \in Keepalive : c.ka[i].in /\ c.ka[j].in /\ PathOf[i] = PathOf[j] => i = j
    BY <1>4, <1>5, <1>7, <1>14 DEF OK
  <2>6. ~AddWhileDeleting =>
          \A i, j \in Keepalive : c.ka[j].in /\ PathOf[i] = PathOf[j] => c.del[i] = NoDel
    BY <1>5, <1>12, <1>13, <1>14 DEF OK
  <2> QED BY <1>14, <2>1, <2>2, <2>3, <2>4, <2>6 DEF OK
<1>16. OK(cl', etcd)
  BY <1>9, <1>10, <1>14, <1>15, ProcessActor
<1> QED BY <1>9, <1>16, ClientOnly

(* etcd_keepalive::set_value *)
LEMMA SetValueStep ==
    ASSUME IndInv, NEW k \in Keepalive, NEW v \in Value, SetValue(k, v)
    PROVE  IndInv'
<1> DEFINE r == cl.ka[k]
           u == [r EXCEPT !.value = v, !.changed = TRUE]
           c == [cl EXCEPT !.ka[k] = u]
<1>1. OK(cl, etcd) /\ cl \in Client /\ r.in
  BY DEF IndInv, OK, SetValue
<1>2. r \in Ka /\ KeepOK(r, PathOf[k], cl.lease, etcd)
  BY <1>1 DEF OK, Client
<1>3. u \in Ka /\ u.in /\ KeepOK(u, PathOf[k], cl.lease, etcd)
  BY <1>1, <1>2 DEF KeepOK, Ka
<1>4. [cl EXCEPT !.ka[k].value = v, !.ka[k].changed = TRUE] = c
  BY <1>1 DEF Client
<1>5. cl' \in {c, Process(c, k)} /\ UNCHANGED <<etcd, phase, revoke>>
  BY <1>4 DEF SetValue
<1> HIDE DEF u
<1>6. OK(c, etcd) /\ c.ka[k].in
  BY <1>1, <1>2, <1>3, OneKeeps
<1> HIDE DEF c
<1> QED BY <1>5, <1>6, ProcessActor, ClientOnly

(* A keepalive that is closed. *)
LEMMA ClosedKeeps ==
    ASSUME NEW c, NEW e, OK(c, e), NEW k \in Keepalive, NEW reset \in BOOLEAN, NEW l
    PROVE  LET u == [Closed(c.ka[k], reset) EXCEPT !.in = FALSE] IN
           u \in Ka /\ ~u.in /\ KeepOK(u, PathOf[k], l, e)
<1> DEFINE r == c.ka[k]
           u == [Closed(r, reset) EXCEPT !.in = FALSE]
<1>1. r \in Ka /\ KeepOK(r, PathOf[k], c.lease, e)
  BY DEF OK, Client
<1>2. u \in Ka
  BY <1>1 DEF Closed, Ka, KaRpc
<1>3. /\ u.in = FALSE /\ u.rpc = NoRpc /\ u.passed = FALSE /\ u.rpc.op = "none"
      /\ u.data => r.data
  BY <1>1 DEF Closed, Ka, NoRpc
<1> HIDE DEF u, r
<1>4. KeepOK(u, PathOf[k], l, e)
  BY <1>1, <1>3 DEF KeepOK
<1> QED BY <1>2, <1>3, <1>4 DEF u, r

(* remove_keepalive: its key is deleted if it was stored. *)
LEMMA RemoveStep ==
    ASSUME IndInv, NEW k \in Keepalive, Remove(k)
    PROVE  IndInv'
<1> DEFINE r == cl.ka[k]
           p == PathOf[k]
           u == [Closed(r, TRUE) EXCEPT !.in = FALSE]
           c == [cl EXCEPT !.ka[k] = u, !.retry = @ \ {k}]
           x == Sent(c, 0)
           D == [j \in Keepalive |-> IF j = k THEN x
                                     ELSE IF PathOf[j] = p /\ cl.del[j].st = "pending" THEN NoDel
                                     ELSE cl.del[j]]
           d == [c EXCEPT !.del = D]
<1>1. OK(cl, etcd) /\ cl \in Client /\ r.in /\ UNCHANGED <<phase, revoke>>
      /\ cl.del \in [Keepalive -> Del] /\ etcd' = Abandon(etcd, PutOf(k))
  BY DEF IndInv, OK, Remove, Client
<1>2. u \in Ka /\ ~u.in /\ KeepOK(u, p, cl.lease, etcd)
  BY <1>1, ClosedKeeps
<1> HIDE DEF u
<1>4. /\ c \in Client /\ Same(cl, c) /\ c.retry = cl.retry \ {k} /\ c.ka[k] = u
      /\ \A j \in Keepalive \ {k} : c.ka[j] = cl.ka[j]
  BY <1>1, <1>2 DEF Client, Same
<1>5. cl' = IF r.data THEN [Dropped(c, p) EXCEPT !.del[k] = x] ELSE c
  BY DEF Remove, u
<1> HIDE DEF c
<1>6. [Dropped(c, p) EXCEPT !.del[k] = x] = d
  BY <1>1, <1>4, ZenonT(30) DEF Dropped, Client, Same
<1>7. ASSUME NEW j \in Keepalive
      PROVE  /\ c.ka[j].in => cl.ka[j].in /\ j # k
             /\ KeepOK(c.ka[j], PathOf[j], c.lease, etcd)
             /\ j \in c.retry => c.ka[j].in
  BY <1>1, <1>2, <1>4 DEF OK, Same
<1>8. OK(c, etcd)
  <2>1. c.lease <= etcd.last /\ c.token <= etcd.token /\ c.del = cl.del
        /\ c.refused = cl.refused
    BY <1>1, <1>4 DEF OK, Same
  <2>2. \A j \in c.retry : c.ka[j].in
    BY <1>4, <1>7 DEF Client
  <2> QED BY <1>1, <1>4, <1>7, <2>1, <2>2, ClientStep
<1>11. PutOf(k) \in SUBSET Late /\ \A q \in PutOf(k) : q.op = "put" => q.lease <= etcd.last
  BY <1>1, AbandonedTypes
<1>9. CASE r.data
  <2>1. x \in Del
    <3>1. c.token \in Nat /\ c.node \in Host \cup {Nil}
      BY <1>4 DEF Client
    <3> QED BY <3>1, ConstantsAssumption DEF Sent, Del, Can, Starts
  <2> HIDE DEF x
  <2>2. D \in [Keepalive -> Del] /\ \A j \in Keepalive : D[j] # NoDel => cl.del[j] # NoDel \/ j = k
    BY <1>1, <2>1 DEF Del
  <2> HIDE DEF D
  <2>3. /\ d \in Client /\ d.lease = c.lease /\ d.token = c.token /\ d.ka = c.ka
        /\ d.retry = c.retry /\ d.del = D /\ d.refused = c.refused
    BY <1>4, <2>2 DEF Client
  <2> HIDE DEF d
  <2>6. \A j \in Keepalive : c.ka[j].in => PathOf[j] # p
    BY <1>1, <1>7 DEF OK
  <2>7. ~AddWhileDeleting =>
          \A i, j \in Keepalive : d.ka[j].in /\ PathOf[i] = PathOf[j] => d.del[i] = NoDel
    BY <1>1, <1>7, <2>2, <2>3, <2>6 DEF OK
  <2>8. OK(d, etcd)
    BY <1>8, <2>3, <2>7 DEF OK
  <2>9. cl' = d
    BY <1>5, <1>6, <1>9
  <2> QED BY <1>1, <1>11, <2>8, <2>9, ClientGivesUp
<1>10. CASE ~r.data
  BY <1>1, <1>5, <1>8, <1>10, <1>11, ClientGivesUp
<1> QED BY <1>9, <1>10


(* etcd_cluster::close: no actor is left. *)
LEMMA ShutKeeps ==
    ASSUME NEW c, NEW e, OK(c, e)
    PROVE  OK(Shut(c), e)
<1> DEFINE v == [k \in Keepalive |-> IF c.ka[k].in
                                     THEN [Closed(c.ka[k], FALSE) EXCEPT !.in = FALSE]
                                     ELSE c.ka[k]]
           R == [lease |-> NoRpc, members |-> NoRpc, auth |-> NoRpc]
           D == [k \in Keepalive |-> IF c.del[k].st = "pending" THEN NoDel ELSE c.del[k]]
           d == Shut(c)
<1>1. c \in Client /\ c.ka \in [Keepalive -> Ka] /\ c.del \in [Keepalive -> Del]
  BY DEF OK, Client
<1>2. d = [c EXCEPT !.closing = TRUE, !.lease = 0, !.retry = {}, !.rpc = R, !.ka = v, !.del = D]
  BY DEF Shut
<1>3. R \in Rpcs
  BY DEF Rpcs
<1>4. ASSUME NEW k \in Keepalive
      PROVE  v[k] \in Ka /\ ~v[k].in /\ KeepOK(v[k], PathOf[k], 0, e)
  <2>1. CASE c.ka[k].in
    BY <2>1, ClosedKeeps
  <2>2. CASE ~c.ka[k].in
    <3>1. KeepOK(c.ka[k], PathOf[k], c.lease, e)
      BY DEF OK
    <3>2. c.ka[k].rpc = NoRpc /\ c.ka[k].rpc.op = "none"
      BY <2>2, <3>1 DEF KeepOK, NoRpc
    <3> QED BY <1>1, <2>2, <3>1, <3>2 DEF KeepOK
  <2> QED BY <2>1, <2>2
<1>5. D \in [Keepalive -> Del] /\ \A k \in Keepalive : D[k] # NoDel => c.del[k] # NoDel
  BY <1>1 DEF Del
<1>6. v \in [Keepalive -> Ka]
  BY <1>4
<1> HIDE DEF v, R, D, d
<1>7. d \in Client /\ d.lease = 0 /\ d.retry = {} /\ d.ka = v /\ d.del = D /\ d.token = c.token
      /\ d.refused = c.refused
  BY <1>1, <1>2, <1>3, <1>5, <1>6 DEF Client
<1>8. d.lease <= e.last /\ d.token <= e.token
  BY <1>7 DEF OK, ServerOK, Server
<1>9. OK(d, e)
  BY <1>4, <1>5, <1>7, <1>8, ClientStep
<1> QED BY <1>9 DEF d

(* Every deletor is dropped. *)
LEMMA NoDelsKeep ==
    ASSUME NEW c, NEW e, OK(c, e)
    PROVE  OK([c EXCEPT !.del = [k \in Keepalive |-> NoDel]], e)
<1> DEFINE D == [k \in Keepalive |-> NoDel]
<1>1. D \in [Keepalive -> Del] /\ \A k \in Keepalive : D[k] = NoDel
  BY DEF Del
<1> HIDE DEF D
<1>2. OK([c EXCEPT !.del = D], e)
  BY <1>1, DelsKeep
<1> QED BY <1>2 DEF D

(* The requests of all keepalives have their type. *)
LEMMA AllAbandonedTypes ==
    ASSUME OK(cl, etcd), NEW U,
           U \in {UNION {PutOf(k) : k \in Keepalive}, UNION {DeleteOf(k) : k \in Keepalive}}
    PROVE  U \in SUBSET Late /\ \A q \in U : q.op = "put" => q.lease <= etcd.last
<1>1. ASSUME NEW q \in U
      PROVE  q \in Late /\ (q.op = "put" => q.lease <= etcd.last)
  <2>1. PICK k \in Keepalive : q \in PutOf(k) \cup DeleteOf(k)
    BY <1>1
  <2> QED BY <2>1, AbandonedTypes
<1> QED BY <1>1

(* etcd_module::init ends, or etcd_module::stop is called. *)
LEMMA EndStep ==
    ASSUME IndInv, InitDone \/ InitFails \/ Stop
    PROVE  IndInv'
<1> DEFINE U == UNION {PutOf(k) : k \in Keepalive}
           e == Abandon(etcd, U)
<1>1. OK(cl, etcd) /\ OK(Shut(cl), etcd)
  BY ShutKeeps DEF IndInv
<1>2. CASE InitDone
  BY <1>2 DEF InitDone, IndInv
<1>5. U \in SUBSET Late /\ \A q \in U : q.op = "put" => q.lease <= etcd.last
  BY <1>1, AllAbandonedTypes
<1>6. InitFails \/ Stop => etcd' = e
  BY DEF InitFails, Stop
<1> HIDE DEF U
<1>3. CASE InitFails
  <2>1. OK([Shut(cl) EXCEPT !.del = [k \in Keepalive |-> NoDel]], etcd)
    BY <1>1, NoDelsKeep
  <2>2. OK([Shut(cl) EXCEPT !.del = [k \in Keepalive |-> NoDel]], e) /\ e.last = etcd.last
    BY <1>5, <2>1, AbandonKeeps
  <2> HIDE DEF e
  <2> QED BY <1>3, <1>6, <2>2 DEF InitFails, IndInv
<1>4. CASE Stop
  <2>1. cl.lease # 0 => cl.lease \in 1..etcd.last
    BY <1>1 DEF OK, Client, ServerOK, Server
  <2>2. OK(Shut(cl), e) /\ e.last = etcd.last
    BY <1>1, <1>5, AbandonKeeps
  <2> HIDE DEF e
  <2> QED BY <1>4, <1>6, <2>1, <2>2 DEF Stop, LeaseToRevoke, IndInv
<1> QED BY <1>2, <1>3, <1>4

(* A lease is gone with its keys. *)
LEMMA GoneKeeps ==
    ASSUME NEW c, NEW e, OK(c, e), NEW l \in 1..e.last
    PROVE  OK(c, Gone(e, l)) /\ Gone(e, l).last = e.last
<1> DEFINE x == [value |-> Nil, lease |-> 0]
           s == [p \in Path |-> IF e.store[p].lease = l THEN x ELSE e.store[p]]
           f == Gone(e, l)
<1>1. e \in Server /\ e.store \in [Path -> Item] /\ e.leases \subseteq 1..e.last /\ e.last \in Nat
  BY DEF OK, ServerOK, Server
<1>2. x \in Item /\ x.value = Nil /\ x.lease = 0
  BY DEF Item
<1>3. f = [e EXCEPT !.leases = e.leases \ {l}, !.store = s]
  BY DEF Gone
<1> HIDE DEF x
<1>4. s \in [Path -> Item]
      /\ \A p \in Path : s[p] = IF e.store[p].lease = l THEN x ELSE e.store[p]
  BY <1>1, <1>2
<1> HIDE DEF s, f
<1>5. /\ f \in Server /\ f.leases = e.leases \ {l} /\ f.store = s
      /\ f.last = e.last /\ f.token = e.token /\ f.late = e.late
  BY <1>1, <1>3, <1>4 DEF Server
<1>6. ServerOK(f)
  <2>1. f.leases \subseteq 1..f.last
    BY <1>1, <1>5
  <2>2. ASSUME NEW p \in Path
        PROVE  f.store[p].lease <= f.last
    <3>1. e.store[p].lease <= e.last
      BY DEF OK, ServerOK
    <3> QED BY <1>1, <1>2, <1>4, <1>5, <3>1
  <2>3. (\A q \in f.late : q.op = "put" => q.lease <= f.last) /\ (~MayLinger => f.late = {})
    BY <1>5 DEF OK, ServerOK
  <2> QED BY <1>5, <2>1, <2>2, <2>3 DEF ServerOK
<1>8. ASSUME NEW k \in Keepalive
      PROVE  KeepOK(c.ka[k], PathOf[k], c.lease, f)
  <2>1. KeepOK(c.ka[k], PathOf[k], c.lease, e) /\ PathOf[k] \in Path
    BY ConstantsAssumption DEF OK
  <2>2. ASSUME NEW m \in f.leases, NEW v, e.store[PathOf[k]] = [value |-> v, lease |-> m]
        PROVE  f.store[PathOf[k]] = [value |-> v, lease |-> m]
    BY <1>4, <1>5, <2>1, <2>2
  <2> QED BY <1>5, <2>1, <2>2 DEF KeepOK
<1>10. OK(c, f)
  BY <1>5, <1>6, <1>8 DEF OK
<1> QED BY <1>5, <1>10 DEF f

(* The lease is revoked, expires, or the token expires. *)
LEMMA ServerStep ==
    ASSUME IndInv, Revoked \/ TokenExpires \/ \E l \in etcd.leases : LeaseExpires(l)
    PROVE  IndInv'
<1>1. OK(cl, etcd) /\ etcd.leases \subseteq 1..etcd.last /\ etcd \in Server
  BY DEF IndInv, OK, ServerOK
<1>2. CASE Revoked
  <2> DEFINE d == [cl EXCEPT !.del = [k \in Keepalive |-> NoDel]]
  <2>1. OK(d, etcd)
    BY <1>1, NoDelsKeep
  <2>2. revoke \in 1..etcd.last
    BY <1>2 DEF Revoked, IndInv
  <2> DEFINE U == UNION {DeleteOf(k) : k \in Keepalive}
  <2>3. PICK e \in {etcd, Gone(etcd, revoke)} :
          cl' = d /\ etcd' = Abandon(e, U) /\ phase' = "stopped" /\ revoke' = Nil
    BY <1>2 DEF Revoked
  <2>4. U \in SUBSET Late /\ \A q \in U : q.op = "put" => q.lease <= etcd.last
    BY <1>1, AllAbandonedTypes
  <2> HIDE DEF d, U
  <2>5. OK(d, e) /\ e.last = etcd.last
    BY <2>1, <2>2, <2>3, GoneKeeps
  <2>6. OK(d, Abandon(e, U)) /\ Abandon(e, U).last = e.last
    BY <2>4, <2>5, AbandonKeeps
  <2> QED BY <2>3, <2>5, <2>6 DEF IndInv
<1>3. CASE TokenExpires
  <2>1. /\ etcd' \in Server /\ etcd'.token = etcd.token + 1 /\ etcd'.last = etcd.last
        /\ etcd'.store = etcd.store /\ etcd'.leases = etcd.leases /\ cl.token \in Nat
        /\ etcd.token \in Nat /\ etcd'.late = etcd.late
    BY <1>1, <1>3 DEF TokenExpires, Server, OK, Client
  <2>2. ServerOK(etcd')
    BY <1>1, <2>1 DEF OK, ServerOK
  <2>3. cl.token <= etcd'.token /\ cl.lease <= etcd'.last
    BY <1>1, <2>1 DEF OK
  <2>4. \A k \in Keepalive : KeepOK(cl.ka[k], PathOf[k], cl.lease, etcd')
    BY <1>1, <2>1 DEF OK, KeepOK
  <2>5. OK(cl, etcd')
    BY <1>1, <2>1, <2>2, <2>3, <2>4 DEF OK
  <2> QED BY <1>3, <2>1, <2>5 DEF TokenExpires, IndInv
<1>4. CASE \E l \in etcd.leases : LeaseExpires(l)
  <2>1. PICK l \in etcd.leases : LeaseExpires(l)
    BY <1>4
  <2>2. l \in 1..etcd.last
    BY <1>1
  <2> QED BY <1>1, <2>1, <2>2, GoneKeeps DEF LeaseExpires, IndInv
<1> QED BY <1>2, <1>3, <1>4

(* The initial states. *)
LEMMA InitIndInv == Init => IndInv
<1> SUFFICES ASSUME Init PROVE IndInv
  OBVIOUS
<1> DEFINE v == [k \in Keepalive |-> [NewKeepalive EXCEPT !.in = k \in Boot]]
<1>1. NewKeepalive \in Ka
  <2>1. First \in Value /\ NoRpc \in KaRpc
    BY ConstantsAssumption DEF First, Value, KaRpc
  <2> QED BY <2>1 DEF NewKeepalive, Ka
<1>2. v \in [Keepalive -> Ka] /\ \A k \in Keepalive : v[k].in => k \in Boot
  <2>1. ASSUME NEW k \in Keepalive
        PROVE  v[k] \in Ka /\ (v[k].in => k \in Boot)
    <3>1. CASE k \in Boot
      <4>1. v[k] = [NewKeepalive EXCEPT !.in = TRUE]
        BY <3>1
      <4> QED BY <1>1, <3>1, <4>1 DEF Ka
    <3>2. CASE k \notin Boot
      <4>0. (k \in Boot) = FALSE
        BY <3>2
      <4>1. v[k] = [NewKeepalive EXCEPT !.in = FALSE]
        BY <4>0, Zenon
      <4> QED BY <1>1, <4>1 DEF Ka
    <3> QED BY <3>1, <3>2
  <2> QED BY <2>1
<1>3. ASSUME NEW k \in Keepalive
      PROVE  KeepOK(v[k], PathOf[k], 0, etcd)
  BY DEF KeepOK, NewKeepalive, NoRpc
<1> HIDE DEF v
<1>4. /\ cl \in Client /\ cl.lease = 0 /\ cl.token = 0 /\ cl.ka = v /\ cl.retry = {}
      /\ cl.refused = FALSE /\ \A k \in Keepalive : cl.del[k] = NoDel
  <2>1. [lease |-> NoRpc, members |-> NoRpc, auth |-> NoRpc] \in Rpcs
    BY DEF Rpcs
  <2>2. [k \in Keepalive |-> NoDel] \in [Keepalive -> Del]
    BY DEF Del
  <2> QED BY <1>2, <2>1, <2>2 DEF Init, Client, v
<1>5. PICK s \in [Path -> {Nil, Foreign}] :
        etcd = [store |-> [p \in Path |-> [value |-> s[p], lease |-> 0]],
                leases |-> {}, last |-> 0, token |-> 1, late |-> {}]
  BY DEF Init
<1>6. etcd \in Server /\ etcd.leases = {} /\ etcd.last = 0 /\ etcd.token = 1 /\ etcd.late = {}
      /\ \A p \in Path : etcd.store[p].lease = 0
  BY <1>5 DEF Server, Item
<1>7. ServerOK(etcd)
  BY <1>6 DEF ServerOK
<1>8. OK(cl, etcd)
  <2>1. cl.lease <= etcd.last /\ cl.token <= etcd.token
    BY <1>4, <1>6
  <2>2. \A j, k \in Keepalive : cl.ka[j].in /\ cl.ka[k].in /\ PathOf[j] = PathOf[k] => j = k
    BY <1>2, <1>4, ConstantsAssumption
  <2> QED BY <1>3, <1>4, <1>7, <2>1, <2>2 DEF OK
<1> QED BY <1>8 DEF Init, IndInv

(* Every step keeps the inductive invariant. *)
LEMMA NextIndInv == IndInv /\ [Next]_vars => IndInv'
<1> SUFFICES ASSUME IndInv, [Next]_vars PROVE IndInv'
  OBVIOUS
<1>1. CASE UNCHANGED vars
  BY <1>1 DEF vars, IndInv, OK
<1>2. CASE Replies
  BY <1>2, GrantedStep, LeaseKeptStep, AuthStep, MembersKnownStep, GetDoneStep,
     ServePutStep, PutDoneStep, ServeDeleteStep, DeleteStep DEF Replies
<1>3. CASE Failures
  BY <1>3, ClusterFailsStep, KeepaliveFailsStep, DeleteStep, ServerStep, ServeLateStep,
     RefuseStep DEF Failures
<1>4. CASE Application
  BY <1>4, AddStep, RemoveStep, SetValueStep, EndStep, ServerStep DEF Application
<1>5. CASE \E D \in SUBSET Timers, h \in MembersToAsk(cl) : Tick(D, h)
  BY <1>5, TickStep
<1> QED BY <1>1, <1>2, <1>3, <1>4, <1>5, OthersStep DEF Next


(* The invariant implies the type invariant. *)
LEMMA IndInvTypeOK == IndInv => TypeOK
<1> SUFFICES ASSUME IndInv PROVE TypeOK
  OBVIOUS
<1>1. cl \in Client /\ etcd \in Server /\ cl.lease <= etcd.last /\ cl.token <= etcd.token
  BY DEF IndInv, OK, ServerOK
<1>2. /\ cl.node \in Host \cup {Nil} /\ cl.hosts \subseteq Host
      /\ cl.token \in 0..etcd.token /\ cl.lease \in 0..etcd.last
      /\ {cl.closing, cl.refused, cl.running, cl.enabled} \subseteq BOOLEAN
      /\ cl.retry \subseteq Keepalive
  BY <1>1 DEF Client, Server
<1>3. ASSUME NEW k \in Keepalive
      PROVE  /\ cl.ka[k].value \in Value
             /\ cl.ka[k].rpc.op \in {"none", "get", "put"}
             /\ cl.del[k].st \in {"none", "pending", "sent"}
  <2>1. cl.ka[k] \in Ka /\ cl.del[k] \in Del
    BY <1>1 DEF Client
  <2>2. cl.ka[k].rpc \in KaRpc
    BY <2>1 DEF Ka
  <2> QED BY <2>1, <2>2 DEF Ka, KaRpc, GetRpc, PutRpc, NoRpc, Del, NoDel
<1>4. etcd.store \in [Path -> Entry]
  <2>1. ASSUME NEW p \in Path PROVE etcd.store[p] \in Entry
    <3>1. etcd.store[p] \in Item /\ etcd.store[p].lease <= etcd.last /\ etcd.last \in Nat
      BY <1>1 DEF IndInv, OK, ServerOK, Server
    <3> QED BY <3>1 DEF Item, Entry
  <2> QED BY <1>1, <2>1 DEF Server
<1> QED BY <1>2, <1>3, <1>4 DEF TypeOK, IndInv, OK, ServerOK

(* The inductive invariant holds in every state, for any number of keepalives,   *)
(* paths, members, leases and faults.                                           *)
THEOREM Invariance == Spec => []IndInv
  BY InitIndInv, NextIndInv, PTL DEF Spec

(* The state of etcd_cluster, etcd_keepalive and the server has its type. *)
THEOREM TypeCorrect == Spec => []TypeOK
  BY Invariance, IndInvTypeOK, PTL

(* If every request starts, the server executes none that the client has given   *)
(* up, no path is used again while its delete request runs and no path of the     *)
(* process begins with another, a keepalive that has nothing left to do has its   *)
(* current value in etcd under the current lease, as long as that lease lives.    *)
THEOREM Settled ==
    ASSUME Careful
    PROVE  Spec => []SettledIsRegistered
<1>1. IndInv => SettledIsRegistered
  <2> SUFFICES ASSUME IndInv, NEW k \in Actors(cl),
                      cl.ka[k].passed, ~cl.ka[k].changed, cl.ka[k].rpc = NoRpc,
                      cl.lease \in etcd.leases
               PROVE  Registered(k)
    BY DEF SettledIsRegistered, SettledAreStored
  <2>1. k \in Keepalive /\ cl.ka[k].in
    BY DEF Actors
  <2>2. KeepOK(cl.ka[k], PathOf[k], cl.lease, etcd)
    BY <2>1 DEF IndInv, OK
  <2> QED BY <2>1, <2>2 DEF KeepOK, Registered
<1> QED BY <1>1, Invariance, PTL
=============================================================================
