------------------------- MODULE EtcdWatcherProofs -------------------------
(***************************************************************************)
(* Proofs about EtcdWatcher, for any keys and any number of changes, ends   *)
(* and chunks: the type invariant, OnceInOrder and ViewIsSnapshot.          *)
(*                                                                         *)
(* The invariant needed is one on the pieces that the server has sent and   *)
(* the watcher has not received: the changes they carry continue those that *)
(* were received, without a gap, up to the one the server has got to.       *)
(***************************************************************************)
EXTENDS EtcdWatcher, NaturalsInduction, WellFoundedInduction, TLAPS

Event == [key : Key, op : {"put", "delete"}]
Chunk == [rev : Nat, from : Nat, upto : Nat, cancel : BOOLEAN]
Piece == [open : BOOLEAN, chunk : Chunk]

Watcher == [last : Nat, retry : BOOLEAN, wait : BOOLEAN, depth : {0, 1}, closed : BOOLEAN]

RangeReq == [kind : {"range", "retry"}, rev : Nat]
WatchReq == [kind : {"watch"}, st : {"new", "open", "canceled"}, pos : Nat, notes : Nat,
             wire : Seq(Piece)]
Req == {NoReq, [kind |-> "ended"]} \cup RangeReq \cup WatchReq

\* a piece that completes its chunk, and one that completes a chunk with changes
Closes(p) == ~p.open
Carries(p) == ~p.open /\ p.chunk.upto # 0

\* pieces alternate, the first one continues the d brackets that are open, and the
\* last one closes its chunk
Framed(wire, d) ==
    /\ wire = <<>> => d = 0
    /\ wire # <<>> => (wire[1].open <=> d = 0) /\ Closes(wire[Len(wire)])
    /\ \A i \in 2..Len(wire) : wire[i].open <=> Closes(wire[i - 1])

\* g[i] is the last change that was received when i pieces of the wire are: the
\* changes of a chunk follow it; a revision in a header is not behind it
Chained(wire, g) ==
    \A i \in 1..Len(wire) :
        LET p == wire[i]
            c == p.chunk
        IN  /\ Carries(p) => c.from = g[i - 1] + 1 /\ c.from <= c.upto /\ g[i] = c.upto
            /\ ~Carries(p) => g[i] = g[i - 1]
            /\ Closes(p) /\ c.upto = 0 => c.from = 0
            /\ Closes(p) /\ (c.rev # 0 \/ c.upto # 0) => g[i] <= c.rev
            /\ Closes(p) /\ c.cancel => i = Len(wire) /\ c.rev = 0 /\ c.upto = 0

WireOK(q, d, s, r, g) ==
    /\ Framed(q.wire, d) /\ Chained(q.wire, g)
    /\ s <= g[0] /\ (~MayLose => g[0] = s)
    /\ g[Len(q.wire)] = q.pos /\ q.pos <= r
    /\ \A i \in 0..Len(q.wire) : g[i] <= q.pos
    /\ \A i \in 1..Len(q.wire) :
          /\ q.wire[i].chunk.rev <= r
          /\ ~MayLose /\ q.st = "canceled" => q.wire[i].chunk.rev <= q.pos
          /\ Closes(q.wire[i]) /\ q.wire[i].chunk.cancel => q.st = "canceled"

Position(wire) == [0..Len(wire) -> Nat]

\* the watcher c, what was told t and what was received s, at revision r
WatcherOK(c, t, s, r) ==
    /\ c \in Watcher /\ t \in [Key -> Nat] /\ s \in Nat
    /\ c.last <= r /\ s <= r /\ \A k \in Key : t[k] <= r
    /\ ~c.closed => /\ s <= c.last
                    /\ c.retry => c.last # 0
                    /\ c.last = 0 => \A k \in Key : t[k] = 0

IndInv ==
    /\ log \in Seq(Event) /\ Len(log) >= 1
    /\ WatcherOK(w, told, seen, Len(log))
    /\ req \in Req /\ ends \in Nat
    /\ w.closed => req = NoReq
    /\ ~MayLose /\ ~w.closed /\ req.kind # "watch" => w.last = seen
    /\ req.kind = "range" => w.last = 0 /\ ~w.retry /\ req.rev <= Len(log)
    /\ req.kind \in {"retry", "watch", "ended"} => w.last # 0
    /\ req.kind = "watch" => \E g \in Position(req.wire) : WireOK(req, w.depth, seen, Len(log), g)
    /\ req.kind = "watch" /\ ~MayLose /\ req.st = "canceled" => w.last <= req.pos
    /\ ~MayLose => ViewIsSnapshot

-----------------------------------------------------------------------------
(* The changes of a key. *)

(* A set of revisions up to r has a last one. *)
LEMMA MaxIs ==
    ASSUME NEW r \in Nat, NEW S, S \subseteq 1..r, S # {}
    PROVE  Max(S) \in S /\ \A y \in S : y <= Max(S)
<1> DEFINE T == {r - i : i \in S}
<1>1. T \subseteq Nat /\ T # {}
  <2>1. \A i \in S : r - i \in Nat
    OBVIOUS
  <2>2. PICK i \in S : TRUE
    OBVIOUS
  <2>3. r - i \in T
    OBVIOUS
  <2> QED BY <2>1, <2>3
<1>2. PICK x \in T : \A y \in T : ~(<<y, x>> \in OpToRel(<, Nat))
  <2> HIDE DEF T
  <2> QED BY <1>1, NatLessThanWellFounded, WFMin
<1>3. \A y \in T : x <= y
  <2> HIDE DEF T
  <2> SUFFICES ASSUME NEW y \in T PROVE x <= y
    OBVIOUS
  <2>1. x \in Nat /\ y \in Nat
    BY <1>1
  <2>2. ~(<<y, x>> \in {q \in Nat \X Nat : q[1] < q[2]})
    BY <1>2 DEF OpToRel
  <2>3. ~(y < x)
    BY <2>1, <2>2
  <2> QED BY <2>1, <2>3
<1>4. PICK m \in S : x = r - m
  OBVIOUS
<1>5. \A y \in S : m >= y
  <2> SUFFICES ASSUME NEW y \in S PROVE m >= y
    OBVIOUS
  <2>1. r - y \in T
    OBVIOUS
  <2> HIDE DEF T
  <2>2. r - m <= r - y
    BY <1>3, <1>4, <2>1
  <2> QED BY <2>2
<1>6. Max(S) \in S /\ \A y \in S : Max(S) >= y
  BY <1>5 DEF Max
<1> QED BY <1>6

LastIn(S, m) == m \in S /\ \A y \in S : y <= m

(* LastChange is the last change of the key, and 0 if there is none. *)
LEMMA LastChangeIs ==
    ASSUME NEW r \in Nat, NEW k
    PROVE  LET S == {i \in 1..r : log[i].key = k} IN
           /\ S = {} => LastChange(k, r) = 0
           /\ S # {} => LastIn(S, LastChange(k, r))
<1> DEFINE S == {i \in 1..r : log[i].key = k}
<1>1. S \subseteq 1..r
  OBVIOUS
<1>2. LastChange(k, r) = IF S = {} THEN 0 ELSE Max(S)
  BY DEF LastChange
<1> HIDE DEF S
<1>3. S # {} => LastIn(S, Max(S))
  BY <1>1, MaxIs DEF LastIn
<1> QED BY <1>2, <1>3 DEF S

(* What is characterised so is the last change. *)
LEMMA LastChangeUnique ==
    ASSUME NEW r \in Nat, NEW k, NEW m \in 1..r, log[m].key = k,
           \A i \in 1..r : log[i].key = k => i <= m
    PROVE  LastChange(k, r) = m
<1> DEFINE S == {i \in 1..r : log[i].key = k}
<1>1. m \in S
  OBVIOUS
<1>2. LastChange(k, r) \in S /\ m <= LastChange(k, r)
  BY <1>1, LastChangeIs DEF LastIn
<1> QED BY <1>2

(* No change of a key in between: the last one is the same. *)
LEMMA LastChangeSame ==
    ASSUME NEW r \in Nat, NEW s \in Nat, s <= r, NEW k,
           \A i \in s + 1 .. r : log[i].key # k
    PROVE  LastChange(k, r) = LastChange(k, s)
<1> DEFINE R == {i \in 1..r : log[i].key = k}
           S == {i \in 1..s : log[i].key = k}
<1>1. R = S
  OBVIOUS
<1> QED BY <1>1 DEF LastChange

(* The range of LastChange. *)
LEMMA LastChangeType ==
    ASSUME NEW r \in Nat, NEW k
    PROVE  LastChange(k, r) \in 0..r
  BY LastChangeIs DEF LastIn

(* A change that is added to the log leaves the ones before it alone. *)
LEMMA LogGrows ==
    ASSUME log \in Seq(Event), NEW x \in Event, log' = Append(log, x)
    PROVE  /\ log' \in Seq(Event) /\ Len(log') = Len(log) + 1
           /\ \A i \in 1..Len(log) : log'[i] = log[i]
           /\ \A k, r : r \in 0..Len(log) => LastChange(k, r)' = LastChange(k, r)
           /\ \A i \in 0..Len(log) : Put(i)' = Put(i)
<1>1. /\ log' \in Seq(Event) /\ Len(log') = Len(log) + 1 /\ Len(log) \in Nat
      /\ \A i \in 1..Len(log) : log'[i] = log[i]
  OBVIOUS
<1>2. ASSUME NEW k, NEW r \in 0..Len(log)
      PROVE  LastChange(k, r)' = LastChange(k, r)
  <2>1. {i \in 1..r : log'[i].key = k} = {i \in 1..r : log[i].key = k}
    BY <1>1
  <2> QED BY <2>1 DEF LastChange
<1>3. ASSUME NEW i \in 0..Len(log)
      PROVE  Put(i)' = Put(i)
  BY <1>1, <1>3 DEF Put
<1> QED BY <1>1, <1>2, <1>3


-----------------------------------------------------------------------------
(* The actions. *)

(* etcd_watcher::process of a watcher that knows all it was told of: a new watch  *)
(* continues there.                                                              *)
LEMMA ProcessKeeps ==
    ASSUME log \in Seq(Event), Len(log) >= 1, UNCHANGED log, NEW c, NEW n \in Nat,
           WatcherOK(c, told', seen', Len(log)), ~c.closed,
           ~MayLose => c.last = seen', ~MayLose => ViewIsSnapshot',
           Process(c, n)
    PROVE  IndInv'
<1>1. c \in Watcher /\ c.last \in Nat /\ seen' \in Nat /\ c.last <= Len(log) /\ seen' <= c.last
      /\ Len(log) \in Nat
  BY DEF WatcherOK, Watcher
<1>2. NoReq.kind = "none" /\ NoReq \in Req
  BY DEF NoReq, Req
<1>3. ASSUME w' \in {c, [c EXCEPT !.wait = TRUE]}, req' = NoReq, ends' \in Nat
      PROVE  IndInv'
  <2>1. w' \in Watcher /\ w'.last = c.last /\ w'.retry = c.retry /\ w'.closed = c.closed
    BY <1>1, <1>3 DEF Watcher
  <2>2. WatcherOK(w', told', seen', Len(log))
    BY <2>1 DEF WatcherOK
  <2> QED BY <1>2, <1>3, <2>1, <2>2 DEF IndInv
<1>4. CASE /\ c.last = 0 \/ c.retry
           /\ w' = c /\ ends' = n
           /\ req' = [kind |-> IF c.retry THEN "retry" ELSE "range", rev |-> 0]
  <2>1. req' \in RangeReq /\ req'.rev = 0 /\ req'.kind = IF c.retry THEN "retry" ELSE "range"
    BY <1>4 DEF RangeReq
  <2>2. c.retry => c.last # 0
    BY DEF WatcherOK
  <2> QED BY <1>1, <1>4, <2>1, <2>2 DEF IndInv, Req
<1>5. CASE /\ c.last # 0
           /\ w' = [c EXCEPT !.depth = Framing(c)] /\ ends' = n
           /\ req' = [kind |-> "watch", st |-> "new", pos |-> WatchFrom(c), notes |-> 0,
                      wire |-> <<>>]
  <2>1. w' \in Watcher /\ w'.last = c.last /\ w'.retry = c.retry /\ w'.closed = c.closed
        /\ w'.depth = 0
    BY <1>1, <1>5 DEF Watcher, Framing
  <2>2. WatcherOK(w', told', seen', Len(log))
    BY <2>1 DEF WatcherOK
  <2>3. req' \in WatchReq /\ req'.kind = "watch" /\ req'.wire = <<>> /\ req'.pos = c.last
        /\ req'.st = "new" /\ Len(req'.wire) = 0
    BY <1>1, <1>5 DEF WatchReq, WatchFrom
  <2> DEFINE g == [i \in 0..0 |-> c.last]
  <2>4. g \in Position(req'.wire) /\ g[0] = c.last
    BY <1>1, <2>3 DEF Position
  <2> HIDE DEF g
  <2>5. Framed(req'.wire, w'.depth) /\ Chained(req'.wire, g)
    BY <2>1, <2>3 DEF Framed, Chained
  <2>6. WireOK(req', w'.depth, seen', Len(log), g)
    BY <1>1, <2>3, <2>4, <2>5 DEF WireOK
  <2> QED BY <1>1, <1>5, <2>1, <2>2, <2>3, <2>4, <2>6 DEF IndInv, Req
<1> QED BY <1>3, <1>4, <1>5 DEF Process

(* A tick, and an interval that is over. *)
LEMMA TickStep ==
    ASSUME IndInv, Tick
    PROVE  IndInv'
<1>1. req.kind = "none" /\ ~w.closed
  BY DEF Tick, NoReq
<1>2. WatcherOK(w, told', seen', Len(log)) /\ (~MayLose => w.last = seen')
  BY <1>1 DEF IndInv, Tick
<1>3. ~MayLose => ViewIsSnapshot'
  BY DEF IndInv, Tick, ViewIsSnapshot, View, ValueAt, LastChange, Put
<1> QED BY <1>1, <1>2, <1>3, ProcessKeeps DEF Tick, IndInv

(* The properties of the view in a step that changes none of what they are about. *)
LEMMA ViewStays ==
    ASSUME UNCHANGED <<log, told, seen>>, ~MayLose => ViewIsSnapshot
    PROVE  ~MayLose => ViewIsSnapshot'
  BY DEF ViewIsSnapshot, View, ValueAt, LastChange, Put

(* watcher_next_request_time is over. *)
LEMMA ElapseStep ==
    ASSUME IndInv, Elapse
    PROVE  IndInv'
<1>1. w \in Watcher
  BY DEF IndInv, WatcherOK
<1>2. /\ w' \in Watcher /\ w'.last = w.last /\ w'.retry = w.retry /\ w'.closed = w.closed
      /\ w'.depth = w.depth
  BY <1>1 DEF Elapse, Watcher
<1>3. WatcherOK(w', told', seen', Len(log'))
  BY <1>2 DEF IndInv, WatcherOK, Elapse
<1> QED BY <1>2, <1>3, ViewStays DEF IndInv, Elapse

(* The server answers a range request. *)
LEMMA ServeRangeStep ==
    ASSUME IndInv, ServeRange
    PROVE  IndInv'
<1>1. req \in RangeReq /\ log \in Seq(Event)
  <2>1. req \in Req /\ req.kind \in {"range", "retry"}
    BY DEF ServeRange, IndInv
  <2> QED BY <2>1 DEF IndInv, Req, WatchReq, NoReq
<1>2. req' \in RangeReq /\ req'.kind = req.kind /\ req'.rev = Len(log)
  BY <1>1 DEF ServeRange, RangeReq, Revision
<1>3. req'.kind \in {"range", "retry"}
  BY <1>2 DEF RangeReq
<1> QED BY <1>1, <1>2, <1>3, ViewStays DEF IndInv, ServeRange, Req, NoReq

(* Every key is told with the value it has at the revision of the answer. *)
LEMMA RangeDoneStep ==
    ASSUME IndInv, RangeDone
    PROVE  IndInv'
<1> DEFINE r == req.rev
           c == [w EXCEPT !.last = r, !.wait = FALSE]
<1>1. /\ req.kind = "range" /\ r # 0 /\ told' = TellAll(told, r) /\ seen' = r
      /\ Process(c, ends) /\ log' = log
  BY DEF RangeDone
<1>2. /\ log \in Seq(Event) /\ Len(log) >= 1 /\ Len(log) \in Nat /\ ends \in Nat
      /\ w \in Watcher /\ w.last = 0 /\ ~w.retry /\ r <= Len(log)
  BY <1>1 DEF IndInv, WatcherOK
<1>3. ~w.closed
  BY <1>1 DEF IndInv, NoReq
<1>4. r \in Nat
  <2>1. req \in RangeReq
    BY <1>1 DEF IndInv, Req, WatchReq, NoReq
  <2> QED BY <2>1 DEF RangeReq
<1>5. c \in Watcher /\ c.last = r /\ c.retry = w.retry /\ c.closed = w.closed
  BY <1>2, <1>4 DEF Watcher
<1>6. \A k \in Key : told[k] = 0
  BY <1>2, <1>3 DEF IndInv, WatcherOK
<1>7. ASSUME NEW k \in Key
      PROVE  told'[k] \in 0..r /\ told'[k] = ValueAt(k, r)
  <2>1. LastChange(k, r) \in 0..r
    BY <1>4, LastChangeType
  <2>2. ValueAt(k, r) \in 0..r
    BY <1>4, <2>1 DEF ValueAt, Put
  <2> HIDE DEF r
  <2> QED BY <1>1, <1>6, <2>2 DEF TellAll
<1>8. told' \in [Key -> Nat]
  <2>1. \A k \in Key : told'[k] \in Nat
    BY <1>4, <1>7
  <2> QED BY <1>1, <2>1 DEF TellAll
<1>9. WatcherOK(c, told', seen', Len(log))
  <2> HIDE DEF c, r
  <2> QED BY <1>1, <1>2, <1>4, <1>5, <1>7, <1>8 DEF WatcherOK
<1>10. ViewIsSnapshot'
  <2>1. ASSUME NEW k \in Key
        PROVE  View(k)' = ValueAt(k, seen)'
    <3>1. ValueAt(k, seen)' = Put(LastChange(k, r))
      BY <1>1 DEF ValueAt, LastChange, Put
    <3>2. View(k)' = Put(Put(LastChange(k, r)))
      BY <1>1, <1>7 DEF View, ValueAt, Put
    <3> QED BY <3>1, <3>2 DEF Put
  <2> QED BY <2>1, ConstantsAssumption DEF ViewIsSnapshot
<1> HIDE DEF c, r
<1> QED BY <1>1, <1>2, <1>3, <1>5, <1>9, <1>10, ProcessKeeps


(* libcurl_callback_on_range_completed in retry mode, or with an error. *)
LEMMA RetryStep ==
    ASSUME IndInv, RetryDone \/ RangeFails
    PROVE  IndInv'
<1>1. /\ req.kind \in {"range", "retry"} /\ ~w.closed /\ w \in Watcher /\ ends \in Nat
      /\ UNCHANGED <<log, told, seen>>
  BY DEF IndInv, WatcherOK, RetryDone, RangeFails, NoReq
<1>2. ~MayLose => ViewIsSnapshot'
  BY <1>1, ViewStays DEF IndInv
<1>3. CASE RetryDone
  <2> DEFINE c == [w EXCEPT !.retry = FALSE, !.wait = FALSE]
  <2>1. c \in Watcher /\ c.last = w.last /\ ~c.retry /\ c.closed = w.closed
    BY <1>1 DEF Watcher
  <2>2. Process(c, ends)
    BY <1>3 DEF RetryDone
  <2> HIDE DEF c
  <2>3. WatcherOK(c, told', seen', Len(log)) /\ (~MayLose => c.last = seen')
    BY <1>1, <2>1 DEF IndInv, WatcherOK
  <2> QED BY <1>1, <1>2, <2>1, <2>2, <2>3, ProcessKeeps DEF IndInv
<1>4. CASE RangeFails
  <2>0. w' = [w EXCEPT !.wait = TRUE] /\ req' = NoReq /\ ends' \in Nat
    BY <1>1, <1>4 DEF RangeFails
  <2>1. w' \in Watcher /\ w'.last = w.last /\ w'.retry = w.retry /\ w'.closed = w.closed
    BY <1>1, <2>0 DEF Watcher
  <2>2. WatcherOK(w', told', seen', Len(log')) /\ (~MayLose => w'.last = seen')
    BY <1>1, <2>1 DEF IndInv, WatcherOK
  <2> QED BY <1>1, <1>2, <2>0, <2>1, <2>2 DEF IndInv, Req, NoReq
<1> QED BY <1>3, <1>4

(* Two elements are added to a sequence. *)
LEMMA AddTwo ==
    ASSUME NEW S, NEW q \in Seq(S), NEW a \in S, NEW b \in S
    PROVE  LET v == q \o <<a, b>>
               n == Len(q)
           IN  /\ n \in Nat /\ v \in Seq(S) /\ Len(v) = n + 2
               /\ \A i \in 1..n : v[i] = q[i]
               /\ v[n + 1] = a /\ v[n + 2] = b
  OBVIOUS

\* the wire u after the chunk c is sent, and after a piece is received
Adds(u, wire, c) == u = wire \o <<[open |-> TRUE, chunk |-> c], [open |-> FALSE, chunk |-> c]>>
Drops(u, wire) == u = Tail(wire)

(* The server sends a chunk that continues the ones before it. *)
LEMMA WireGrows ==
    ASSUME NEW q \in WatchReq, NEW v \in WatchReq, NEW d, NEW s \in Nat, NEW r \in Nat,
           NEW g \in Position(q.wire), WireOK(q, d, s, r, g), q.st # "canceled",
           NEW c \in Chunk,
           Adds(v.wire, q.wire, c),
           c.upto # 0 => c.from = q.pos + 1 /\ c.from <= c.upto /\ v.pos = c.upto,
           c.upto = 0 => c.from = 0 /\ v.pos = q.pos,
           v.pos <= r, c.rev <= r, c.rev # 0 \/ c.upto # 0 => v.pos <= c.rev,
           c.cancel => c.rev = 0 /\ c.upto = 0 /\ v.st = "canceled",
           ~MayLose /\ v.st = "canceled" => v.pos = r
    PROVE  \E h \in Position(v.wire) : WireOK(v, d, s, r, h)
<1> DEFINE n == Len(q.wire)
           h == [i \in 0..n + 2 |-> IF i <= n THEN g[i] ELSE IF i = n + 1 THEN q.pos ELSE v.pos]
<1>1. /\ q.wire \in Seq(Piece) /\ n \in Nat /\ v.wire \in Seq(Piece) /\ Len(v.wire) = n + 2
      /\ \A i \in 1..n : v.wire[i] = q.wire[i]
      /\ v.wire[n + 1] = [open |-> TRUE, chunk |-> c]
      /\ v.wire[n + 2] = [open |-> FALSE, chunk |-> c]
      /\ q.pos \in Nat /\ v.pos \in Nat
      /\ c.from \in Nat /\ c.upto \in Nat /\ c.rev \in Nat
  <2>1. /\ q.wire \in Seq(Piece) /\ q.pos \in Nat /\ v.pos \in Nat
        /\ c.from \in Nat /\ c.upto \in Nat /\ c.rev \in Nat
    BY DEF WatchReq, Chunk
  <2>2. [open |-> TRUE, chunk |-> c] \in Piece /\ [open |-> FALSE, chunk |-> c] \in Piece
    BY DEF Piece
  <2> QED BY <2>1, <2>2, AddTwo DEF Adds
<1> HIDE DEF n
<1>2. /\ h \in Position(v.wire)
      /\ \A i \in 0..n : h[i] = g[i]
      /\ h[n + 1] = q.pos /\ h[n + 2] = v.pos /\ g[n] = q.pos
  <2>1. g \in [0..n -> Nat] /\ g[n] = q.pos
    BY DEF Position, WireOK, n
  <2> QED BY <1>1, <2>1 DEF Position
<1>3. q.pos <= v.pos
  BY <1>1
<1> HIDE DEF h
<1>4. \A i \in 0..n : g[i] \in Nat /\ g[i] <= q.pos
  BY <1>1 DEF Position, WireOK, n
<1>5. ASSUME NEW i \in 1..n + 2
      PROVE  i \in 1..n \/ i = n + 1 \/ i = n + 2
  BY <1>1
<1>6. Framed(v.wire, d)
  <2>1. Framed(q.wire, d)
    BY DEF WireOK
  <2>2. v.wire # <<>> /\ Closes(v.wire[Len(v.wire)])
    BY <1>1 DEF Closes
  <2>3. v.wire[1].open <=> d = 0
    <3>1. CASE n = 0
      <4>1. q.wire = <<>>
        BY <1>1, <3>1 DEF n
      <4> QED BY <1>1, <2>1, <3>1, <4>1 DEF Framed
    <3>2. CASE n # 0
      <4>1. q.wire # <<>> /\ v.wire[1] = q.wire[1]
        BY <1>1, <3>2 DEF n
      <4> QED BY <2>1, <4>1 DEF Framed
    <3> QED BY <3>1, <3>2
  <2>4. ASSUME NEW i \in 2..Len(v.wire)
        PROVE  v.wire[i].open <=> Closes(v.wire[i - 1])
    <3>0. i \in 2..n \/ i = n + 1 \/ i = n + 2
      BY <1>1
    <3>1. CASE i \in 2..n
      <4>1. v.wire[i] = q.wire[i] /\ v.wire[i - 1] = q.wire[i - 1]
        BY <1>1, <3>1
      <4> QED BY <2>1, <3>1, <4>1 DEF Framed, n
    <3>2. CASE i = n + 1
      <4>1. n # 0 /\ v.wire[n] = q.wire[n] /\ Closes(q.wire[n]) /\ i - 1 = n
        <5>1. n # 0 /\ v.wire[n] = q.wire[n] /\ i - 1 = n
          BY <1>1, <3>2
        <5>2. q.wire # <<>>
          BY <5>1 DEF n
        <5> QED BY <2>1, <5>1, <5>2 DEF Framed, n
      <4>2. v.wire[i].open
        BY <1>1, <3>2
      <4> QED BY <4>1, <4>2
    <3>3. CASE i = n + 2
      <4>1. ~v.wire[i].open /\ v.wire[i - 1].open
        BY <1>1, <3>3
      <4> QED BY <4>1 DEF Closes
    <3> QED BY <3>0, <3>1, <3>2, <3>3
  <2> QED BY <2>2, <2>3, <2>4 DEF Framed
<1>7. Chained(v.wire, h)
  <2> SUFFICES ASSUME NEW i \in 1..n + 2
               PROVE  LET p == v.wire[i]
                          x == p.chunk
                      IN  /\ Carries(p) => x.from = h[i - 1] + 1 /\ x.from <= x.upto /\ h[i] = x.upto
                          /\ ~Carries(p) => h[i] = h[i - 1]
                          /\ Closes(p) /\ x.upto = 0 => x.from = 0
                          /\ Closes(p) /\ (x.rev # 0 \/ x.upto # 0) => h[i] <= x.rev
                          /\ Closes(p) /\ x.cancel => i = n + 2 /\ x.rev = 0 /\ x.upto = 0
    BY <1>1 DEF Chained
  <2>1. CASE i \in 1..n
    <3>1. ~(Closes(q.wire[i]) /\ q.wire[i].chunk.cancel)
      BY <2>1 DEF WireOK, n
    <3>2. Chained(q.wire, g) /\ i - 1 \in 0..n /\ i \in 0..n
      BY <1>1, <2>1 DEF WireOK
    <3>3. v.wire[i] = q.wire[i] /\ h[i] = g[i] /\ h[i - 1] = g[i - 1]
      BY <1>1, <1>2, <2>1, <3>2
    <3> QED BY <2>1, <3>1, <3>2, <3>3 DEF Chained, n
  <2>2. CASE i = n + 1
    <3>1. i - 1 = n /\ v.wire[i].open /\ h[i] = q.pos /\ h[n] = q.pos
      BY <1>1, <1>2, <2>2
    <3> QED BY <3>1 DEF Carries, Closes
  <2>3. CASE i = n + 2
    <3>1. i - 1 = n + 1 /\ v.wire[i].chunk = c /\ ~v.wire[i].open
      BY <1>1, <2>3, SMTT(30)
    <3> QED BY <1>1, <1>2, <2>3, <3>1 DEF Carries, Closes
  <2> QED BY <1>5, <2>1, <2>2, <2>3
<1>8. s <= h[0] /\ (~MayLose => h[0] = s)
  BY <1>1, <1>2 DEF WireOK
<1>9. \A i \in 0..n + 2 : h[i] <= v.pos
  <2> SUFFICES ASSUME NEW i \in 0..n + 2 PROVE h[i] <= v.pos
    OBVIOUS
  <2>1. CASE i \in 0..n
    BY <1>1, <1>2, <1>3, <1>4, <2>1
  <2>2. CASE i = n + 1 \/ i = n + 2
    BY <1>1, <1>2, <1>3, <2>2
  <2> QED BY <1>1, <2>1, <2>2, SMTT(30)
<1>10. ASSUME NEW i \in 1..n + 2
       PROVE  /\ v.wire[i].chunk.rev <= r
              /\ ~MayLose /\ v.st = "canceled" => v.wire[i].chunk.rev <= v.pos
              /\ Closes(v.wire[i]) /\ v.wire[i].chunk.cancel => v.st = "canceled"
  <2>1. CASE i \in 1..n
    BY <1>1, <2>1 DEF WireOK, n
  <2>2. CASE i = n + 1 \/ i = n + 2
    <3>1. v.wire[i].chunk = c
      BY <1>1, <2>2
    <3> QED BY <1>1, <3>1
  <2> QED BY <1>5, <2>1, <2>2
<1>11. WireOK(v, d, s, r, h)
  BY <1>1, <1>2, <1>6, <1>7, <1>8, <1>9, <1>10 DEF WireOK
<1> QED BY <1>2, <1>11

(* The watcher receives a piece. *)
LEMMA WireShrinks ==
    ASSUME NEW q \in WatchReq, NEW v \in WatchReq, NEW d, NEW s \in Nat, NEW r \in Nat,
           NEW g \in Position(q.wire), WireOK(q, d, s, r, g), q.wire # <<>>,
           Drops(v.wire, q.wire), v.pos = q.pos, v.st = q.st,
           NEW e, e = IF q.wire[1].open THEN 1 ELSE 0,
           NEW t, t = IF Carries(q.wire[1]) THEN q.wire[1].chunk.upto ELSE s
    PROVE  \E h \in Position(v.wire) : WireOK(v, e, t, r, h)
<1> DEFINE n == Len(q.wire)
           h == [i \in 0..n - 1 |-> g[i + 1]]
<1>1. /\ q.wire \in Seq(Piece) /\ n \in Nat \ {0} /\ v.wire \in Seq(Piece) /\ Len(v.wire) = n - 1
      /\ \A i \in 1..n - 1 : v.wire[i] = q.wire[i + 1]
      /\ q.pos \in Nat
  BY DEF WatchReq, Drops
<1>2. h \in Position(v.wire) /\ \A i \in 0..n - 1 : h[i] = g[i + 1]
  BY <1>1 DEF Position
<1> HIDE DEF h
<1>3. Framed(q.wire, d) /\ Chained(q.wire, g) /\ g[0] \in Nat /\ g[1] \in Nat
  <2>1. 0 \in 0..n /\ 1 \in 0..n
    BY <1>1
  <2>2. g[0] \in Nat /\ g[1] \in Nat
    BY <2>1 DEF Position
  <2> QED BY <2>2 DEF WireOK
<1>4. Framed(v.wire, e)
  <2>1. v.wire = <<>> => e = 0
    <3>1. v.wire = <<>> => n = 1
      <4>1. v.wire = <<>> => Len(v.wire) = 0
        OBVIOUS
      <4> HIDE DEF n
      <4> QED BY <1>1, <4>1
    <3> QED BY <1>3, <3>1 DEF Framed, Closes
  <2>2. v.wire # <<>> => (v.wire[1].open <=> e = 0) /\ Closes(v.wire[Len(v.wire)])
    <3> SUFFICES ASSUME v.wire # <<>>
                 PROVE  (v.wire[1].open <=> e = 0) /\ Closes(v.wire[Len(v.wire)])
      OBVIOUS
    <3>1. n - 1 \in 1..n - 1 /\ 1 \in 1..n - 1 /\ 2 \in 2..n
      BY <1>1
    <3>2. v.wire[1] = q.wire[2] /\ v.wire[Len(v.wire)] = q.wire[n]
      BY <1>1, <3>1
    <3>3. (q.wire[2].open <=> Closes(q.wire[1])) /\ Closes(q.wire[n])
      BY <1>3, <3>1 DEF Framed
    <3> QED BY <3>2, <3>3 DEF Closes
  <2>3. ASSUME NEW i \in 2..Len(v.wire)
        PROVE  v.wire[i].open <=> Closes(v.wire[i - 1])
    <3>1. i + 1 \in 2..n /\ i \in 1..n - 1 /\ i - 1 \in 1..n - 1 /\ (i - 1) + 1 = i /\ (i + 1) - 1 = i
      BY <1>1
    <3>2. v.wire[i] = q.wire[i + 1] /\ v.wire[i - 1] = q.wire[i]
      BY <1>1, <3>1
    <3> QED BY <1>3, <3>1, <3>2 DEF Framed
  <2> QED BY <2>1, <2>2, <2>3 DEF Framed
<1>5. Chained(v.wire, h)
  <2> SUFFICES ASSUME NEW i \in 1..n - 1
               PROVE  LET p == v.wire[i]
                          x == p.chunk
                      IN  /\ Carries(p) => x.from = h[i - 1] + 1 /\ x.from <= x.upto /\ h[i] = x.upto
                          /\ ~Carries(p) => h[i] = h[i - 1]
                          /\ Closes(p) /\ x.upto = 0 => x.from = 0
                          /\ Closes(p) /\ (x.rev # 0 \/ x.upto # 0) => h[i] <= x.rev
                          /\ Closes(p) /\ x.cancel => i = n - 1 /\ x.rev = 0 /\ x.upto = 0
    BY <1>1 DEF Chained
  <2>1. i + 1 \in 1..n /\ i - 1 \in 0..n - 1 /\ i \in 0..n - 1 /\ (i + 1) - 1 = i /\ (i - 1) + 1 = i
    BY <1>1
  <2>2. v.wire[i] = q.wire[i + 1] /\ h[i] = g[i + 1] /\ h[i - 1] = g[(i + 1) - 1]
    BY <1>1, <1>2, <2>1
  <2>3. i + 1 = n => i = n - 1
    BY <1>1
  <2> QED BY <1>3, <2>1, <2>2, <2>3 DEF Chained
<1>6. h[0] = g[1] /\ h[Len(v.wire)] = g[n]
  BY <1>1, <1>2
<1>7. t <= h[0] /\ (~MayLose => h[0] = t)
  <2>1. 1 \in 1..n /\ 1 - 1 = 0
    BY <1>1
  <2>2. Carries(q.wire[1]) => g[1] = q.wire[1].chunk.upto
    BY <1>3, <2>1 DEF Chained
  <2>3. ~Carries(q.wire[1]) => g[1] = g[0]
    BY <1>3, <2>1 DEF Chained
  <2>4. s <= g[0] /\ (~MayLose => g[0] = s)
    BY DEF WireOK
  <2> QED BY <1>3, <1>6, <2>2, <2>3, <2>4
<1>8. \A i \in 0..n - 1 : h[i] <= v.pos
  BY <1>1, <1>2 DEF WireOK
<1>9. ASSUME NEW i \in 1..n - 1
      PROVE  /\ v.wire[i].chunk.rev <= r
             /\ ~MayLose /\ v.st = "canceled" => v.wire[i].chunk.rev <= v.pos
             /\ Closes(v.wire[i]) /\ v.wire[i].chunk.cancel => v.st = "canceled"
  BY <1>1 DEF WireOK
<1>10. g[n] = v.pos /\ v.pos <= r
  BY DEF WireOK
<1>11. WireOK(v, e, t, r, h)
  BY <1>1, <1>4, <1>5, <1>6, <1>7, <1>8, <1>9, <1>10 DEF WireOK
<1> QED BY <1>2, <1>11


(* The server sends a chunk, in a step that changes only the request. *)
LEMMA SendStep ==
    ASSUME IndInv, UNCHANGED <<log, w, told, seen>>, ends' \in Nat,
           req.kind = "watch", req.st # "canceled",
           NEW c \in Chunk, req' \in WatchReq, Adds(req'.wire, req.wire, c),
           c.upto # 0 => c.from = req.pos + 1 /\ c.from <= c.upto /\ req'.pos = c.upto,
           c.upto = 0 => c.from = 0 /\ req'.pos = req.pos,
           req'.pos <= Len(log), c.rev <= Len(log),
           c.rev # 0 \/ c.upto # 0 => req'.pos <= c.rev,
           c.cancel => c.rev = 0 /\ c.upto = 0 /\ req'.st = "canceled",
           ~MayLose /\ req'.st = "canceled" => req'.pos = Len(log)
    PROVE  IndInv'
<1>1. req \in WatchReq /\ log \in Seq(Event) /\ Len(log) \in Nat /\ seen \in Nat
  <2>1. req \in WatchReq
    BY DEF IndInv, Req, RangeReq, NoReq
  <2> QED BY <2>1 DEF IndInv, WatcherOK
<1>2. PICK g \in Position(req.wire) : WireOK(req, w.depth, seen, Len(log), g)
  BY DEF IndInv
<1>3. \E h \in Position(req'.wire) : WireOK(req', w.depth, seen, Len(log), h)
  BY <1>1, <1>2, WireGrows
<1>4. req'.kind = "watch"
  BY DEF WatchReq
<1>5. ~MayLose /\ req'.st = "canceled" => w.last <= req'.pos
  BY DEF IndInv, WatcherOK
<1>6. ~w.closed
  BY DEF IndInv, NoReq
<1> QED BY <1>1, <1>3, <1>4, <1>5, <1>6, ViewStays DEF IndInv, Req

(* The server confirms the watch, sends changes, notifies of progress or cancels. *)
LEMMA ServeStep ==
    ASSUME IndInv,
           \/ ServeCreated \/ ServeProgress \/ ServeCancel
           \/ \E n, r \in 1..MaxRev : n <= Revision /\ ServeEvents(n, r)
    PROVE  IndInv'
<1>1. req \in WatchReq /\ req.kind = "watch" /\ req.st # "canceled"
  <2>1. req.kind = "watch" /\ req.st # "canceled"
    BY DEF ServeCreated, ServeProgress, ServeCancel, ServeEvents
  <2> QED BY <2>1 DEF IndInv, Req, RangeReq, NoReq
<1>2. /\ log \in Seq(Event) /\ Len(log) \in Nat /\ req.pos \in Nat /\ req.wire \in Seq(Piece)
      /\ req.notes \in Nat /\ ends \in Nat
  BY <1>1 DEF IndInv, WatchReq
<1>3. req.pos <= Len(log)
  BY <1>1 DEF IndInv, WireOK
<1>4. ASSUME NEW c \in Chunk
      PROVE  req.wire \o <<[open |-> TRUE, chunk |-> c], [open |-> FALSE, chunk |-> c]>>
               \in Seq(Piece)
  BY <1>2 DEF Piece
<1>5. CASE ServeCreated \/ ServeProgress
  <2> DEFINE c == [rev |-> Len(log), from |-> 0, upto |-> 0, cancel |-> FALSE]
  <2>1. /\ c \in Chunk /\ c.rev = Len(log) /\ c.from = 0 /\ c.upto = 0 /\ c.cancel = FALSE
        /\ Pieces(Revision, 0, 0, FALSE) = <<[open |-> TRUE, chunk |-> c],
                                             [open |-> FALSE, chunk |-> c]>>
    BY <1>2 DEF Revision, Chunk, Pieces
  <2> DEFINE u == req.wire \o <<[open |-> TRUE, chunk |-> c], [open |-> FALSE, chunk |-> c]>>
  <2>2. u \in Seq(Piece) /\ Adds(u, req.wire, c)
    BY <1>4, <2>1 DEF Adds
  <2>3. \/ req' = [req EXCEPT !.st = "open", !.wire = u]
        \/ req' = [req EXCEPT !.notes = @ + 1, !.wire = u]
    BY <1>5, <2>1 DEF ServeCreated, ServeProgress
  <2> HIDE DEF u, c
  <2>4. /\ req' \in WatchReq /\ req'.wire = u /\ req'.pos = req.pos
        /\ req'.st \in {"open", req.st}
    <3>1. CASE req' = [req EXCEPT !.st = "open", !.wire = u]
      BY <1>1, <1>2, <2>2, <3>1 DEF WatchReq
    <3>2. CASE req' = [req EXCEPT !.notes = @ + 1, !.wire = u]
      <4> DEFINE m == req.notes + 1
      <4>1. m \in Nat /\ req' = [req EXCEPT !.notes = m, !.wire = u]
        BY <1>2, <3>2
      <4> HIDE DEF m
      <4> QED BY <1>1, <2>2, <4>1 DEF WatchReq
    <3> QED BY <2>3, <3>1, <3>2
  <2>5. UNCHANGED <<log, w, told, seen>> /\ ends' \in Nat
    BY <1>2, <1>5 DEF ServeCreated, ServeProgress
  <2>6. Adds(req'.wire, req.wire, c) /\ req'.st # "canceled"
    BY <1>1, <2>2, <2>4
  <2>7. /\ c.upto = 0 /\ c.from = 0 /\ c.rev <= Len(log) /\ req'.pos <= Len(log)
        /\ req'.pos <= c.rev /\ ~c.cancel
    BY <1>2, <1>3, <2>1, <2>4
  <2> QED BY <1>1, <2>1, <2>4, <2>5, <2>6, <2>7, SendStep
<1>6. CASE ServeCancel
  <2> DEFINE c == [rev |-> 0, from |-> 0, upto |-> 0, cancel |-> TRUE]
  <2>1. /\ c \in Chunk /\ c.rev = 0 /\ c.from = 0 /\ c.upto = 0
        /\ Pieces(0, 0, 0, TRUE) = <<[open |-> TRUE, chunk |-> c], [open |-> FALSE, chunk |-> c]>>
    BY DEF Chunk, Pieces
  <2> DEFINE u == req.wire \o <<[open |-> TRUE, chunk |-> c], [open |-> FALSE, chunk |-> c]>>
  <2>2. u \in Seq(Piece) /\ Adds(u, req.wire, c)
    BY <1>4, <2>1 DEF Adds
  <2>3. req' = [req EXCEPT !.st = "canceled", !.wire = u]
    BY <1>6, <2>1 DEF ServeCancel
  <2> HIDE DEF u, c
  <2>4. req' \in WatchReq /\ req'.wire = u /\ req'.pos = req.pos /\ req'.st = "canceled"
    BY <1>1, <1>2, <2>2, <2>3 DEF WatchReq
  <2>5. UNCHANGED <<log, w, told, seen>> /\ ends' \in Nat /\ (~MayLose => req.pos = Len(log))
    BY <1>2, <1>6 DEF ServeCancel, Revision
  <2>6. Adds(req'.wire, req.wire, c) /\ c.rev <= Len(log)
    BY <1>2, <2>1, <2>2, <2>4
  <2> QED BY <1>1, <1>3, <2>1, <2>4, <2>5, <2>6, SendStep
<1>7. ASSUME NEW n \in 1..MaxRev, NEW r \in 1..MaxRev, n <= Revision, ServeEvents(n, r)
      PROVE  IndInv'
  <2> DEFINE f == req.pos + 1
             c == [rev |-> r, from |-> f, upto |-> n, cancel |-> FALSE]
  <2>1. n \in Nat /\ r \in Nat /\ n # 0 /\ r # 0 /\ f \in Nat
    BY <1>2, ConstantsAssumption
  <2>2. /\ c \in Chunk /\ c.rev = r /\ c.from = f /\ c.upto = n /\ c.cancel = FALSE
        /\ Pieces(r, f, n, FALSE) = <<[open |-> TRUE, chunk |-> c],
                                      [open |-> FALSE, chunk |-> c]>>
    BY <2>1 DEF Chunk, Pieces
  <2> DEFINE u == req.wire \o <<[open |-> TRUE, chunk |-> c], [open |-> FALSE, chunk |-> c]>>
  <2>3. u \in Seq(Piece) /\ Adds(u, req.wire, c)
    BY <1>4, <2>2 DEF Adds
  <2>4. req' = [req EXCEPT !.pos = n, !.wire = u]
    BY <1>7, <2>2 DEF ServeEvents
  <2> HIDE DEF u, c
  <2>5. req' \in WatchReq /\ req'.wire = u /\ req'.pos = n /\ req'.st = req.st
    BY <1>1, <1>2, <2>1, <2>3, <2>4 DEF WatchReq
  <2>6. UNCHANGED <<log, w, told, seen>> /\ ends' \in Nat
    BY <1>2, <1>7 DEF ServeEvents
  <2>7. f <= n /\ n <= Len(log) /\ r <= Len(log) /\ n <= r
    <3>1. n > req.pos /\ r \in {n, Len(log)} /\ n <= Len(log)
      BY <1>7 DEF ServeEvents, Revision
    <3> QED BY <1>2, <2>1, <3>1
  <2>8. Adds(req'.wire, req.wire, c)
    BY <2>3, <2>5
  <2> QED BY <1>1, <2>1, <2>2, <2>5, <2>6, <2>7, <2>8, SendStep
<1> QED BY <1>5, <1>6, <1>7


(* The changes of a chunk are told: the last one of a key that ends with an id is  *)
(* the one that the callback knows, whether it is a put or a deletion.            *)
LEMMA TellFromToView ==
    ASSUME NEW s \in Nat, NEW j \in Nat, s <= j, NEW t \in [Key -> Nat],
           NEW k \in Numeric, Put(t[k]) = ValueAt(k, s)
    PROVE  Put(TellFromTo(t, s + 1, j)[k]) = ValueAt(k, j)
<1> DEFINE S == {n \in s + 1 .. j : s + 1 # 0 /\ log[n].key = k /\ Tells(n)}
<1>1. k \in Key
  BY ConstantsAssumption
<1>2. TellFromTo(t, s + 1, j)[k] = IF S = {} THEN t[k] ELSE Max(S)
  BY <1>1 DEF TellFromTo
<1>3. \A n \in s + 1 .. j : log[n].key = k => n \in S
  BY DEF Tells
<1>4. S \subseteq 1..j /\ \A n \in S : log[n].key = k
  OBVIOUS
<1>5. \A n \in 1..j : n \in s + 1 .. j \/ n <= s
  OBVIOUS
<1>6. \A n \in S : s < n
  OBVIOUS
<1> HIDE DEF S
<1>7. CASE S = {}
  <2>1. \A n \in s + 1 .. j : log[n].key # k
    BY <1>3, <1>7
  <2>2. LastChange(k, j) = LastChange(k, s)
    BY <2>1, LastChangeSame
  <2> QED BY <1>2, <1>7, <2>2 DEF ValueAt
<1>8. CASE S # {}
  <2> DEFINE m == Max(S)
  <2>1. m \in S /\ \A y \in S : y <= m
    BY <1>4, <1>8, MaxIs
  <2> HIDE DEF m
  <2>2. m \in 1..j /\ log[m].key = k /\ s < m
    BY <1>4, <1>6, <2>1
  <2>3. \A n \in 1..j : log[n].key = k => n <= m
    BY <1>3, <1>5, <2>1, <2>2
  <2>4. LastChange(k, j) = m
    BY <2>2, <2>3, LastChangeUnique
  <2> QED BY <1>2, <1>8, <2>4 DEF ValueAt, m
<1> QED BY <1>7, <1>8

(* The range of what is told. *)
LEMMA TellFromToType ==
    ASSUME NEW i \in Nat, NEW j \in Nat, NEW r \in Nat, j <= r, NEW t \in [Key -> Nat],
           \A k \in Key : t[k] <= r
    PROVE  LET u == TellFromTo(t, i, j)
           IN  u \in [Key -> Nat] /\ \A k \in Key : u[k] <= r
<1> DEFINE u == TellFromTo(t, i, j)
           S(k) == {n \in i..j : i # 0 /\ log[n].key = k /\ Tells(n)}
<1>1. u = [k \in Key |-> IF S(k) = {} THEN t[k] ELSE Max(S(k))]
  BY DEF TellFromTo
<1>2. ASSUME NEW k \in Key PROVE u[k] \in Nat /\ u[k] <= r
  <2>1. S(k) \subseteq 1..j
    OBVIOUS
  <2>2. u[k] = IF S(k) = {} THEN t[k] ELSE Max(S(k))
    BY <1>1
  <2> HIDE DEF S, u
  <2>3. S(k) # {} => Max(S(k)) \in 1..j
    BY <2>1, MaxIs
  <2> QED BY <2>2, <2>3
<1> HIDE DEF S
<1> QED BY <1>1, <1>2

(* libcurl_callback_on_watch_write *)
LEMMA WriteStep ==
    ASSUME IndInv, Write
    PROVE  IndInv'
<1> DEFINE p == req.wire[1]
           c == p.chunk
           u == [req EXCEPT !.wire = Tail(@)]
           e == IF p.open THEN 1 ELSE 0
           s == IF Carries(p) THEN c.upto ELSE seen
           r == Len(log)
<1>1. req.kind = "watch" /\ req.wire # <<>> /\ log' = log /\ ends' = ends
  BY DEF Write
<1>2. req \in WatchReq /\ req.wire \in Seq(Piece) /\ p \in Piece /\ Head(req.wire) = p
  <2>1. req \in WatchReq
    BY <1>1 DEF IndInv, Req, RangeReq, NoReq
  <2>2. req.wire \in Seq(Piece)
    BY <2>1 DEF WatchReq
  <2>3. Head(req.wire) = p /\ p \in Piece
    BY <1>1, <2>2
  <2> QED BY <2>1, <2>2, <2>3
<1>3. /\ p.open \in BOOLEAN /\ c.rev \in Nat /\ c.from \in Nat /\ c.upto \in Nat
      /\ c.cancel \in BOOLEAN
  BY <1>2 DEF Piece, Chunk
<1>4. /\ log \in Seq(Event) /\ r \in Nat /\ r >= 1 /\ WatcherOK(w, told, seen, r)
      /\ w \in Watcher /\ seen \in Nat /\ told \in [Key -> Nat] /\ w.last \in Nat /\ ends \in Nat
      /\ w.last # 0
  BY <1>1 DEF IndInv, WatcherOK, Watcher
<1>5. ~w.closed /\ seen <= w.last
  BY <1>1 DEF IndInv, NoReq, WatcherOK
<1>6. PICK g \in Position(req.wire) : WireOK(req, w.depth, seen, r, g)
  BY <1>1 DEF IndInv
<1>7. u \in WatchReq /\ Drops(u.wire, req.wire) /\ u.pos = req.pos /\ u.st = req.st
      /\ u.kind = "watch"
  <2>1. Tail(req.wire) \in Seq(Piece)
    BY <1>1, <1>2
  <2> DEFINE x == Tail(req.wire)
  <2> HIDE DEF x
  <2>2. u = [req EXCEPT !.wire = x] /\ x \in Seq(Piece)
    BY <2>1 DEF x
  <2>3. u \in WatchReq /\ u.wire = x /\ u.pos = req.pos /\ u.st = req.st /\ u.kind = "watch"
    BY <1>2, <2>2 DEF WatchReq
  <2> QED BY <2>3 DEF Drops, x
<1> HIDE DEF u
<1>8. \E h \in Position(u.wire) : WireOK(u, e, s, r, h)
  BY <1>1, <1>2, <1>4, <1>6, <1>7, WireShrinks
<1>9. 1 \in 1..Len(req.wire) /\ 0 \in 0..Len(req.wire) /\ 1 - 1 = 0 /\ 1 \in 0..Len(req.wire)
  <2>1. Len(req.wire) \in Nat /\ Len(req.wire) # 0
    BY <1>1, <1>2
  <2> QED BY <2>1
<1>10. g[0] \in Nat /\ g[1] \in Nat /\ g[1] <= req.pos /\ req.pos <= r /\ req.pos \in Nat
  <2>1. g[0] \in Nat /\ g[1] \in Nat
    BY <1>9 DEF Position
  <2>2. req.pos \in Nat
    BY <1>2 DEF WatchReq
  <2> QED BY <1>6, <1>9, <2>1, <2>2 DEF WireOK
<1>11. /\ Carries(p) => c.from = g[0] + 1 /\ c.from <= c.upto /\ g[1] = c.upto
       /\ ~Carries(p) => g[1] = g[0]
       /\ ~p.open /\ c.upto = 0 => c.from = 0
       /\ ~p.open /\ (c.rev # 0 \/ c.upto # 0) => g[1] <= c.rev
       /\ ~p.open /\ c.cancel => 1 = Len(req.wire) /\ c.rev = 0 /\ c.upto = 0
  BY <1>6, <1>9 DEF WireOK, Chained, Closes
<1>12. /\ seen <= g[0] /\ (~MayLose => g[0] = seen) /\ c.rev <= r
       /\ ~MayLose /\ req.st = "canceled" => c.rev <= req.pos
       /\ ~p.open /\ c.cancel => req.st = "canceled"
       /\ p.open <=> w.depth = 0
       /\ g[Len(req.wire)] = req.pos
  BY <1>1, <1>6, <1>9 DEF WireOK, Framed, Closes
<1>13. CASE p.open
  <2>1. w' = [w EXCEPT !.depth = 1] /\ told' = told /\ seen' = seen /\ req' = u
    BY <1>2, <1>12, <1>13 DEF Write, u
  <2>2. w' \in Watcher /\ w'.last = w.last /\ w'.retry = w.retry /\ w'.closed = w.closed
        /\ w'.depth = e
    BY <1>4, <1>13, <2>1 DEF Watcher
  <2>3. s = seen
    BY <1>13 DEF Carries
  <2>4. WatcherOK(w', told', seen', r)
    BY <1>4, <2>1, <2>2 DEF WatcherOK
  <2>5. ~MayLose => ViewIsSnapshot'
    BY <1>1, <2>1, ViewStays DEF IndInv
  <2>6. ~MayLose /\ u.st = "canceled" => w.last <= u.pos
    BY <1>1, <1>7 DEF IndInv
  <2> HIDE DEF e, s
  <2> QED BY <1>1, <1>4, <1>5, <1>7, <1>8, <2>1, <2>2, <2>3, <2>4, <2>5, <2>6 DEF IndInv, Req
<1>14. CASE ~p.open
  <2>1. w.depth = 1
    BY <1>4, <1>12, <1>14 DEF Watcher
  <2>2. /\ w' = [w EXCEPT !.depth = 0, !.last = SaveRevision(w, c.rev)]
        /\ told' = TellFromTo(told, c.from, c.upto)
        /\ seen' = IF c.upto # 0 THEN c.upto ELSE seen
        /\ req' = IF c.cancel THEN [kind |-> "ended"] ELSE u
    BY <1>2, <1>14, <2>1 DEF Write, u
  <2>3. seen' = s /\ seen' = IF c.upto # 0 THEN c.upto ELSE seen
    BY <1>14, <2>2 DEF Carries
  <2> DEFINE l == SaveRevision(w, c.rev)
  <2>4. l \in Nat /\ l <= r /\ l # 0 /\ (c.rev # 0 => l = c.rev) /\ (c.rev = 0 => l = w.last)
    BY <1>3, <1>4, <1>12 DEF SaveRevision, WatcherOK
  <2> HIDE DEF l
  <2>5. w' \in Watcher /\ w'.last = l /\ w'.retry = w.retry /\ w'.closed = w.closed
        /\ w'.depth = e
    BY <1>4, <1>14, <2>2, <2>4 DEF Watcher, l
  <2>6. seen' \in Nat /\ seen' <= l /\ seen' <= r
    <3>1. CASE c.upto # 0
      BY <1>3, <1>10, <1>11, <1>14, <2>3, <2>4, <3>1 DEF Carries
    <3>2. CASE c.upto = 0
      BY <1>3, <1>4, <1>5, <1>10, <1>11, <1>12, <1>14, <2>3, <2>4, <3>2 DEF Carries
    <3> QED BY <3>1, <3>2
  <2>7. told' \in [Key -> Nat] /\ \A k \in Key : told'[k] <= r
    <3>1. c.upto <= r
      BY <1>3, <1>4, <1>10, <1>11, <1>14 DEF Carries
    <3>2. \A k \in Key : told[k] <= r
      BY <1>4 DEF WatcherOK
    <3> QED BY <1>3, <1>4, <2>2, <3>1, <3>2, TellFromToType
  <2>8. WatcherOK(w', told', seen', r)
    BY <1>4, <1>5, <2>4, <2>5, <2>6, <2>7 DEF WatcherOK
  <2>9. ASSUME ~MayLose PROVE ViewIsSnapshot'
    <3>1. ASSUME NEW k \in Numeric
          PROVE  Put(told'[k]) = ValueAt(k, seen')
      <4>1. Put(told[k]) = ValueAt(k, seen)
        BY <2>9 DEF IndInv, ViewIsSnapshot, View
      <4>2. CASE c.upto # 0
        <5>1. c.from = seen + 1 /\ seen <= c.upto /\ seen' = c.upto
          BY <1>3, <1>4, <1>11, <1>12, <1>14, <2>3, <2>9, <4>2 DEF Carries
        <5> QED BY <1>3, <1>4, <2>2, <4>1, <5>1, TellFromToView, SMTT(30)
      <4>3. CASE c.upto = 0
        <5>1. seen' = seen /\ told' = TellFromTo(told, 0, 0)
          BY <1>11, <1>14, <2>2, <2>3, <4>3
        <5>2. k \in Key
          BY ConstantsAssumption
        <5>3. TellFromTo(told, 0, 0)[k] = told[k]
          BY <5>2 DEF TellFromTo
        <5> QED BY <4>1, <5>1, <5>3
      <4> QED BY <4>2, <4>3
    <3> QED BY <1>1, <3>1 DEF ViewIsSnapshot, View, ValueAt, Put, LastChange
  <2> HIDE DEF e, s
  <2>10. CASE ~c.cancel
    <3>1. req' = u
      BY <2>2, <2>10
    <3>2. ~MayLose /\ u.st = "canceled" => l <= u.pos
      BY <1>1, <1>3, <1>7, <1>12, <2>4 DEF IndInv
    <3> QED BY <1>1, <1>4, <1>5, <1>7, <1>8, <2>3, <2>4, <2>5, <2>8, <2>9, <3>1, <3>2
            DEF IndInv, Req
  <2>11. CASE c.cancel
    <3>1. req' = [kind |-> "ended"] /\ req'.kind = "ended"
      BY <2>2, <2>11
    <3>2. c.rev = 0 /\ c.upto = 0 /\ g[1] = req.pos /\ g[1] = g[0] /\ req.st = "canceled"
      BY <1>11, <1>12, <1>14, <2>11 DEF Carries
    <3>3. ~MayLose => w'.last = seen'
      <4>1. ~MayLose => w.last <= req.pos
        BY <1>1, <3>2 DEF IndInv
      <4> QED BY <1>4, <1>5, <1>12, <2>3, <2>4, <2>5, <3>2, <4>1
    <3> QED BY <1>1, <1>4, <1>5, <2>4, <2>5, <2>8, <2>9, <3>1, <3>3 DEF IndInv, Req
  <2> QED BY <2>10, <2>11
<1> QED BY <1>13, <1>14


(* libcurl_callback_on_watch_completed *)
LEMMA WatchDoneStep ==
    ASSUME IndInv, WatchDone
    PROVE  IndInv'
<1>1. PICK late \in BOOLEAN :
        LET c == [w EXCEPT !.retry = TRUE, !.wait = late]
        IN  \/ /\ req.kind = "ended"
               /\ Process(c, ends)
            \/ /\ req.kind = "watch" /\ ends < MaxEnds
               /\ MayLose \/ w.last <= seen
               /\ Process(c, ends + 1)
  BY DEF WatchDone
<1> DEFINE c == [w EXCEPT !.retry = TRUE, !.wait = late]
<1>2. /\ log \in Seq(Event) /\ Len(log) >= 1 /\ UNCHANGED <<log, told, seen>> /\ w \in Watcher
      /\ ends \in Nat /\ w.last # 0 /\ w.last \in Nat /\ seen \in Nat
  BY <1>1 DEF IndInv, WatchDone, WatcherOK, Watcher
<1>3. ~w.closed /\ seen <= w.last
  BY <1>1 DEF IndInv, NoReq, WatcherOK
<1>4. c \in Watcher /\ c.last = w.last /\ c.closed = w.closed
  BY <1>2 DEF Watcher
<1>5. Process(c, ends) \/ Process(c, ends + 1)
  BY <1>1
<1>6. ~MayLose => w.last = seen
  BY <1>1, <1>2, <1>3 DEF IndInv
<1> HIDE DEF c
<1>7. WatcherOK(c, told', seen', Len(log)) /\ (~MayLose => c.last = seen')
  BY <1>2, <1>3, <1>4, <1>6 DEF IndInv, WatcherOK
<1>8. ~MayLose => ViewIsSnapshot'
  BY <1>2, ViewStays DEF IndInv
<1>9. ends + 1 \in Nat
  BY <1>2
<1> QED BY <1>2, <1>3, <1>4, <1>5, <1>7, <1>8, <1>9, ProcessKeeps

(* etcd_watcher::close *)
LEMMA CloseStep ==
    ASSUME IndInv, Close
    PROVE  IndInv'
<1>1. w \in Watcher
  BY DEF IndInv, WatcherOK
<1>2. w' \in Watcher /\ w'.last = 0 /\ w'.closed
  BY <1>1 DEF Close, Watcher
<1>3. WatcherOK(w', told', seen', Len(log'))
  BY <1>2 DEF IndInv, WatcherOK, Close
<1> QED BY <1>2, <1>3, ViewStays DEF IndInv, Close, Req, NoReq

(* Other processes change a key: what was received is as it was. *)
LEMMA ChangeStep ==
    ASSUME IndInv, NEW k \in Key, NEW op \in {"put", "delete"}, Change(k, op)
    PROVE  IndInv'
<1> DEFINE x == [key |-> k, op |-> op]
<1>1. x \in Event /\ log' = Append(log, x) /\ UNCHANGED <<w, req, told, seen, ends>>
  BY DEF Change, Event
<1> HIDE DEF x
<1>2. /\ log' \in Seq(Event) /\ Len(log') = Len(log) + 1
      /\ \A j, r : r \in 0..Len(log) => LastChange(j, r)' = LastChange(j, r)
      /\ \A i \in 0..Len(log) : Put(i)' = Put(i)
  BY <1>1, LogGrows DEF IndInv
<1>3. Len(log) \in Nat /\ Len(log) >= 1 /\ WatcherOK(w, told, seen, Len(log))
  BY DEF IndInv
<1>4. WatcherOK(w, told, seen, Len(log) + 1)
  <2>1. \A j \in Key : told[j] \in Nat
    BY <1>3 DEF WatcherOK
  <2> QED BY <1>3, <2>1 DEF WatcherOK, Watcher
<1>5. ASSUME ~MayLose PROVE ViewIsSnapshot'
  <2> SUFFICES ASSUME NEW j \in Numeric
               PROVE  View(j)' = ValueAt(j, seen)'
    BY DEF ViewIsSnapshot
  <2>1. told[j] \in 0..Len(log) /\ seen \in 0..Len(log)
    BY <1>3, ConstantsAssumption DEF WatcherOK
  <2>2. View(j)' = View(j)
    BY <1>1, <1>2, <2>1 DEF View, Put
  <2>3. LastChange(j, seen)' = LastChange(j, seen)
    <3>1. LastChange(j, seen)' = IF {i \in 1..seen' : log'[i].key = j} = {} THEN 0
                                 ELSE Max({i \in 1..seen' : log'[i].key = j})
      BY DEF LastChange
    <3>2. {i \in 1..seen' : log'[i].key = j} = {i \in 1..seen : log[i].key = j}
      BY <1>1, <1>3, <2>1 DEF IndInv
    <3> QED BY <3>1, <3>2 DEF LastChange
  <2>4. LastChange(j, seen) \in 0..Len(log)
    BY <1>3, <2>1, LastChangeType
  <2>5. ValueAt(j, seen)' = ValueAt(j, seen)
    <3>1. Put(LastChange(j, seen))' = Put(LastChange(j, seen))
      <4>1. LastChange(j, seen) # 0 =>
              log'[LastChange(j, seen)] = log[LastChange(j, seen)]
        BY <1>1, <1>3, <2>4 DEF IndInv
      <4> QED BY <2>3, <4>1 DEF Put
    <3> QED BY <3>1 DEF ValueAt
  <2>6. View(j) = ValueAt(j, seen)
    BY <1>5 DEF IndInv, ViewIsSnapshot
  <2> QED BY <2>2, <2>5, <2>6
<1>6. ASSUME req.kind = "watch"
      PROVE  \E g \in Position(req.wire) : WireOK(req, w.depth, seen, Len(log) + 1, g)
  <2>1. PICK g \in Position(req.wire) : WireOK(req, w.depth, seen, Len(log), g)
    BY <1>6 DEF IndInv
  <2>2. req \in WatchReq
    BY <1>6 DEF IndInv, Req, RangeReq, NoReq
  <2>3. req.pos \in Nat /\ \A i \in 1..Len(req.wire) : req.wire[i].chunk.rev \in Nat
    <3>1. req.pos \in Nat /\ req.wire \in Seq(Piece)
      BY <2>2 DEF WatchReq
    <3>2. \A i \in 1..Len(req.wire) : req.wire[i] \in Piece
      BY <3>1
    <3> QED BY <3>1, <3>2 DEF Piece, Chunk
  <2>4. WireOK(req, w.depth, seen, Len(log) + 1, g)
    BY <1>3, <2>1, <2>3 DEF WireOK
  <2> QED BY <2>4
<1>7. req.kind = "range" => req.rev <= Len(log) + 1
  <2>1. req.kind = "range" => req \in RangeReq
    BY DEF IndInv, Req, WatchReq, NoReq
  <2> QED BY <1>3, <2>1 DEF IndInv, RangeReq
<1> QED BY <1>1, <1>2, <1>3, <1>4, <1>5, <1>6, <1>7 DEF IndInv

(* The initial states. *)
LEMMA InitIndInv == Init => IndInv
<1> SUFFICES ASSUME Init PROVE IndInv
  OBVIOUS
<1>1. PICK k \in Key : log = <<[key |-> k, op |-> "put"]>>
  BY DEF Init
<1>2. log \in Seq(Event) /\ Len(log) = 1
  BY <1>1 DEF Event
<1>3. /\ w \in Watcher /\ w.last = 0 /\ ~w.retry /\ ~w.closed
      /\ told \in [Key -> Nat] /\ \A j \in Key : told[j] = 0
      /\ seen = 0 /\ req = NoReq /\ ends = 0
  BY DEF Init, Watcher
<1>4. ViewIsSnapshot
  <2>1. \A j : LastChange(j, 0) = 0
    BY DEF LastChange
  <2> QED BY <1>3, <2>1, ConstantsAssumption DEF ViewIsSnapshot, View, ValueAt, Put
<1> QED BY <1>2, <1>3, <1>4 DEF IndInv, WatcherOK, Req, NoReq

(* Every step keeps the inductive invariant. *)
LEMMA NextIndInv == IndInv /\ [Next]_vars => IndInv'
<1> SUFFICES ASSUME IndInv, [Next]_vars PROVE IndInv'
  OBVIOUS
<1>1. CASE UNCHANGED vars
  BY <1>1, ViewStays DEF vars, IndInv
<1>2. CASE Next
  BY <1>2, TickStep, ElapseStep, ServeRangeStep, RangeDoneStep, RetryStep, ServeStep,
     WriteStep, WatchDoneStep, CloseStep, ChangeStep DEF Next
<1> QED BY <1>1, <1>2

(* The inductive invariant holds in every state, for any number of changes, ends   *)
(* of requests and chunks.                                                        *)
THEOREM Invariance == Spec => []IndInv
  BY InitIndInv, NextIndInv, PTL DEF Spec

(* The state of etcd_watcher has its type, also if the server may lose changes. *)
THEOREM TypeCorrect == Spec => []TypeOK
<1>1. IndInv => TypeOK
  <2> SUFFICES ASSUME IndInv PROVE TypeOK
    OBVIOUS
  <2>1. WatcherOK(w, told, seen, Len(log)) /\ Len(log) \in Nat /\ req \in Req
    BY DEF IndInv
  <2>2. /\ w.last \in 0..Revision /\ w.depth \in Nat
        /\ {w.retry, w.wait, w.closed} \subseteq BOOLEAN
        /\ \A k \in Key : told[k] \in 0..Revision
        /\ seen \in 0..Revision
    BY <2>1 DEF WatcherOK, Watcher, Revision
  <2>3. req.kind \in {"none", "range", "retry", "watch", "ended"}
    BY <2>1 DEF Req, RangeReq, WatchReq, NoReq
  <2> QED BY <2>2, <2>3 DEF TypeOK
<1> QED BY <1>1, Invariance, PTL

(* If a watch ends only when it owes no change, changes are told once and in order: *)
(* across chunks, and across streams that broke, ended or were canceled.            *)
THEOREM ToldOnceInOrder ==
    ASSUME ~MayLose
    PROVE  Spec => []OnceInOrder
<1>1. IndInv => OnceInOrder
  <2> SUFFICES ASSUME IndInv, Telling PROVE Head(req.wire).chunk.from = seen + 1
    BY DEF OnceInOrder
  <2>1. /\ req.kind = "watch" /\ req.wire # <<>> /\ ~Head(req.wire).open
        /\ Head(req.wire).chunk.upto # 0
    BY DEF Telling
  <2>2. PICK g \in Position(req.wire) : WireOK(req, w.depth, seen, Len(log), g)
    BY <2>1 DEF IndInv
  <2>3. req \in WatchReq
    BY <2>1 DEF IndInv, Req, RangeReq, NoReq
  <2>4. req.wire \in Seq(Piece)
    BY <2>3 DEF WatchReq
  <2>5. Head(req.wire) = req.wire[1] /\ 1 \in 1..Len(req.wire) /\ 1 - 1 = 0
    BY <2>1, <2>4
  <2>6. Carries(req.wire[1])
    BY <2>1, <2>5 DEF Carries
  <2>7. req.wire[1].chunk.from = g[0] + 1
    BY <2>2, <2>5, <2>6 DEF WireOK, Chained
  <2>8. g[0] = seen
    BY <2>2 DEF WireOK
  <2> QED BY <2>5, <2>7, <2>8
<1> QED BY <1>1, Invariance, PTL

(* If a watch ends only when it owes no change, the callbacks know of the keys that *)
(* end with an id what etcd held at one revision.                                   *)
THEOREM SnapshotIsViewed ==
    ASSUME ~MayLose
    PROVE  Spec => []ViewIsSnapshot
<1>1. IndInv => ViewIsSnapshot
  BY DEF IndInv
<1> QED BY <1>1, Invariance, PTL


=============================================================================
