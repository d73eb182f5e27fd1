---------------------------- MODULE EtcdWatcher ----------------------------
(***************************************************************************)
(* etcd_watcher.cpp and the callbacks of etcd_module.cpp: a process follows *)
(* the keys below a path.  It gets all of them once, and then watches from  *)
(* the revision after the last one it knows.  When the watch ends, it gets  *)
(* the path alone (its answer is only used to learn that the token is good) *)
(* and watches again.                                                       *)
(*                                                                         *)
(* A revision of etcd is a position of log; a value is named by the          *)
(* revision that put it.  The watch is a stream of chunks, and a chunk is     *)
(* two pieces, one with the brackets that open it and one with those that    *)
(* close it: a piece is what a write callback may get at once.               *)
(***************************************************************************)
EXTENDS Naturals, Sequences, FiniteSetsExt

CONSTANTS
    Key, Numeric,    \* keys below the path, and those that end with the id of a node
    MayLose,         \* a watch may end with changes that it still owes
    MaxRev,          \* bounds on the changes of the keys,
    MaxEnds,         \* on requests that fail or end,
    MaxNotes         \* and on chunks without events in one stream

ASSUME ConstantsAssumption ==
    /\ Numeric \subseteq Key
    /\ MayLose \in BOOLEAN
    /\ {MaxRev, MaxEnds, MaxNotes} \subseteq Nat

VARIABLES
    log,      \* the changes of the keys, [key, op], one for each revision
    w,        \* etcd_watcher: rpc_ and rpc_data_brackets_
    req,      \* the request that runs: its kind, and what the server has sent of it
    told,     \* told[k]: the change of k that the callback was told last, 0 if none
    seen,     \* history: the changes up to this one were received
    ends      \* how many requests failed or ended

vars == <<log, w, req, told, seen, ends>>

NoReq == [kind |-> "none"]

Revision == Len(log)

LastChange(k, r) ==
    LET S == {i \in 1..r : log[i].key = k}
    IN  IF S = {} THEN 0 ELSE Max(S)

Put(i) == IF i # 0 /\ log[i].op = "put" THEN i ELSE 0

\* the value of k in etcd at revision r, and as the callbacks know it; 0 if it has none
ValueAt(k, r) == Put(LastChange(k, r))
View(k) == Put(told[k])

-----------------------------------------------------------------------------
(* etcd_watcher::process *)

\* Mutant of WatchFrom: the last revision is watched again.
WatchFrom_Again(c) == c.last - 1

\* the watch starts with the revision after this one
WatchFrom(c) == c.last

\* Mutant of Framing: brackets of a stream that broke are kept.
Framing_Kept(c) == c.depth

\* rpc_data_stream_ and rpc_data_brackets_ at the start of a stream
Framing(c) == 0

\* process(), which active() calls after n ends: it may not be able to create the
\* request, which is tried again after an interval, or start() may fail, which the
\* next tick tries again
Process(c, n) ==
    \/ /\ c.wait
       /\ w' = c /\ req' = NoReq /\ ends' = n
    \/ /\ ~c.wait /\ (c.last = 0 \/ c.retry)
       /\ w' = c /\ ends' = n
       /\ req' = [kind |-> IF c.retry THEN "retry" ELSE "range", rev |-> 0]
    \/ /\ ~c.wait /\ c.last # 0 /\ ~c.retry
       /\ w' = [c EXCEPT !.depth = Framing(c)] /\ ends' = n
       /\ req' = [kind |-> "watch", st |-> "new", pos |-> WatchFrom(c), notes |-> 0, wire |-> <<>>]
    \/ /\ ~c.wait /\ n < MaxEnds
       /\ w' \in {c, [c EXCEPT !.wait = TRUE]} /\ req' = NoReq /\ ends' = n + 1

\* etcd_cluster::tick, retry_pending_actions
Tick ==
    /\ req = NoReq /\ ~w.closed /\ ~w.wait
    /\ Process(w, ends)
    /\ UNCHANGED <<log, told, seen>>

\* watcher_next_request_time is over
Elapse ==
    /\ w.wait /\ ~w.closed
    /\ w' = [w EXCEPT !.wait = FALSE]
    /\ UNCHANGED <<log, req, told, seen, ends>>

-----------------------------------------------------------------------------
(* The first request, and the one before a watch is repeated. *)

ServeRange ==
    /\ req.kind \in {"range", "retry"} /\ req.rev = 0
    /\ req' = [req EXCEPT !.rev = Revision]
    /\ UNCHANGED <<log, w, told, seen, ends>>

\* Mutant of Tells: a change without a value is skipped.
Tells_NoValue(i) == log[i].op = "put"

\* watcher_callback_*_wrapper_t: a deleted key has no value, because prev_kv is not
\* asked for, so the id of the node is the last part of the key; without one the
\* change is skipped
Tells(i) == log[i].op = "put" \/ log[i].key \in Numeric

\* every key that has a value is told as a put
TellAll(t, r) ==
    [k \in Key |-> IF ValueAt(k, r) # 0 THEN ValueAt(k, r) ELSE t[k]]

\* libcurl_callback_on_range_completed
RangeDone ==
    /\ req.kind = "range" /\ req.rev # 0
    /\ told' = TellAll(told, req.rev)
    /\ seen' = req.rev
    /\ Process([w EXCEPT !.last = req.rev, !.wait = FALSE], ends)
    /\ UNCHANGED log

\* ... in retry mode: nothing of the answer is used
RetryDone ==
    /\ req.kind = "retry" /\ req.rev # 0
    /\ Process([w EXCEPT !.retry = FALSE, !.wait = FALSE], ends)
    /\ UNCHANGED <<log, told, seen>>

\* ... an error, or an answer without a header
RangeFails ==
    /\ req.kind \in {"range", "retry"} /\ ends < MaxEnds
    /\ w' = [w EXCEPT !.wait = TRUE]
    /\ req' = NoReq
    /\ ends' = ends + 1
    /\ UNCHANGED <<log, told, seen>>

-----------------------------------------------------------------------------
(* The watch. *)

Pieces(rev, from, upto, cancel) ==
    LET c == [rev |-> rev, from |-> from, upto |-> upto, cancel |-> cancel]
    IN  <<[open |-> TRUE, chunk |-> c], [open |-> FALSE, chunk |-> c]>>

\* the server confirms the watch, with the revision that the store has by then
ServeCreated ==
    /\ req.kind = "watch" /\ req.st = "new"
    /\ req' = [req EXCEPT !.st = "open", !.wire = @ \o Pieces(Revision, 0, 0, FALSE)]
    /\ UNCHANGED <<log, w, told, seen, ends>>

\* the server sends changes, all that there are or some; the header has the last of
\* them or the revision of the store
ServeEvents(n, r) ==
    /\ req.kind = "watch" /\ req.st = "open"
    /\ n > req.pos /\ r \in {n, Revision}
    /\ req' = [req EXCEPT !.pos = n, !.wire = @ \o Pieces(r, req.pos + 1, n, FALSE)]
    /\ UNCHANGED <<log, w, told, seen, ends>>

\* progress_notify, when the watch has everything
ServeProgress ==
    /\ req.kind = "watch" /\ req.st = "open" /\ req.pos = Revision /\ req.notes < MaxNotes
    /\ req' = [req EXCEPT !.notes = @ + 1, !.wire = @ \o Pieces(Revision, 0, 0, FALSE)]
    /\ UNCHANGED <<log, w, told, seen, ends>>

\* the server cancels the watch
ServeCancel ==
    /\ req.kind = "watch" /\ req.st = "open" /\ ends < MaxEnds
    /\ MayLose \/ req.pos = Revision
    /\ req' = [req EXCEPT !.st = "canceled", !.wire = @ \o Pieces(0, 0, 0, TRUE)]
    /\ ends' = ends + 1
    /\ UNCHANGED <<log, w, told, seen>>

\* the changes of a chunk are told one after the other, so the last one stays
TellFromTo(t, i, j) ==
    LET S(k) == {n \in i..j : i # 0 /\ log[n].key = k /\ Tells(n)}
    IN  [k \in Key |-> IF S(k) = {} THEN t[k] ELSE Max(S(k))]

\* Mutant of SaveRevision: the revision to watch from is saved.
SaveRevision_Next(c, r) == IF r # 0 THEN r + 1 ELSE c.last

\* the revision of a header is saved, unless it is missing
SaveRevision(c, r) == IF r # 0 THEN r ELSE c.last

\* libcurl_callback_on_watch_write gets a piece: it counts brackets; when they are
\* closed the chunk is complete, its revision is saved and its changes are told
Write ==
    LET p == Head(req.wire)
        d == IF p.open THEN w.depth + 1 ELSE w.depth - 1
    IN  /\ req.kind = "watch" /\ req.wire # <<>>
        /\ \/ /\ d > 0
              /\ w' = [w EXCEPT !.depth = d]
              /\ UNCHANGED <<told, seen>>
           \/ /\ d = 0
              /\ w' = [w EXCEPT !.depth = 0, !.last = SaveRevision(w, p.chunk.rev)]
              /\ told' = TellFromTo(told, p.chunk.from, p.chunk.upto)
              /\ seen' = IF p.chunk.upto # 0 THEN p.chunk.upto ELSE seen
        /\ req' = IF ~p.open /\ d = 0 /\ p.chunk.cancel
                  THEN [kind |-> "ended"]         \* req.stop()
                  ELSE [req EXCEPT !.wire = Tail(@)]
        /\ UNCHANGED <<log, ends>>

\* libcurl_callback_on_watch_completed: the request was stopped, timed out or failed;
\* without MayLose, not while a header that was saved is ahead of what was told
WatchDone ==
    /\ \E late \in BOOLEAN :
          LET c == [w EXCEPT !.retry = TRUE, !.wait = late]
          IN  \/ /\ req.kind = "ended"
                 /\ Process(c, ends)
              \/ /\ req.kind = "watch" /\ ends < MaxEnds
                 /\ MayLose \/ w.last <= seen
                 /\ Process(c, ends + 1)
    /\ UNCHANGED <<log, told, seen>>

-----------------------------------------------------------------------------
\* close(), which etcd_cluster::remove_watcher and etcd_cluster::close call
Close ==
    /\ ~w.closed
    /\ w' = [w EXCEPT !.closed = TRUE, !.retry = FALSE, !.last = 0]
    /\ req' = NoReq
    /\ UNCHANGED <<log, told, seen, ends>>

\* other processes change a key
Change(k, op) ==
    /\ Revision < MaxRev
    /\ op = "delete" => ValueAt(k, Revision) # 0
    /\ log' = Append(log, [key |-> k, op |-> op])
    /\ UNCHANGED <<w, req, told, seen, ends>>

Init ==
    /\ \E k \in Key : log = <<[key |-> k, op |-> "put"]>>
    /\ w = [last |-> 0, retry |-> FALSE, wait |-> FALSE, depth |-> 0, closed |-> FALSE]
    /\ req = NoReq
    /\ told = [k \in Key |-> 0]
    /\ seen = 0
    /\ ends = 0

Next ==
    \/ Tick \/ Elapse \/ ServeRange \/ RangeDone \/ RetryDone \/ RangeFails
    \/ ServeCreated \/ ServeProgress \/ ServeCancel \/ Write \/ WatchDone \/ Close
    \/ \E n, r \in 1..MaxRev : n <= Revision /\ ServeEvents(n, r)
    \/ \E k \in Key, op \in {"put", "delete"} : Change(k, op)

Spec == Init /\ [][Next]_vars

\* ticks go on, intervals pass, and what is sent is received and answered
Fairness ==
    /\ WF_vars(Tick) /\ WF_vars(Elapse) /\ WF_vars(ServeRange)
    /\ WF_vars(RangeDone) /\ WF_vars(RetryDone)
    /\ WF_vars(ServeCreated) /\ WF_vars(Write)
    /\ WF_vars(\E n, r \in 1..MaxRev : n <= Revision /\ ServeEvents(n, r))
    /\ WF_vars(req.kind = "ended" /\ WatchDone)

FairSpec == Spec /\ Fairness

-----------------------------------------------------------------------------
(* Properties *)

\* Type invariant: of the state that etcd_watcher keeps.
TypeOK ==
    /\ w.last \in 0..Revision /\ w.depth \in Nat
    /\ {w.retry, w.wait, w.closed} \subseteq BOOLEAN
    /\ req.kind \in {"none", "range", "retry", "watch", "ended"}
    /\ \A k \in Key : told[k] \in 0..Revision
    /\ seen \in 0..Revision

\* What the callbacks know of the keys that end with an id is what etcd held at one
\* revision, the one the watch has got to, deletions before and after a stream
\* that broke, ended or was canceled included.
ViewIsSnapshot == \A k \in Numeric : View(k) = ValueAt(k, seen)

Telling ==
    /\ req.kind = "watch" /\ req.wire # <<>> /\ w.depth = 1
    /\ ~Head(req.wire).open /\ Head(req.wire).chunk.upto # 0

\* Changes are told once and in order: the chunk that is about to be told starts with
\* the change after the last one told, also when it is the first of a new stream.
OnceInOrder == Telling => Head(req.wire).chunk.from = seen + 1

\* A watcher that is not closed gets up to date with the keys that end with an id again
\* and again: after requests that fail or cannot be made, streams that break in the
\* middle of a message and streams that are canceled (libcurl_callback_on_watch_completed,
\* process).  Only where no stream ends after a saved header that is ahead of the
\* changes told (~MayLose); Repulled shows what happens then.
UpToDate == []<>(w.closed \/ \A k \in Numeric : View(k) = ValueAt(k, Revision))

\* A watcher that pulls the path again after a stream ended gets up to date: the timeout
\* of one hour "amounts to pulling the data again every hour" (etcd_watcher.cpp:18).
Repulled ==
    (req.kind = "retry") ~> (w.closed \/ \A k \in Numeric : View(k) = ValueAt(k, Revision))
=============================================================================
