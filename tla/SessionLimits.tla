--------------------------- MODULE SessionLimits ---------------------------
(***************************************************************************)
(* The traffic limits of a client session (session.cpp): the counters of   *)
(* what is sent and received, their windows of a minute and of an "hour",  *)
(* and the checks that close the session.  GatewaySession has the rest of  *)
(* a session's life and takes from here which closes the checks can make.  *)
(*                                                                         *)
(* One session id is followed over the objects that carry it: a reconnect  *)
(* gives the counters to a new object (init_reconnect).  A check may call  *)
(* close(), which sends a notice, which is counted and checked again; a    *)
(* handler is one step, so the calls are recursive operators and the stack *)
(* has MaxDepth frames of close().                                         *)
(***************************************************************************)
EXTENDS Naturals, Sequences, SequencesExt

CONSTANTS
    Limits,     \* conf_.limits: Counter -> Nat, 0 for no limit
    NoticeLen,  \* bytes of an add or a remove notice to the router
    MaxLen,     \* bytes of the largest push or post
    MaxPushes,  \* bound on the pushes of one session id
    MaxPosts,   \* bound on the bytes of the client's posts in a minute
    MaxDepth    \* calls of close() the stack has room for

Counter == {"hour", "minute", "total"} \X {"recv", "send"} \X {"bytes", "times"}

ASSUME LimitsAssumption ==
    /\ Limits \in [Counter -> Nat]
    /\ {NoticeLen, MaxLen, MaxPushes, MaxPosts, MaxDepth} \subseteq Nat

VARIABLES
    s,      \* the object that carries the id, see Session
    pushed, \* bytes pushed in this minute, without the push that opened its window
    posted  \* bytes of the client's posts forwarded in this minute

vars == <<s, pushed, posted>>

\* count and current are limit_: the counters, and the windows whose time point is
\* the present one; owner is owner_ # NULL; listed if the manager's tables have it;
\* died is why the process is gone: a call through a NULL owner_, or the stack
Session == [count: [Counter -> Nat], current: SUBSET {"hour", "minute"},
            owner: BOOLEAN, closing: BOOLEAN, registered: BOOLEAN, listed: BOOLEAN,
            died: {"no", "null", "stack"}]

Fresh == [count |-> [c \in Counter |-> 0], current |-> {}, owner |-> TRUE,
          closing |-> FALSE, registered |-> FALSE, listed |-> FALSE, died |-> "no"]

-----------------------------------------------------------------------------
\* one condition of a check: looked at if the check is for traffic in direction on,
\* it compares the counter c, if it is limited, with the limit of bound
Cond(on, c, bound) == [on |-> on, c |-> c, bound |-> bound]
Plain(on, w, d, u) == Cond(on, <<w, d, u>>, <<w, d, u>>)

\* the conditions of check_hour_limit, check_minute_limit and check_total_limit
Conditions(w) ==
    CASE w = "hour" -> <<Plain("recv", w, "recv", "bytes"), Plain("recv", w, "send", "bytes"),
                         Plain("send", w, "recv", "times"), Plain("send", w, "send", "times")>>
      [] w = "minute" -> <<Plain("recv", w, "recv", "bytes"), Plain("recv", w, "recv", "times"),
                           Plain("send", w, "send", "bytes"), Plain("send", w, "send", "times")>>
      [] w = "total" -> <<Cond("recv", <<w, "recv", "bytes">>, <<w, "send", "bytes">>),
                          Plain("recv", w, "recv", "times"),
                          Plain("send", w, "send", "bytes"), Plain("send", w, "send", "times")>>

Exceeds(r, x) == Limits[x.c] > 0 /\ r.count[x.c] > Limits[x.bound]

\* len bytes more, in one message, in direction d
Counted(r, d, len) ==
    [r EXCEPT !.count = [c \in Counter |->
        IF c[2] # d THEN @[c] ELSE @[c] + (IF c[3] = "bytes" THEN len ELSE 1)]]

\* the window w begins with an empty count, the message just counted included
Opened(r, w) ==
    [r EXCEPT !.current = @ \cup {w},
              !.count = [c \in Counter |-> IF c[1] = w THEN 0 ELSE @[c]]]

RECURSIVE CloseSession(_, _)

\* Mutant of Check: check_minute_limit goes on after a close, as the others do.
Check_NoReturn(r, w, d, depth) ==
    LET Test(q, x) ==
            IF q.died # "no" \/ x.on # d THEN q
            ELSE IF ~q.owner THEN [q EXCEPT !.died = "null"]
            ELSE IF Exceeds(q, x) THEN CloseSession(q, depth) ELSE q
    IN  IF r.died # "no" THEN r
        ELSE IF w # "total" /\ w \notin r.current THEN Opened(r, w)
        ELSE IF ~r.owner \/ r.closing THEN r
        ELSE FoldLeft(Test, r, Conditions(w))

\* one of the three checks: only the one of a minute returns after a close(), the
\* others go on to conditions that use owner_
Check(r, w, d, depth) ==
    LET Test(q, x) ==
            IF q.died # "no" \/ x.on # d \/ (w = "minute" /\ q.closing) THEN q
            ELSE IF ~q.owner THEN [q EXCEPT !.died = "null"]
            ELSE IF Exceeds(q, x) THEN CloseSession(q, depth) ELSE q
    IN  IF r.died # "no" THEN r
        ELSE IF w # "total" /\ w \notin r.current THEN Opened(r, w)
        ELSE IF ~r.owner \/ r.closing THEN r
        ELSE FoldLeft(Test, r, Conditions(w))

CheckAll(r, d, depth) ==
    Check(Check(Check(r, "hour", d, depth), "minute", d, depth), "total", d, depth)

\* session::send_to_server with a notice for the router; the post gets through
SendToServer(r, depth) == CheckAll(Counted(r, "recv", NoticeLen), "recv", depth)

\* session::close: the router is told, and CLOSING is set when that has returned
CloseSession(r, depth) ==
    IF depth = 0 THEN [r EXCEPT !.died = "stack"]
    ELSE LET n == IF r.registered
                  THEN [SendToServer(r, depth - 1) EXCEPT !.registered = FALSE] ELSE r
         IN  IF n.died # "no" \/ n.closing THEN n
             ELSE [n EXCEPT !.closing = TRUE, !.owner = FALSE]

\* session_manager::active_session: session::send_new_session, if there is a need to
Activated(r) ==
    LET t == IF r.registered THEN r ELSE SendToServer(r, MaxDepth)
    IN  IF t.died # "no" THEN t ELSE [t EXCEPT !.registered = TRUE, !.listed = TRUE]

\* Mutant of Inherited: limit_ is not copied.
Inherited_NoLimit(r) == [Fresh EXCEPT !.registered = r.registered]

\* session::init_reconnect
Inherited(r) == [Fresh EXCEPT !.count = r.count, !.current = r.current,
                              !.registered = r.registered]

-----------------------------------------------------------------------------
Up == s.died = "no"
Open == s.owner /\ ~s.closing

\* a client starts a session
Start ==
    /\ Up /\ ~s.listed
    /\ s' = Activated(Fresh)
    /\ pushed' = 0 /\ posted' = 0

\* session::send_to_client
Push(len) ==
    /\ Up /\ s.listed /\ Open
    /\ s.count[<<"total", "send", "times">>] < MaxPushes
    /\ s' = CheckAll(Counted(s, "send", len), "send", MaxDepth)
    /\ pushed' = IF "minute" \in s.current THEN pushed + len ELSE 0
    /\ UNCHANGED posted

\* proto_inner_callback_on_message: the post goes to session_manager::post_data
\* without send_to_server
Post(len) ==
    /\ Up /\ s.listed /\ Open /\ posted + len <= MaxPosts
    /\ posted' = posted + len
    /\ UNCHANGED <<s, pushed>>

\* the connection is lost or taken over: close_fd
Away ==
    /\ Up /\ s.listed /\ s.owner
    /\ s' = [s EXCEPT !.owner = FALSE]
    /\ UNCHANGED <<pushed, posted>>

\* a reconnect; a session closed for its limits is still in the table, and found
Resume ==
    /\ Up /\ s.listed /\ ~s.owner
    /\ s' = Activated(Inherited(s))
    /\ UNCHANGED <<pushed, posted>>

\* session_manager::close for good: the tables forget the session
Kick ==
    LET t == IF s.owner THEN CloseSession(s, MaxDepth) ELSE s
    IN  /\ Up /\ s.listed
        /\ s' = IF t.died = "no" THEN Fresh ELSE t
        /\ pushed' = 0 /\ posted' = 0

NextMinute ==
    /\ Up /\ "minute" \in s.current
    /\ s' = [s EXCEPT !.current = @ \ {"minute"}]
    /\ pushed' = 0 /\ posted' = 0

\* the hour's time point is the day
NextDay ==
    /\ Up /\ "hour" \in s.current
    /\ s' = [s EXCEPT !.current = {}]
    /\ pushed' = 0 /\ posted' = 0

Init == s = Fresh /\ pushed = 0 /\ posted = 0

Next ==
    \/ \E len \in 1..MaxLen : Push(len) \/ Post(len)
    \/ Start \/ Away \/ Resume \/ Kick \/ NextMinute \/ NextDay

Spec == Init /\ [][Next]_vars

-----------------------------------------------------------------------------
(* Properties. *)

\* n does not exceed the limit of the counter c
Within(n, c) == Limits[c] = 0 \/ n <= Limits[c]

(* A push leaves a session open only if the pushes of this minute, the one that   *)
(* opened the minute's window aside, and the number of all pushes to its id are   *)
(* within the limits: no order of reconnects, notices and new windows gives a     *)
(* client more than one push above them before it is closed again.                *)
SendWithin ==
    [][(\E len \in 1..MaxLen : Push(len)) /\ Open' =>
          /\ Within(pushed', <<"minute", "send", "bytes">>)
          /\ Within(s.count[<<"total", "send", "times">>] + 1, <<"total", "send", "times">>)]_vars

(* close_with_manager "is called several times (when the connection is closed,    *)
(* when the reconnect times out, on a kick)": however it is called, it returns,   *)
(* and nothing uses the manager after it.                                         *)
Survives == s.died = "no"

(* "total recv (bytes) limit in one minute": the posts of a client in a minute    *)
(* are within the limit while its session is open.                                *)
RecvWithin ==
    s.listed /\ Open => Within(posted, <<"minute", "recv", "bytes">>)

(* "total recv limit (bytes)": the checks close a session only if some counter    *)
(* exceeds its own limit.                                                         *)
OnlyOver == s.closing => \E c \in Counter : ~Within(s.count[c], c)
=============================================================================
