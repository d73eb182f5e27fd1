--------------------------- MODULE GatewaySession ---------------------------
(***************************************************************************)
(* The client sessions of atgateway: session.cpp (one connection),         *)
(* session_manager.cpp (the tables and timers that own sessions), and the  *)
(* callbacks of atgateway.cpp that tie both to the inner protocol and to   *)
(* libuv.  The gateway is single threaded: every action is one libuv       *)
(* callback, one timer tick or one message from a server, run to its end.  *)
(*                                                                         *)
(* A session is identified by its object (an element of Obj); the id the   *)
(* client and the servers use is a field of it, and a reconnect moves the  *)
(* id from one object to another.  Every object is used for one accepted   *)
(* connection, so |Obj| bounds the connections of a behaviour.             *)
(***************************************************************************)
EXTENDS Integers, Sequences, FiniteSets

CONSTANTS
    Obj,              \* session objects, one for each accepted connection
    Ids, NoId,        \* session ids; NoId is the id_ == 0 of a fresh session
    Nil,              \* no session object
    Routers,          \* bus ids a server may set as a session's router
    NoRouter,         \* the bus id 0
    DefaultRouter,    \* conf_.default_router
    ReconnectTimeout, \* conf_.reconnect_timeout, in seconds
    FirstIdleTimeout, \* conf_.first_idle_timeout, in seconds
    MaxClient,        \* conf_.limits.max_client_number, 0 for no limit
    Env               \* what the environment may do, a subset of EnvEvents

\* Clients may always connect, start a session, lose the connection and reconnect.
\* Besides, an instance allows some of:
EnvEvents == {
    "crypt",        \* clients negotiate encryption, which takes further messages
    "answer",       \* clients send messages the protocol answers by itself
    "client_close", \* clients close the session or send unreadable messages
    "bad_data",     \* data with a wrong hash or size arrives
    "refuse",       \* clients try to reconnect with a wrong id or secret
    "late_data",    \* the peer sends, or disconnects, while its connection drains
    "push",         \* servers push data to connected sessions
    "over_limit",   \* a push may exceed the send limits
    "recv_limit",   \* the notices to the router may exceed the receive limits
    "push_away",    \* servers push data to sessions that have no connection
    "kick",         \* servers and operators kick sessions
    "set_router",   \* servers move sessions to another router
    "stop",         \* the gateway is stopped
    "accept_fails", \* uv_accept may fail
    "post_fails"}   \* a post to a server may fail

ASSUME ConstantsAssumption ==
    /\ Nil \notin Obj
    /\ NoId \notin Ids
    /\ ReconnectTimeout \in Nat
    /\ FirstIdleTimeout \in Nat
    /\ MaxClient \in Nat
    /\ Env \subseteq EnvEvents

VARIABLES
    sess,     \* the session objects
    actived,  \* actived_sessions_: id -> object
    cache,    \* reconnect_cache_: id -> object
    rtimer,   \* reconnect_timeout_: [s, left] in the order they were pushed
    idle,     \* first_idle_: [s, left]
    ticked,   \* last_tick_time_ == now
    running,  \* the listeners are open; FALSE once stop() has run
    known     \* the ids the servers believe connected: last told "add", not "remove"

tables == <<actived, cache, rtimer, known>>
vars == <<sess, actived, cache, rtimer, idle, ticked, running, known>>

SessionFlag == {"INITED", "HAS_FD", "REGISTERED", "RECONNECTED",
                "WAIT_RECONNECT", "CLOSING", "CLOSING_FD"}
ProtoFlag == {"WRITING", "CLOSING", "CLOSED", "HANDSHAKE_DONE"}
\* a close reason up to EN_CRT_RECONNECT_BOUND leaves the session resumable
Reason == {"resumable", "final"}
\* the libuv handle: not accepted yet, open (perhaps draining writes),
\* uv_shutdown called, closed; broken if uv_accept failed
UvStage == {"none", "open", "shutdown", "closed", "broken"}

Session == [id: Ids \cup {NoId}, router: Routers \cup {NoRouter, DefaultRouter},
            owner: BOOLEAN, flags: SUBSET SessionFlag, pflags: SUBSET ProtoFlag,
            why: Reason, uv: UvStage]

NoSession == [id |-> NoId, router |-> NoRouter, owner |-> FALSE, flags |-> {},
              pflags |-> {}, why |-> "final", uv |-> "none"]

\* conf_.first_idle_timeout, or one second
FirstIdle == IF FirstIdleTimeout > 0 THEN FirstIdleTimeout ELSE 1

\* an entry of a timer list, set up with n seconds
Timer(n) == [s: Obj, left: 0..n]

-----------------------------------------------------------------------------
(* session.cpp, as functions of one session's record. *)

With(r, F) == [r EXCEPT !.flags = @ \cup F]
Without(r, F) == [r EXCEPT !.flags = @ \ F]

\* The sets of objects whose posts to a server get through in one handler.
PostResults == IF "post_fails" \in Env THEN SUBSET Obj ELSE {Obj}

\* libatgw_proto_inner_v1::close(reason, true): the kickoff message is handed to
\* uv_write, which accepts it unless the socket was never opened; the protocol is
\* closed when the write completes, at once if there is none.  Its reason is left
\* out: close_fd clears owner_, and on_close then has no use for it.
ProtoClose(r) ==
    IF "CLOSING" \in r.pflags THEN r
    ELSE [r EXCEPT !.pflags = @ \cup {"CLOSING", IF r.uv = "broken" THEN "CLOSED"
                                                 ELSE "WRITING"}]

\* uv_shutdown fails (and its result is ignored) on a socket never opened.
Shutdown(r) == [r EXCEPT !.uv = IF @ = "open" THEN "shutdown" ELSE @]

\* Mutant of CloseFd: EN_FT_HAS_FD is not reset.
CloseFd_KeepsFd(r) ==
    IF "CLOSING_FD" \in r.flags \/ "HAS_FD" \notin r.flags THEN r
    ELSE [ProtoClose(r) EXCEPT !.flags = @ \cup {"CLOSING_FD"}, !.owner = FALSE]

\* session::close_fd
CloseFd(r) ==
    IF "CLOSING_FD" \in r.flags \/ "HAS_FD" \notin r.flags THEN r
    ELSE LET p == ProtoClose(r)
             q == [p EXCEPT !.flags = (@ \ {"HAS_FD"}) \cup {"CLOSING_FD"},
                            !.owner = FALSE]
         IN  IF "CLOSED" \in p.pflags THEN Shutdown(q) ELSE q

\* Mutant of Notifies: a session that was resumed elsewhere is reported too.
Notifies_Reconnected(r) == /\ "REGISTERED" \in r.flags
                           /\ "WAIT_RECONNECT" \notin r.flags

\* session::close_with_manager tells the router only about these sessions
Notifies(r) == /\ "REGISTERED" \in r.flags
               /\ "RECONNECTED" \notin r.flags
               /\ "WAIT_RECONNECT" \notin r.flags

\* session::send_to_server gets as far as post_data; mgr is TRUE if the caller
\* passes the manager, otherwise owner_ is used
CanPost(r, mgr) == r.router # NoRouter /\ (mgr \/ r.owner)

\* Mutant of Close: a session that is closing already returns before the notice.
Close_ReturnsFirst(r, mgr, ok) ==
    IF "CLOSING" \in r.flags THEN r
    ELSE CloseFd(With(IF Notifies(r) /\ CanPost(r, mgr) /\ ok
                      THEN Without(r, {"REGISTERED"}) ELSE r, {"CLOSING"}))

\* session::close_with_manager; ok is the result of the post
Close(r, mgr, ok) ==
    LET n == IF Notifies(r) /\ CanPost(r, mgr) /\ ok
             THEN Without(r, {"REGISTERED"}) ELSE r
    IN  IF "CLOSING" \in n.flags THEN n
        ELSE CloseFd(With(n, {"CLOSING"}))

\* The sessions C are closed one after the other; P are those whose post succeeds.
CloseAll(S, C, mgr, P) ==
    [o \in Obj |-> IF o \in C THEN Close(S[o], mgr, o \in P) ELSE S[o]]

\* The ids for which that sends "remove_session" to the router.
Removed(S, C, mgr, P) ==
    {S[o].id : o \in {p \in C \cap P : Notifies(S[p]) /\ CanPost(S[p], mgr)}}

\* Mutant of Inherited: the new session keeps the default router.
Inherited_NoRouter(r, old) ==
    [r EXCEPT !.id = old.id,
              !.flags = @ \cup {"INITED"} \cup (old.flags \cap {"REGISTERED"})]

\* session::init_reconnect: what the new session takes over ...
Inherited(r, old) ==
    [r EXCEPT !.id = old.id, !.router = old.router,
              !.flags = @ \cup {"INITED"} \cup (old.flags \cap {"REGISTERED"})]

\* Mutant of Handed: the old session is not marked.
Handed_Unmarked(old) == Without(old, {"WAIT_RECONNECT"})

\* ... and what is left of the old one
Handed(old) == Without(With(old, {"RECONNECTED"}), {"WAIT_RECONNECT"})

\* Mutant of Drained: a session that waits for its writes is not shut down.
Drained_NoShutdown(r) ==
    [r EXCEPT !.pflags = (@ \ {"WRITING"}) \cup {"CLOSED"}]

\* The last write of a closing protocol is done: write_done closes the protocol
\* and session::on_write_done shuts the socket down if close_fd waited for that.
Drained(r) ==
    LET c == [r EXCEPT !.pflags = (@ \ {"WRITING"}) \cup {"CLOSED"}]
    IN  IF "CLOSING_FD" \in r.flags THEN Shutdown(c) ELSE c

-----------------------------------------------------------------------------
(* session_manager.cpp.  S is the sessions as they are when the manager is  *)
(* called, P the sessions whose posts to a server succeed.                  *)

Find(table, i) == IF i \in Ids THEN table[i] ELSE Nil

\* session_manager::close returns EN_ECT_SESSION_NOT_FOUND unless this holds
MgrFinds(i, allow) ==
    Find(actived, i) # Nil \/ (~allow /\ Find(cache, i) # Nil)

\* what close() leaves of a session that may still be resumed
Parked(r) == CloseFd(With(r, {"WAIT_RECONNECT"}))

\* Mutant of MgrPark: no timer is set up.
MgrPark_NoTimer(i, S) ==
    LET o == actived[i] IN
    /\ cache' = [cache EXCEPT ![S[o].id] = o]
    /\ sess' = [S EXCEPT ![o] = Parked(@)]
    /\ actived' = [actived EXCEPT ![i] = Nil]
    /\ UNCHANGED <<rtimer, known>>

\* close() of an active session that allows a reconnect
MgrPark(i, S) ==
    LET o == actived[i] IN
    /\ rtimer' = Append(rtimer, [s |-> o, left |-> ReconnectTimeout])
    /\ cache' = [cache EXCEPT ![S[o].id] = o]
    /\ sess' = [S EXCEPT ![o] = Parked(@)]
    /\ actived' = [actived EXCEPT ![i] = Nil]
    /\ UNCHANGED known

\* close() of an active session for good
MgrDrop(i, S, P) ==
    LET C == {actived[i]} IN
    /\ sess' = CloseAll(S, C, FALSE, P)
    /\ known' = known \ Removed(S, C, FALSE, P)
    /\ actived' = [actived EXCEPT ![i] = Nil]
    /\ UNCHANGED <<cache, rtimer>>

\* close() of a session that waits for a reconnect: WAIT_RECONNECT is still set
\* when the session is closed, so the router hears of it when the timer expires
MgrEvict(i, S, P) ==
    LET o == cache[i]
        T == CloseAll(S, {o}, FALSE, P)
    IN  /\ sess' = [T EXCEPT ![o] = Without(@, {"WAIT_RECONNECT"})]
        /\ known' = known \ Removed(S, {o}, FALSE, P)
        /\ cache' = [cache EXCEPT ![i] = Nil]
        /\ UNCHANGED <<actived, rtimer>>

\* session_manager::close(i, reason, allow), when it finds the session
MgrClose(i, allow, S, P) ==
    \/ /\ actived[i] # Nil /\ allow /\ ReconnectTimeout > 0
       /\ MgrPark(i, S)
    \/ /\ actived[i] # Nil /\ ~(allow /\ ReconnectTimeout > 0)
       /\ MgrDrop(i, S, P)
    \/ /\ actived[i] = Nil /\ ~allow /\ cache[i] # Nil
       /\ MgrEvict(i, S, P)

\* what the receive limits leave of a session that is not registered yet
Limited(r) == CloseFd(With(r, {"CLOSING"}))

\* session_manager::active_session, from the table act: a session already active
\* under the id is kicked, then session::send_new_session registers the new one.
\* send_to_server counts the notice and may close the session for its receive limits
\* before REGISTERED is set.  A fresh session's first check only opens its windows, so
\* that takes the counters of an older session, inherited together with its id.
Activate(o, S, act, P) == \E over \in BOOLEAN :
    LET i == S[o].id
        C == IF act[i] = Nil THEN {} ELSE {act[i]}
        T == CloseAll(S, C, FALSE, P)
        add == "REGISTERED" \notin T[o].flags
        done == add => CanPost(T[o], FALSE) /\ o \in P
        U == IF over THEN [T EXCEPT ![o] = Limited(@)] ELSE T
    IN  /\ over => /\ "recv_limit" \in Env
                   /\ add /\ CanPost(T[o], FALSE)
                   /\ \E p \in Obj \ {o} : S[p].id = i
        /\ sess' = IF done THEN [U EXCEPT ![o] = With(@, {"REGISTERED"})] ELSE U
        /\ actived' = [act EXCEPT ![i] = IF done THEN o ELSE Nil]
        /\ known' = (known \ Removed(S, C, FALSE, P))
                      \cup (IF add /\ done THEN {i} ELSE {})

-----------------------------------------------------------------------------
(* atgateway.cpp: the protocol's callbacks. *)

\* proto_inner_callback_on_close, once the protocol of o is closed in S
OnClose(o, S) == \E P \in PostResults :
    LET r == S[o]
        allow == r.why = "resumable"
    IN  \/ /\ "CLOSING" \in r.flags
           /\ sess' = S
           /\ UNCHANGED tables
        \/ /\ "CLOSING" \notin r.flags /\ r.owner /\ MgrFinds(r.id, allow)
           /\ MgrClose(r.id, allow, S, P)
        \/ /\ "CLOSING" \notin r.flags /\ ~(r.owner /\ MgrFinds(r.id, allow))
           /\ sess' = CloseAll(S, {o}, FALSE, P)
           /\ known' = known \ Removed(S, {o}, FALSE, P)
           /\ UNCHANGED <<actived, cache, rtimer>>

\* libatgw_proto_inner_v1::close called by the protocol itself: close_fn is
\* called now, or by write_done if a write (the kickoff, if sent) is pending
ProtoCloses(o, S, why, kick) ==
    LET r == [S[o] EXCEPT !.why = why,
                !.pflags = @ \cup {"CLOSING"} \cup (IF kick THEN {"WRITING"} ELSE {})]
    IN  \/ /\ "WRITING" \in r.pflags
           /\ sess' = [S EXCEPT ![o] = r]
           /\ UNCHANGED tables
        \/ /\ "WRITING" \notin r.pflags
           /\ OnClose(o, [S EXCEPT ![o] = [r EXCEPT !.pflags = @ \cup {"CLOSED"}]])

\* proto_inner_callback_on_read_data ignores a session that closes
Reading(o) == /\ sess[o].uv = "open"
              /\ sess[o].owner
              /\ "CLOSING" \notin sess[o].flags

\* ... and a protocol that closes takes no message
Receiving(o) == Reading(o) /\ "CLOSING" \notin sess[o].pflags
Handshaking(o) == Receiving(o) /\ "HANDSHAKE_DONE" \notin sess[o].pflags

-----------------------------------------------------------------------------
(* Connections. *)

Accepted == [NoSession EXCEPT !.router = DefaultRouter, !.owner = TRUE,
                              !.flags = {"HAS_FD"}, !.uv = "open"]

Full == /\ MaxClient > 0
        /\ Cardinality({i \in Ids : actived[i] # Nil})
             + Cardinality({i \in Ids : cache[i] # Nil}) >= MaxClient

\* Mutant of Accept: the first idle timer runs for the reconnect timeout.
Accept_WrongTimeout(o) ==
    /\ running /\ sess[o].uv = "none" /\ ~Full
    /\ sess' = [sess EXCEPT ![o] = Accepted]
    /\ idle' = Append(idle, [s |-> o, left |-> ReconnectTimeout])
    /\ UNCHANGED <<tables, ticked, running>>

\* session_manager::on_evt_accept_tcp; on_evt_accept_pipe, which uses the protocol
\* object after it was moved into the session, is not modelled
Accept(o) ==
    /\ running /\ sess[o].uv = "none" /\ ~Full
    /\ sess' = [sess EXCEPT ![o] = Accepted]
    /\ idle' = Append(idle, [s |-> o, left |-> FirstIdle])
    /\ UNCHANGED <<tables, ticked, running>>

\* Mutant of AcceptBusy: the surplus session is dropped without a close.
AcceptBusy_NoClose(o) ==
    /\ running /\ sess[o].uv = "none" /\ Full
    /\ sess' = [sess EXCEPT ![o] = Accepted]
    /\ UNCHANGED <<tables, idle, ticked, running>>

AcceptBusy(o) ==
    /\ running /\ sess[o].uv = "none" /\ Full
    /\ sess' = [sess EXCEPT ![o] = Close(Accepted, FALSE, TRUE)]
    /\ UNCHANGED <<tables, idle, ticked, running>>

AcceptFails(o) ==
    /\ "accept_fails" \in Env
    /\ running /\ sess[o].uv = "none"
    /\ sess' = [sess EXCEPT ![o] =
                   Close([Accepted EXCEPT !.uv = "broken"], FALSE, TRUE)]
    /\ UNCHANGED <<tables, idle, ticked, running>>

\* proto_inner_callback_on_written_fn; a step that finds more data to write
\* leaves the session as it is
WriteDone(o) ==
    /\ sess[o].uv = "open" /\ "WRITING" \in sess[o].pflags
    /\ \/ /\ "CLOSING" \notin sess[o].pflags
          /\ sess' = [sess EXCEPT ![o].pflags = @ \ {"WRITING"}]
          /\ UNCHANGED tables
       \/ /\ "CLOSING" \in sess[o].pflags
          /\ OnClose(o, [sess EXCEPT ![o] = Drained(@)])
    /\ UNCHANGED <<idle, ticked, running>>

\* session::on_evt_shutdown only calls uv_close, whose callback on_evt_closed
\* drops the handle's reference to the session
OnEvtClosed(o) ==
    /\ sess[o].uv = "shutdown"
    /\ sess' = [sess EXCEPT ![o] = [Without(@, {"CLOSING_FD"}) EXCEPT !.uv = "closed"]]
    /\ UNCHANGED <<tables, idle, ticked, running>>

-----------------------------------------------------------------------------
(* Messages and errors from the client. *)

\* START_REQ: session::init_new_session; without encryption the handshake is
\* over at once, otherwise HandshakeDone or HandshakeFails ends it
StartReq(o) == \E i \in Ids, plain \in BOOLEAN, P \in PostResults :
    LET S == [sess EXCEPT ![o].id = i, ![o].router = DefaultRouter,
                          ![o].flags = @ \cup {"INITED"},
                          ![o].pflags = @ \cup {"WRITING"}
                             \cup (IF plain THEN {"HANDSHAKE_DONE"} ELSE {})]
    IN  /\ Handshaking(o)
        /\ \A p \in Obj : sess[p].id # i
        /\ ~plain => "crypt" \in Env
        /\ \/ /\ plain
              /\ Activate(o, S, actived, P)
              /\ UNCHANGED <<cache, rtimer>>
           \/ /\ ~plain
              /\ sess' = S
              /\ UNCHANGED tables
        /\ UNCHANGED <<idle, ticked, running>>

\* a message the protocol answers by itself: DH parameters, ping
Answer(o) ==
    /\ "answer" \in Env
    /\ Receiving(o)
    /\ sess' = [sess EXCEPT ![o].pflags = @ \cup {"WRITING"}]
    /\ UNCHANGED <<tables, idle, ticked, running>>

\* VERIFY succeeds: proto_inner_callback_on_handshake_done(0)
HandshakeDone(o) == \E P \in PostResults :
    /\ "crypt" \in Env
    /\ Handshaking(o) /\ "INITED" \in sess[o].flags
    /\ Activate(o, [sess EXCEPT ![o].pflags = @ \cup {"HANDSHAKE_DONE"}], actived, P)
    /\ UNCHANGED <<cache, rtimer, idle, ticked, running>>

\* a handshake step fails: close_handshake(error), close(EN_CRT_HANDSHAKE)
HandshakeFails(o) == \E kick \in BOOLEAN :
    /\ "crypt" \in Env
    /\ Handshaking(o)
    /\ ProtoCloses(o, [sess EXCEPT ![o].pflags = @ \cup {"HANDSHAKE_DONE"}], "final", kick)
    /\ UNCHANGED <<idle, ticked, running>>

\* the client's KICKOFF, an unreadable message, a post before the handshake:
\* dispatch_data closes the protocol
ClientCloses(o) == \E why \in Reason, kick \in BOOLEAN :
    /\ "client_close" \in Env
    /\ Receiving(o)
    /\ kick => why = "resumable"
    /\ ProtoCloses(o, sess, why, kick)
    /\ UNCHANGED <<idle, ticked, running>>

\* proto_->read reports a bad hash or size: session::on_read closes the session.
\* Messages before the bad one in the same buffer may have closed the protocol.
BadRead(o) == \E P \in PostResults :
    /\ "bad_data" \in Env
    /\ Reading(o)
    /\ sess' = CloseAll(sess, {o}, FALSE, P)
    /\ known' = known \ Removed(sess, {o}, FALSE, P)
    /\ UNCHANGED <<actived, cache, rtimer, idle, ticked, running>>

\* the connection breaks: session_manager::close(id, EN_CRT_RESET, true)
ReadError(o) == \E P \in PostResults :
    /\ Receiving(o)
    /\ MgrFinds(sess[o].id, TRUE)
    /\ MgrClose(sess[o].id, TRUE, sess, P)
    /\ UNCHANGED <<idle, ticked, running>>

\* session::on_alloc_read: the protocol closes and gives no buffer
AllocRead(o) ==
    /\ "late_data" \in Env
    /\ sess[o].uv = "open" /\ "CLOSING" \in sess[o].pflags
    /\ "HAS_FD" \in sess[o].flags
    /\ sess' = [sess EXCEPT ![o] = CloseFd(@)]
    /\ UNCHANGED <<tables, idle, ticked, running>>

-----------------------------------------------------------------------------
(* RECONNECT_REQ: proto_inner_callback_on_reconnect, session_manager::reconnect *)
(* and dispatch_handshake_reconn_req.  Whether the client's secret matches the  *)
(* old session's (check_reconnect) is a choice of the environment.              *)

\* session::init_reconnect and what follows it: x, found as xr, hands its id,
\* router and registration to n and is closed; n is activated
Resume(n, x, xr, act, P) ==
    LET new == [Inherited(sess[n], xr)
                  EXCEPT !.pflags = @ \cup {"HANDSHAKE_DONE", "WRITING"}]
    IN  /\ cache' = [cache EXCEPT ![xr.id] = Nil]
        /\ Activate(n, [sess EXCEPT ![x] = Close(Handed(xr), FALSE, TRUE), ![n] = new],
                    act, P)

\* the old session waits in the reconnect cache
Reconnect(n) == \E i \in Ids, P \in PostResults :
    /\ Handshaking(n) /\ "INITED" \notin sess[n].flags
    /\ cache[i] # Nil
    /\ sess[cache[i]].flags \cap {"HAS_FD", "RECONNECTED"} = {}
    /\ Resume(n, cache[i], sess[cache[i]], actived, P)
    /\ UNCHANGED <<rtimer, idle, ticked, running>>

\* the old session is still active: it is closed first, which parks it
Takeover(n) == \E i \in Ids, P \in PostResults :
    /\ Handshaking(n) /\ "INITED" \notin sess[n].flags
    /\ cache[i] = Nil /\ actived[i] # Nil /\ ReconnectTimeout > 0
    /\ "RECONNECTED" \notin sess[actived[i]].flags
    /\ Resume(n, actived[i], Parked(sess[actived[i]]),
              [actived EXCEPT ![i] = Nil], P)
    /\ rtimer' = Append(rtimer, [s |-> actived[i], left |-> ReconnectTimeout])
    /\ UNCHANGED <<idle, ticked, running>>

\* the refusal: the answer is written, the handshake fails and n closes
Refused(n, S) ==
    [S EXCEPT ![n].pflags = @ \cup {"HANDSHAKE_DONE", "CLOSING", "WRITING"},
              ![n].why = "resumable"]

\* no such session, a wrong secret, or n already has an id
ReconnectRefused(n) ==
    /\ "refuse" \in Env
    /\ Handshaking(n)
    /\ sess' = Refused(n, sess)
    /\ UNCHANGED <<tables, idle, ticked, running>>

\* reconnects are disabled: the old connection is closed all the same
TakeoverRefused(n) == \E i \in Ids, P \in PostResults :
    /\ Handshaking(n) /\ "INITED" \notin sess[n].flags
    /\ cache[i] = Nil /\ actived[i] # Nil /\ ReconnectTimeout = 0
    /\ MgrDrop(i, Refused(n, sess), P)
    /\ UNCHANGED <<idle, ticked, running>>

-----------------------------------------------------------------------------
(* Messages from the servers and commands. *)

\* Kickoff, and the kickoff and disconnect commands
Kickoff(i) == \E allow \in BOOLEAN, P \in PostResults :
    /\ "kick" \in Env
    /\ MgrFinds(i, allow)
    /\ MgrClose(i, allow, sess, P)
    /\ UNCHANGED <<idle, ticked, running>>

\* a post to one, several or all active sessions: session::send_to_client; the
\* sessions in over exceed a limit and are closed
Push(T) == \E over \in SUBSET T, P \in PostResults :
    LET open == {o \in T : "HAS_FD" \in sess[o].flags /\ "CLOSING" \notin sess[o].flags}
        S == [o \in Obj |-> IF o \in open /\ "CLOSING" \notin sess[o].pflags
                            THEN [sess[o] EXCEPT !.pflags = @ \cup {"WRITING"}]
                            ELSE sess[o]]
    IN  /\ "push" \in Env
        /\ over # {} => "over_limit" \in Env
        /\ over \subseteq open
        /\ sess' = CloseAll(S, over, FALSE, P)
        /\ known' = known \ Removed(S, over, FALSE, P)
        /\ UNCHANGED <<actived, cache, rtimer, idle, ticked, running>>

\* a post to a session that is not active: the server is told to remove it
PushMissing(i) ==
    /\ "push_away" \in Env
    /\ i \in known /\ actived[i] = Nil
    /\ known' = known \ {i}
    /\ UNCHANGED <<sess, actived, cache, rtimer, idle, ticked, running>>

SetRouter(i) == \E r \in Routers :
    /\ "set_router" \in Env
    /\ actived[i] # Nil
    /\ sess' = [sess EXCEPT ![actived[i]].router = r]
    /\ UNCHANGED <<tables, idle, ticked, running>>

-----------------------------------------------------------------------------
(* Time. *)

\* the seconds left to the timers of q when the clock reaches the next second
Elapsed(q) == [k \in 1..Len(q) |-> [q[k] EXCEPT !.left = IF @ > 0 THEN @ - 1 ELSE 0]]

\* the clock reaches the next second
Second ==
    /\ \/ ticked
       \/ \E k \in 1..Len(rtimer) : rtimer[k].left > 0
       \/ \E k \in 1..Len(idle) : idle[k].left > 0
    /\ rtimer' = Elapsed(rtimer)
    /\ idle' = Elapsed(idle)
    /\ ticked' = FALSE
    /\ UNCHANGED <<sess, actived, cache, known, running>>

\* the entries tick() pops: up to the first that has not expired
Expired(q) == {k \in 1..Len(q) : \A j \in 1..k : q[j].left = 0}
Rest(q) == SubSeq(q, Cardinality(Expired(q)) + 1, Len(q))

\* Mutant of IdleSessions: a session with a handshake under way is spared.
IdleSessions_Inited(S) ==
    {o \in {idle[k].s : k \in Expired(idle)} :
        S[o].flags \cap {"INITED", "CLOSING"} = {}}

\* the sessions tick() closes because their first idle time is over
IdleSessions(S) ==
    {o \in {idle[k].s : k \in Expired(idle)} :
        S[o].flags \cap {"REGISTERED", "CLOSING"} = {}}

\* session_manager::tick
Tick == \E P \in PostResults :
    LET E == {rtimer[k].s : k \in Expired(rtimer)}
        S == [o \in Obj |-> IF o \in E THEN Without(sess[o], {"WAIT_RECONNECT"})
                            ELSE sess[o]]
        T == CloseAll(S, E, TRUE, P)
        F == IdleSessions(T)
    IN  /\ ~ticked
        /\ ticked' = TRUE
        /\ cache' = [i \in Ids |-> IF \E o \in E : sess[o].id = i THEN Nil ELSE cache[i]]
        /\ sess' = CloseAll(T, F, FALSE, P)
        /\ known' = known \ Removed(S, E, TRUE, P)
        /\ rtimer' = Rest(rtimer)
        /\ idle' = Rest(idle)
        /\ UNCHANGED <<actived, running>>

\* stop(): session_manager::reset
Stop == \E P \in PostResults :
    LET C == {actived[i] : i \in Ids} \cup {cache[i] : i \in Ids}
               \cup {rtimer[k].s : k \in 1..Len(rtimer)}
               \cup {idle[k].s : k \in 1..Len(idle)}
    IN  /\ "stop" \in Env
        /\ running
        /\ running' = FALSE
        /\ sess' = CloseAll(sess, C \ {Nil}, FALSE, P)
        /\ known' = known \ Removed(sess, C \ {Nil}, FALSE, P)
        /\ actived' = [i \in Ids |-> Nil]
        /\ cache' = [i \in Ids |-> Nil]
        /\ rtimer' = <<>>
        /\ idle' = <<>>
        /\ UNCHANGED ticked

-----------------------------------------------------------------------------
Init ==
    /\ sess = [o \in Obj |-> NoSession]
    /\ actived = [i \in Ids |-> Nil]
    /\ cache = [i \in Ids |-> Nil]
    /\ rtimer = <<>>
    /\ idle = <<>>
    /\ ticked = FALSE
    /\ running = TRUE
    /\ known = {}

Active == {actived[i] : i \in Ids} \ {Nil}

Next ==
    \/ \E o \in Obj : \/ Accept(o) \/ AcceptBusy(o) \/ AcceptFails(o)
                      \/ WriteDone(o) \/ OnEvtClosed(o)
                      \/ StartReq(o) \/ Answer(o)
                      \/ HandshakeDone(o) \/ HandshakeFails(o)
                      \/ ClientCloses(o) \/ BadRead(o) \/ ReadError(o) \/ AllocRead(o)
                      \/ Reconnect(o) \/ Takeover(o)
                      \/ ReconnectRefused(o) \/ TakeoverRefused(o)
    \/ \E i \in Ids : Kickoff(i) \/ PushMissing(i) \/ SetRouter(i)
    \/ \E T \in SUBSET Active : Push(T)
    \/ Second \/ Tick \/ Stop

Spec == Init /\ [][Next]_vars

(* The loop runs its timers (the clock and tick()) and delivers the completion *)
(* of every shutdown and close it was asked for.  Nothing is assumed of        *)
(* clients and servers: a client that stops reading keeps a write pending.     *)
Fairness ==
    /\ WF_vars(Second) /\ WF_vars(Tick)
    /\ \A o \in Obj : WF_vars(OnEvtClosed(o))

FairSpec == Spec /\ Fairness

-----------------------------------------------------------------------------
(* Properties. *)

(* The state has its type: the tables map ids to session objects, and no timer  *)
(* of a list was set up with more than its configured seconds.                 *)
TypeOK ==
    /\ sess \in [Obj -> Session]
    /\ actived \in [Ids -> Obj \cup {Nil}]
    /\ cache \in [Ids -> Obj \cup {Nil}]
    /\ rtimer \in Seq(Timer(ReconnectTimeout))
    /\ idle \in Seq(Timer(FirstIdle))
    /\ ticked \in BOOLEAN
    /\ running \in BOOLEAN
    /\ known \subseteq Ids

\* the session that owes the router a "remove" for its id
Registrant(o) == /\ "REGISTERED" \in sess[o].flags
                 /\ "RECONNECTED" \notin sess[o].flags

(* Every id a server believes connected has exactly one session that is still   *)
(* to send its "remove", through every chain of reconnects, takeovers, kicks    *)
(* and timeouts: close_with_manager and init_reconnect never lose or duplicate  *)
(* a registration.  So no "add" is sent twice and no id is left with nobody to  *)
(* remove it.                                                                   *)
OneRegistrant ==
    \A i \in known : \E o \in Obj :
        /\ sess[o].id = i /\ Registrant(o)
        /\ \A p \in Obj \ {o} : sess[p].id = i => ~Registrant(p)

\* what the flags of one session object have to do with each other
SessionOK(r) ==
    /\ "REGISTERED" \in r.flags => "HANDSHAKE_DONE" \in r.pflags
    /\ "RECONNECTED" \in r.flags => "HANDSHAKE_DONE" \in r.pflags
    /\ "RECONNECTED" \in r.flags \/ "CLOSING_FD" \in r.flags => "HAS_FD" \notin r.flags
    /\ "REGISTERED" \in r.flags \/ "INITED" \in r.flags => r.id \in Ids
    /\ r.uv = "none" => r.id = NoId /\ "HANDSHAKE_DONE" \notin r.pflags

SessionsOK == \A o \in Obj : SessionOK(sess[o])

\* the tables hold sessions under their own ids, once their handshake is over
TableOK(table) ==
    \A i \in Ids : table[i] # Nil =>
        sess[table[i]].id = i /\ "HANDSHAKE_DONE" \in sess[table[i]].pflags

\* of all sessions that ever had an id, only the last one was not resumed
OneHeir ==
    \A o, p \in Obj :
        /\ sess[o].id \in Ids /\ sess[o].id = sess[p].id
        /\ "RECONNECTED" \notin sess[o].flags /\ "RECONNECTED" \notin sess[p].flags
        => o = p

HasRegistrant == \A i \in known : \E o \in Obj : sess[o].id = i /\ Registrant(o)

(* The inductive invariant behind OneRegistrant and OneConnection: an id passes  *)
(* from session to session in init_reconnect, which marks the giver.            *)
IndInv ==
    /\ TypeOK
    /\ SessionsOK
    /\ TableOK(actived)
    /\ TableOK(cache)
    /\ OneHeir
    /\ HasRegistrant

(* At most one connection is open for an id: session_manager::reconnect closes  *)
(* the old connection before the new session takes its id over.                 *)
OneConnection ==
    \A o, p \in Obj :
        /\ sess[o].id \in Ids /\ sess[o].id = sess[p].id
        /\ "HAS_FD" \in sess[o].flags /\ "HAS_FD" \in sess[p].flags
        => o = p

Pending(o) == \E k \in 1..Len(rtimer) : rtimer[k].s = o

\* who holds a shared pointer to o; CLOSING_FD stands for the one close_fd makes
Referenced(o) ==
    \/ \E i \in Ids : actived[i] = o \/ cache[i] = o
    \/ Pending(o)
    \/ \E k \in 1..Len(idle) : idle[k].s = o
    \/ "CLOSING_FD" \in sess[o].flags

(* A session nobody refers to any more has been closed (session::~session       *)
(* asserts EN_FT_CLOSING) and its libuv handle too, so that no callback runs on  *)
(* a freed session.                                                             *)
FreedAfterClose ==
    \A o \in Obj : sess[o].uv # "none" /\ ~Referenced(o) =>
        "CLOSING" \in sess[o].flags /\ sess[o].uv = "closed"

(* What the reconnect cache offers can be resumed and will expire: the session  *)
(* waits, has no connection, was not resumed before, is not active as well, and *)
(* its timer is in the list.                                                    *)
CacheConsistent ==
    \A i \in Ids : cache[i] # Nil =>
        /\ actived[i] = Nil
        /\ sess[cache[i]].id = i
        /\ "WAIT_RECONNECT" \in sess[cache[i]].flags
        /\ sess[cache[i]].flags \cap {"HAS_FD", "RECONNECTED"} = {}
        /\ Pending(cache[i])

(* A session whose client can send posts (on_message forwards them without a    *)
(* check) is the active session of its id, and the servers know the id.         *)
ForwardsOnlyKnown ==
    \A o \in Obj :
        /\ Receiving(o) /\ "HANDSHAKE_DONE" \in sess[o].pflags
        => actived[sess[o].id] = o /\ sess[o].id \in known

(* A closed session that is still registered has its reconnect timer running,   *)
(* which will tell the router: "the server must still be told to kick it", as   *)
(* close_with_manager says of its several calls.  No close loses the "remove",  *)
(* unless posts fail, data arrives on a draining connection, or the receive     *)
(* limits close a session while it registers ("recv_limit").                    *)
RemoveNotLost ==
    running => \A o \in Obj :
        "CLOSING" \in sess[o].flags /\ Registrant(o) => Pending(o)

\* the router that hears of id i
RouterOf(i) == sess[CHOOSE o \in Obj : sess[o].id = i /\ Registrant(o)].router

(* The router a server chose for a session stays with its id over reconnects:   *)
(* only a SetRouter message changes it.                                         *)
RouterKept ==
    [][\A i \in known \cap known' : RouterOf(i)' = RouterOf(i) \/ SetRouter(i)]_vars

(* A session parked in the reconnect cache does not stay there for ever: it is  *)
(* resumed, evicted or timed out.                                               *)
WaitEnds == \A i \in Ids, o \in Obj : cache[i] = o ~> cache[i] # o

(* A connection that does not finish its handshake is closed: first_idle_.      *)
HandshakeEnds == \A o \in Obj : Handshaking(o) ~> ~Handshaking(o)

\* close_fd has run on an accepted socket, and no write is pending on it
ClosesDrained(o) == /\ "CLOSING_FD" \in sess[o].flags
                    /\ "WRITING" \notin sess[o].pflags
                    /\ sess[o].uv # "broken"

(* Every close_fd ends in on_evt_closed, which frees the session, once the      *)
(* client has taken what was being written: whoever finishes last, close_fd or  *)
(* on_write_done, remembers the shutdown.  A client that stops reading, or a    *)
(* socket uv_accept failed on, keeps the session for ever.                      *)
FdReleased == \A o \in Obj :
    ClosesDrained(o) ~> "CLOSING_FD" \notin sess[o].flags

Connected(i) == \E o \in Obj : sess[o].id = i /\ "HAS_FD" \in sess[o].flags

(* If a known session loses its connection then it comes back or the servers    *)
(* are told: nobody keeps a dead session for ever, unless the "remove" was      *)
(* lost (RemoveNotLost).                                                        *)
AwayIsReported == \A i \in Ids :
    i \in known /\ ~Connected(i) ~> i \notin known \/ Connected(i) \/ ~running

-----------------------------------------------------------------------------
(* What comments and the configuration say of the gateway, and its code does    *)
(* not do.                                                                      *)

(* "TODO if it's closed manually, remove it from manager": a closed session is  *)
(* not in the table of active ones.                                             *)
ActiveIsOpen == \A i \in Ids : actived[i] # Nil => "CLOSING" \notin sess[actived[i]].flags

(* "this session id may reconnect again": a session that waits and whose time   *)
(* is not up is found by reconnect().                                           *)
WaitingIsCached ==
    \A k \in 1..Len(rtimer) :
        LET o == rtimer[k].s IN
        "WAIT_RECONNECT" \in sess[o].flags /\ rtimer[k].left > 0
            => cache[sess[o].id] = o

(* "notify to remove the expired session": a session that waits in the cache is  *)
(* not expired, so the server it is registered with goes on knowing it.         *)
WaitingIsKnown ==
    \A i \in Ids : cache[i] # Nil /\ Registrant(cache[i]) => i \in known

(* "max client number, more client will be closed".                             *)
WithinMaxClient ==
    MaxClient > 0 => Cardinality({i \in Ids : actived[i] # Nil})
                       + Cardinality({i \in Ids : cache[i] # Nil}) <= MaxClient

=============================================================================
